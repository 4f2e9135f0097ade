----------------------------- MODULE CallsProofs ----------------------------
(****************************************************************************)
(* A call ends up in the right cell, for every program and every number of  *)
(* classes, methods and parameters.                                         *)
(*                                                                          *)
(* SlotsInv is the invariant of the slot allocation, from its own proofs.   *)
(* LayoutInv says where write_global_data has put the tables and the        *)
(* v-tables, and that what is written stays; SizeInv that it has used up as *)
(* much of dispatch_data as was set aside for that.  CallInv says how far a *)
(* call has come, and that it has read the words for its own method and     *)
(* arguments.                                                               *)
(****************************************************************************)
EXTENDS Calls, CompilerTheorems

P == INSTANCE AssignSlotsProofs

-----------------------------------------------------------------------------
(* Folds: sums of sizes, virtual parameters, the parameters of all methods *)

\* a[k] is the sum of base and of the first k sizes.
IsSums(a, base, sizes, n) ==
    /\ a \in [0 .. n -> Nat]
    /\ a[0] = base
    /\ \A k \in 0 .. (n - 1) : a[k + 1] = a[k] + sizes[k + 1]

\* std::accumulate goes through the sums.
LEMMA AccumulateIsSum ==
    ASSUME NEW n \in Nat, NEW base \in Nat, NEW s \in [1 .. n -> Nat]
    PROVE  \E a : IsSums(a, base, s, n) /\ Accumulate(base, s) = a[n]
<1> DEFINE IsFold(f) == f = [S \in SUBSET (DOMAIN s) |->
                IF S = {} THEN base ELSE f[S \ {Max(S)}] + s[Max(S)]]
           h == CHOOSE f : IsFold(f)
           G == [p \in (1 .. n) \X Nat |-> p[2] + s[p[1]]]
<1>1. Accumulate(base, s) = h[DOMAIN s]
    BY Zenon DEF Accumulate, FoldLeft, MapThenFoldSet
<1>2. DOMAIN s = 1 .. n
    OBVIOUS
<1>3. /\ G \in [(1 .. n) \X Nat -> Nat]
      /\ \A i \in 1 .. n, x \in Nat : G[<<i, x>>] = x + s[i]
    OBVIOUS
<1> HIDE DEF G
<1>4. PICK f \in [SUBSET (1 .. n) -> Nat] : IsFoldOf(f, n, base, G)
    BY <1>3, FoldExists
<1>5. IsFold(f)
    <2>1. ASSUME NEW S \in SUBSET (1 .. n), S # {}
          PROVE  f[S] = f[S \ {Max(S)}] + s[Max(S)]
        <3>1. Max(S) \in 1 .. n
            BY <2>1, MaxOfNumbers
        <3>2. S \ {Max(S)} \in SUBSET (1 .. n) /\ f[S \ {Max(S)}] \in Nat
            OBVIOUS
        <3>3. f[S] = G[<<Max(S), f[S \ {Max(S)}]>>]
            BY <1>4, <2>1 DEF IsFoldOf
        <3> QED
            BY <1>3, <3>1, <3>2, <3>3
    <2>2. \A S \in SUBSET (1 .. n) :
              f[S] = IF S = {} THEN base ELSE f[S \ {Max(S)}] + s[Max(S)]
        BY <1>4, <2>1 DEF IsFoldOf
    <2> QED
        BY <1>2, <2>2
<1>6. IsFold(h)
    <2> HIDE DEF IsFold
    <2> QED
        BY <1>5
<1>7. FoldsWithin(h, n, base, G, Nat)
    <2>1. \A S \in SUBSET (1 .. n) :
              h[S] = IF S = {} THEN base ELSE h[S \ {Max(S)}] + s[Max(S)]
        BY <1>2, <1>6
    <2> HIDE DEF h
    <2>2. ASSUME NEW S \in SUBSET (1 .. n), S # {}, h[S \ {Max(S)}] \in Nat
          PROVE  h[S] = G[<<Max(S), h[S \ {Max(S)}]>>]
        <3>1. Max(S) \in 1 .. n
            BY <2>2, MaxOfNumbers
        <3> QED
            BY <1>3, <2>1, <2>2, <3>1
    <2> QED
        BY <2>1, <2>2 DEF FoldsWithin
<1>8. EndsRun(h, n, base, G, Nat)
    <2> HIDE DEF h
    <2> QED
        BY <1>3, <1>7, FoldRuns
<1>9. PICK a \in [0 .. n -> Nat] : IsRun(a, n, base, G) /\ h[1 .. n] = a[n]
    BY <1>8 DEF EndsRun
<1>10. IsSums(a, base, s, n)
    <2>1. ASSUME NEW k \in 0 .. (n - 1)
          PROVE  a[k + 1] = a[k] + s[k + 1]
        <3>1. k + 1 \in 1 .. n /\ a[k] \in Nat
            OBVIOUS
        <3> HIDE DEF h
        <3> QED
            BY <1>3, <1>9, <3>1 DEF IsRun
    <2> HIDE DEF h
    <2> QED
        BY <1>9, <2>1 DEF IsSums, IsRun
<1> HIDE DEF h
<1> QED
    BY <1>1, <1>2, <1>9, <1>10

\* a[k] holds the virtual ones of the first k parameters.
IsFilter(a, s, n, V) ==
    /\ a \in [0 .. n -> Seq(V)]
    /\ a[0] = <<>>
    /\ \A k \in 0 .. (n - 1) :
          a[k + 1] = IF s[k + 1] = NoClass THEN a[k] ELSE Append(a[k], s[k + 1])

LEMMA VirtualInIsFilter ==
    ASSUME NEW n \in Nat, NEW V, NEW s \in [1 .. n -> V \cup {NoClass}]
    PROVE  \E a : IsFilter(a, s, n, V) /\ VirtualIn(s) = a[n]
<1> DEFINE Taken(x, c) == IF c = NoClass THEN x ELSE Append(x, c)
           IsFold(f) == f = [S \in SUBSET (DOMAIN s) |->
                IF S = {} THEN <<>>
                ELSE IF s[Max(S)] = NoClass THEN f[S \ {Max(S)}]
                     ELSE Append(f[S \ {Max(S)}], s[Max(S)])]
           h == CHOOSE f : IsFold(f)
           G == [p \in (1 .. n) \X Seq(V) |-> Taken(p[2], s[p[1]])]
<1>1. VirtualIn(s) = h[DOMAIN s]
    BY Zenon DEF VirtualIn, FoldLeft, MapThenFoldSet
<1>2. DOMAIN s = 1 .. n
    OBVIOUS
<1>3. /\ G \in [(1 .. n) \X Seq(V) -> Seq(V)]
      /\ \A i \in 1 .. n, x \in Seq(V) : G[<<i, x>>] = Taken(x, s[i])
    <2>1. \A i \in 1 .. n, x \in Seq(V) : Taken(x, s[i]) \in Seq(V)
        OBVIOUS
    <2> HIDE DEF Taken
    <2> QED
        BY <2>1
<1> HIDE DEF G
<1>4. <<>> \in Seq(V)
    OBVIOUS
<1>5. PICK f \in [SUBSET (1 .. n) -> Seq(V)] : IsFoldOf(f, n, <<>>, G)
    BY <1>3, <1>4, FoldExists
<1>6. IsFold(f)
    <2>1. ASSUME NEW S \in SUBSET (1 .. n), S # {}
          PROVE  f[S] = Taken(f[S \ {Max(S)}], s[Max(S)])
        <3>1. Max(S) \in 1 .. n
            BY <2>1, MaxOfNumbers
        <3>2. S \ {Max(S)} \in SUBSET (1 .. n) /\ f[S \ {Max(S)}] \in Seq(V)
            OBVIOUS
        <3>3. f[S] = G[<<Max(S), f[S \ {Max(S)}]>>]
            BY <1>5, <2>1 DEF IsFoldOf
        <3> HIDE DEF Taken
        <3> QED
            BY <1>3, <3>1, <3>2, <3>3
    <2>2. \A S \in SUBSET (1 .. n) :
              f[S] = IF S = {} THEN <<>> ELSE Taken(f[S \ {Max(S)}], s[Max(S)])
        <3> HIDE DEF Taken
        <3> QED
            BY <1>5, <2>1 DEF IsFoldOf
    <2> QED
        BY <1>2, <2>2
<1>7. IsFold(h)
    <2> HIDE DEF IsFold
    <2> QED
        BY <1>6
<1>8. FoldsWithin(h, n, <<>>, G, Seq(V))
    <2>1. \A S \in SUBSET (1 .. n) :
              h[S] = IF S = {} THEN <<>> ELSE Taken(h[S \ {Max(S)}], s[Max(S)])
        BY <1>2, <1>7
    <2> HIDE DEF h, Taken
    <2>2. ASSUME NEW S \in SUBSET (1 .. n), S # {}, h[S \ {Max(S)}] \in Seq(V)
          PROVE  h[S] = G[<<Max(S), h[S \ {Max(S)}]>>]
        <3>1. Max(S) \in 1 .. n
            BY <2>2, MaxOfNumbers
        <3> QED
            BY <1>3, <2>1, <2>2, <3>1
    <2> QED
        BY <2>1, <2>2 DEF FoldsWithin
<1>9. EndsRun(h, n, <<>>, G, Seq(V))
    <2> HIDE DEF h
    <2> QED
        BY <1>3, <1>4, <1>8, FoldRuns
<1>10. PICK a \in [0 .. n -> Seq(V)] : IsRun(a, n, <<>>, G) /\ h[1 .. n] = a[n]
    BY <1>9 DEF EndsRun
<1>11. IsFilter(a, s, n, V)
    <2>1. ASSUME NEW k \in 0 .. (n - 1)
          PROVE  a[k + 1] = Taken(a[k], s[k + 1])
        <3>1. k + 1 \in 1 .. n /\ a[k] \in Seq(V)
            OBVIOUS
        <3> HIDE DEF h, Taken
        <3> QED
            BY <1>3, <1>10, <3>1 DEF IsRun
    <2> HIDE DEF h
    <2> QED
        BY <1>10, <2>1 DEF IsFilter, IsRun
<1> HIDE DEF h
<1> QED
    BY <1>1, <1>2, <1>10, <1>11
\* a[k] holds the virtual parameters of the first k methods.
IsConcat(a, methods, n, V) ==
    /\ a \in [0 .. n -> Seq(V)]
    /\ a[0] = <<>>
    /\ \A k \in 0 .. (n - 1) : a[k + 1] = a[k] \o VirtualIn(methods[k + 1].params)

LEMMA AllVpIsConcat ==
    ASSUME NEW n \in Nat, NEW V, NEW s, DOMAIN s = 1 .. n,
           \A i \in 1 .. n : VirtualIn(s[i].params) \in Seq(V)
    PROVE  \E a : IsConcat(a, s, n, V) /\ AllVp(s) = a[n]
<1> DEFINE IsFold(f) == f = [S \in SUBSET (DOMAIN s) |->
                IF S = {} THEN <<>>
                ELSE f[S \ {Max(S)}] \o VirtualIn(s[Max(S)].params)]
           h == CHOOSE f : IsFold(f)
           G == [p \in (1 .. n) \X Seq(V) |-> p[2] \o VirtualIn(s[p[1]].params)]
<1>1. AllVp(s) = h[DOMAIN s]
    BY Zenon DEF AllVp, FoldLeft, MapThenFoldSet
<1>2. DOMAIN s = 1 .. n
    OBVIOUS
<1>3. /\ G \in [(1 .. n) \X Seq(V) -> Seq(V)]
      /\ \A i \in 1 .. n, x \in Seq(V) : G[<<i, x>>] = x \o VirtualIn(s[i].params)
    <2> DEFINE v(i) == VirtualIn(s[i].params)
    <2>1. \A i \in 1 .. n, x \in Seq(V) : x \o v(i) \in Seq(V)
        OBVIOUS
    <2> HIDE DEF v
    <2>2. G = [p \in (1 .. n) \X Seq(V) |-> p[2] \o v(p[1])]
        BY Zenon DEF v
    <2>3. /\ G \in [(1 .. n) \X Seq(V) -> Seq(V)]
          /\ \A i \in 1 .. n, x \in Seq(V) : G[<<i, x>>] = x \o v(i)
        <3> HIDE DEF G
        <3> QED
            BY <2>1, <2>2
    <2> QED
        BY <2>3, Zenon DEF v
<1> HIDE DEF G
<1>0. <<>> \in Seq(V)
    OBVIOUS
<1>4. PICK f \in [SUBSET (1 .. n) -> Seq(V)] : IsFoldOf(f, n, <<>>, G)
    BY <1>0, <1>3, FoldExists
<1>5. IsFold(f)
    <2>1. ASSUME NEW S \in SUBSET (1 .. n), S # {}
          PROVE  f[S] = f[S \ {Max(S)}] \o VirtualIn(s[Max(S)].params)
        <3>1. Max(S) \in 1 .. n
            BY <2>1, MaxOfNumbers
        <3>2. S \ {Max(S)} \in SUBSET (1 .. n) /\ f[S \ {Max(S)}] \in Seq(V)
            OBVIOUS
        <3>3. f[S] = G[<<Max(S), f[S \ {Max(S)}]>>]
            BY <1>4, <2>1 DEF IsFoldOf
        <3> QED
            BY <1>3, <3>1, <3>2, <3>3
    <2>2. \A S \in SUBSET (1 .. n) :
              f[S] = IF S = {} THEN <<>> ELSE f[S \ {Max(S)}] \o VirtualIn(s[Max(S)].params)
        BY <1>4, <2>1 DEF IsFoldOf
    <2> QED
        BY <1>2, <2>2
<1>6. IsFold(h)
    <2> HIDE DEF IsFold
    <2> QED
        BY <1>5
<1>7. FoldsWithin(h, n, <<>>, G, Seq(V))
    <2>1. \A S \in SUBSET (1 .. n) :
              h[S] = IF S = {} THEN <<>> ELSE h[S \ {Max(S)}] \o VirtualIn(s[Max(S)].params)
        BY <1>2, <1>6
    <2> HIDE DEF h
    <2>2. ASSUME NEW S \in SUBSET (1 .. n), S # {}, h[S \ {Max(S)}] \in Seq(V)
          PROVE  h[S] = G[<<Max(S), h[S \ {Max(S)}]>>]
        <3>1. Max(S) \in 1 .. n
            BY <2>2, MaxOfNumbers
        <3> QED
            BY <1>3, <2>1, <2>2, <3>1
    <2> QED
        BY <2>1, <2>2 DEF FoldsWithin
<1>8. EndsRun(h, n, <<>>, G, Seq(V))
    <2> HIDE DEF h
    <2> QED
        BY <1>0, <1>3, <1>7, FoldRuns
<1>9. PICK a \in [0 .. n -> Seq(V)] : IsRun(a, n, <<>>, G) /\ h[1 .. n] = a[n]
    BY <1>8 DEF EndsRun
<1>10. IsConcat(a, s, n, V)
    <2>1. ASSUME NEW k \in 0 .. (n - 1)
          PROVE  a[k + 1] = a[k] \o VirtualIn(s[k + 1].params)
        <3>1. k + 1 \in 1 .. n /\ a[k] \in Seq(V)
            OBVIOUS
        <3> HIDE DEF h
        <3> QED
            BY <1>3, <1>9, <3>1 DEF IsRun
    <2> HIDE DEF h
    <2> QED
        BY <1>9, <2>1 DEF IsConcat, IsRun
<1> HIDE DEF h
<1> QED
    BY <1>1, <1>2, <1>9, <1>10

-----------------------------------------------------------------------------
(* The virtual parameters among all the parameters *)

\* g[i] is the position of the i-th virtual one of the first k parameters.
Picks(g, s, v, k) ==
    /\ g \in [1 .. Len(v) -> 1 .. k]
    /\ \A i, j \in 1 .. Len(v) : i < j => g[i] < g[j]
    /\ \A i \in 1 .. Len(v) : v[i] = s[g[i]] /\ s[g[i]] # NoClass
    /\ \A p \in 1 .. k : s[p] # NoClass => \E i \in 1 .. Len(v) : g[i] = p

\* One parameter more.
LEMMA PicksOneMore ==
    ASSUME NEW k \in Nat, NEW V, NEW s, NEW v \in Seq(V), NEW g, Picks(g, s, v, k),
           s[k + 1] # NoClass, s[k + 1] \in V
    PROVE  Picks([i \in 1 .. (Len(v) + 1) |-> IF i = Len(v) + 1 THEN k + 1 ELSE g[i]],
                 s, Append(v, s[k + 1]), k + 1)
<1> DEFINE w == Append(v, s[k + 1])
           f == [i \in 1 .. (Len(v) + 1) |-> IF i = Len(v) + 1 THEN k + 1 ELSE g[i]]
<1>1. /\ Len(w) = Len(v) + 1 /\ w[Len(v) + 1] = s[k + 1] /\ Len(v) \in Nat
      /\ \A i \in 1 .. Len(v) : w[i] = v[i]
    OBVIOUS
<1>2. \A i \in 1 .. Len(v) : f[i] = g[i] /\ g[i] \in 1 .. k
    BY DEF Picks
<1>3. f[Len(v) + 1] = k + 1 /\ f = [i \in 1 .. Len(w) |-> f[i]]
    BY <1>1
<1> HIDE DEF w, f
<1>4. \A i \in 1 .. Len(w) : i = Len(v) + 1 \/ i \in 1 .. Len(v)
    BY <1>1
<1>0. /\ \A x \in 1 .. k : x \in 1 .. (k + 1) /\ x < k + 1
      /\ k + 1 \in 1 .. (k + 1)
    OBVIOUS
<1>5. f \in [1 .. Len(w) -> 1 .. (k + 1)]
    <2>1. \A i \in 1 .. Len(w) : f[i] \in 1 .. (k + 1)
        <3> TAKE i \in 1 .. Len(w)
        <3>1. CASE i = Len(v) + 1
            BY <1>0, <1>3, <3>1
        <3>2. CASE i \in 1 .. Len(v)
            BY <1>0, <1>2, <3>2
        <3> QED
            BY <1>4, <3>1, <3>2
    <2> QED
        BY <1>3, <2>1
<1>6. ASSUME NEW i \in 1 .. Len(w), NEW j \in 1 .. Len(w), i < j
      PROVE  f[i] < f[j]
    <2>1. CASE j = Len(v) + 1
        <3>1. i \in 1 .. Len(v)
            BY <1>1, <1>6, <2>1
        <3>2. f[i] = g[i] /\ g[i] \in 1 .. k /\ f[j] = k + 1
            BY <1>2, <1>3, <2>1, <3>1
        <3> QED
            BY <1>0, <3>2
    <2>2. CASE j \in 1 .. Len(v)
        <3>1. i \in 1 .. Len(v)
            BY <1>1, <1>6, <2>2
        <3> QED
            BY <1>2, <1>6, <2>2, <3>1 DEF Picks
    <2> QED
        BY <1>4, <2>1, <2>2
<1>7. \A i \in 1 .. Len(w) : w[i] = s[f[i]] /\ s[f[i]] # NoClass
    BY <1>1, <1>2, <1>3, <1>4 DEF Picks
<1>8. ASSUME NEW p \in 1 .. (k + 1), s[p] # NoClass
      PROVE  \E i \in 1 .. Len(w) : f[i] = p
    <2>1. CASE p = k + 1
        BY <1>1, <1>3, <2>1
    <2>2. CASE p \in 1 .. k
        <3>1. PICK i \in 1 .. Len(v) : g[i] = p
            BY <1>8, <2>2 DEF Picks
        <3> QED
            BY <1>1, <1>2, <3>1
    <2> QED
        BY <2>1, <2>2
<1>9. Picks(f, s, w, k + 1)
    BY <1>5, <1>6, <1>7, <1>8 DEF Picks
<1> QED
    BY <1>9 DEF f, w

LEMMA PicksTheSame ==
    ASSUME NEW k \in Nat, NEW V, NEW s, NEW v \in Seq(V), NEW g, Picks(g, s, v, k),
           s[k + 1] = NoClass
    PROVE  Picks(g, s, v, k + 1)
<1>1. g \in [1 .. Len(v) -> 1 .. (k + 1)]
    <2>1. \A x \in 1 .. k : x \in 1 .. (k + 1)
        OBVIOUS
    <2> QED
        BY <2>1 DEF Picks
<1>2. ASSUME NEW p \in 1 .. (k + 1), s[p] # NoClass
      PROVE  p \in 1 .. k
    BY <1>2
<1> QED
    BY <1>1, <1>2 DEF Picks

\* Arguments are passed in the positions of the parameters: the virtual ones
\* are picked from the same positions.
LEMMA VirtualOnes ==
    ASSUME NEW n \in Nat, NEW V, NoClass \notin V,
           NEW s \in [1 .. n -> V \cup {NoClass}], NEW t \in [1 .. n -> V \cup {NoClass}],
           \A i \in 1 .. n : s[i] = NoClass <=> t[i] = NoClass
    PROVE  /\ VirtualIn(s) \in Seq(V) /\ VirtualIn(t) \in Seq(V)
           /\ Len(VirtualIn(s)) = Len(VirtualIn(t))
           /\ \E g : Picks(g, s, VirtualIn(s), n) /\ Picks(g, t, VirtualIn(t), n)
<1>1. PICK a : IsFilter(a, s, n, V) /\ VirtualIn(s) = a[n]
    BY VirtualInIsFilter
<1>2. PICK b : IsFilter(b, t, n, V) /\ VirtualIn(t) = b[n]
    BY VirtualInIsFilter
<1> DEFINE Both(k) == /\ Len(a[k]) = Len(b[k])
                      /\ \E g : Picks(g, s, a[k], k) /\ Picks(g, t, b[k], k)
           S == { k \in 0 .. n : Both(k) }
<1>3. 0 \in S
    <2>1. a[0] = <<>> /\ b[0] = <<>> /\ Len(<<>>) = 0
        BY <1>1, <1>2 DEF IsFilter
    <2>2. 1 .. 0 = {}
        OBVIOUS
    <2>3. Picks(<<>>, s, <<>>, 0) /\ Picks(<<>>, t, <<>>, 0)
        BY <2>2 DEF Picks
    <2> QED
        BY <2>1, <2>3
<1>4. ASSUME NEW k \in 0 .. (n - 1), k \in S
      PROVE  k + 1 \in S
    <2>1. /\ k \in Nat /\ k \in 0 .. n /\ k + 1 \in 1 .. n /\ k + 1 \in 0 .. n
          /\ Len(a[k]) = Len(b[k])
        BY <1>4
    <2>2. PICK g : Picks(g, s, a[k], k) /\ Picks(g, t, b[k], k)
        BY <1>4
    <2>3. /\ a[k] \in Seq(V) /\ b[k] \in Seq(V)
          /\ a[k + 1] = IF s[k + 1] = NoClass THEN a[k] ELSE Append(a[k], s[k + 1])
          /\ b[k + 1] = IF t[k + 1] = NoClass THEN b[k] ELSE Append(b[k], t[k + 1])
        BY <1>1, <1>2, <2>1 DEF IsFilter
    <2>4. CASE s[k + 1] = NoClass
        <3>1. t[k + 1] = NoClass
            BY <2>1, <2>4
        <3>2. Picks(g, s, a[k + 1], k + 1) /\ Picks(g, t, b[k + 1], k + 1)
            BY <2>1, <2>2, <2>3, <2>4, <3>1, PicksTheSame
        <3>3. Both(k + 1)
            BY <2>1, <2>3, <2>4, <3>1, <3>2
        <3> QED
            BY <2>1, <3>3
    <2>5. CASE s[k + 1] # NoClass
        <3>1. t[k + 1] # NoClass /\ s[k + 1] \in V /\ t[k + 1] \in V
            BY <2>1, <2>5
        <3> DEFINE f == [i \in 1 .. (Len(a[k]) + 1) |-> IF i = Len(a[k]) + 1 THEN k + 1 ELSE g[i]]
        <3>2. Picks(f, s, Append(a[k], s[k + 1]), k + 1)
            BY <2>1, <2>2, <2>3, <2>5, <3>1, PicksOneMore
        <3>3. Picks(f, t, Append(b[k], t[k + 1]), k + 1)
            BY <2>1, <2>2, <2>3, <3>1, PicksOneMore
        <3>4. Len(Append(a[k], s[k + 1])) = Len(Append(b[k], t[k + 1]))
            BY <2>1, <2>3
        <3>5. Both(k + 1)
            <4> HIDE DEF f
            <4> QED
                BY <2>3, <2>5, <3>1, <3>2, <3>3, <3>4
        <3> QED
            BY <2>1, <3>5
    <2> QED
        BY <2>4, <2>5
<1>5. n \in S
    <2> HIDE DEF S
    <2>1. \A k \in 0 .. n : k \in S
        BY <1>3, <1>4, Upward
    <2> QED
        BY <2>1
<1>6. n \in 0 .. n /\ Both(n)
    BY <1>5
<1> QED
    BY <1>1, <1>2, <1>6 DEF IsFilter

\* The virtual parameters are at least as far apart as their numbers.
LEMMA PicksAreApart ==
    ASSUME NEW n \in Nat, NEW V, NEW s, NEW v \in Seq(V), NEW g, Picks(g, s, v, n)
    PROVE  \A i \in 1 .. Len(v) : g[i] >= g[1] + i - 1
<1> DEFINE m == Len(v) - 1
           S == { k \in 0 .. m : g[k + 1] >= g[1] + k }
<1>1. CASE Len(v) = 0
    BY <1>1
<1>2. CASE Len(v) # 0
    <2>0. Len(v) \in Nat /\ m \in Nat
        BY <1>2
    <2>1. g[1] \in 1 .. n /\ 0 \in S
        BY <2>0 DEF Picks
    <2>2. ASSUME NEW k \in 0 .. (m - 1), k \in S
          PROVE  k + 1 \in S
        <3>1. k + 1 \in 1 .. Len(v) /\ (k + 1) + 1 \in 1 .. Len(v) /\ k + 1 < (k + 1) + 1
            BY <2>0
        <3>2. g[k + 1] \in 1 .. n /\ g[(k + 1) + 1] \in 1 .. n /\ g[k + 1] < g[(k + 1) + 1]
            BY <3>1 DEF Picks
        <3>3. g[k + 1] >= g[1] + k /\ k + 1 \in 0 .. m
            BY <2>0, <2>2
        <3>4. g[(k + 1) + 1] >= g[1] + (k + 1)
            BY <2>1, <3>2, <3>3
        <3> QED
            BY <3>3, <3>4
    <2>3. \A k \in 0 .. m : k \in S
        <3> HIDE DEF S, m
        <3> QED
            BY <2>0, <2>1, <2>2, Upward
    <2>4. ASSUME NEW i \in 1 .. Len(v)
          PROVE  g[i] >= g[1] + i - 1
        <3>1. i - 1 \in S /\ (i - 1) + 1 = i
            BY <2>0, <2>3
        <3>2. g[i] >= g[1] + (i - 1)
            BY <3>1
        <3> QED
            BY <2>1, <3>2
    <2> QED
        BY <2>4
<1> QED
    BY <1>1, <1>2

\* Contiguous ones are exactly as far apart.
LEMMA ContiguousPicks ==
    ASSUME NEW n \in Nat, NEW V, NEW s, DOMAIN s = 1 .. n, NEW v \in Seq(V), NEW g,
           Picks(g, s, v, n), IsContiguous(s)
    PROVE  \A i \in 1 .. Len(v) : g[i] = g[1] + i - 1
<1> DEFINE m == Len(v) - 1
           S == { k \in 0 .. m : g[k + 1] = g[1] + k }
<1>1. CASE Len(v) = 0
    BY <1>1
<1>2. CASE Len(v) # 0
    <2>0. Len(v) \in Nat /\ m \in Nat
        BY <1>2
    <2>1. g[1] \in 1 .. n /\ 0 \in S
        BY <2>0 DEF Picks
    <2>2. ASSUME NEW k \in 0 .. (m - 1), k \in S
          PROVE  k + 1 \in S
        <3> DEFINE x == k + 1
                   y == x + 1
        <3>1. x \in 1 .. Len(v) /\ y \in 1 .. Len(v) /\ x < y
            BY <2>0
        <3>2. /\ g[x] \in 1 .. n /\ g[y] \in 1 .. n /\ g[x] < g[y]
              /\ s[g[x]] # NoClass /\ s[g[y]] # NoClass
            BY <3>1 DEF Picks
        <3>3. g[x] + 1 \in g[x] .. g[y] /\ g[x] + 1 \in 1 .. n
            BY <3>2
        <3>4. s[g[x] + 1] # NoClass
            BY <3>2, <3>3 DEF IsContiguous
        <3>5. PICK j \in 1 .. Len(v) : g[j] = g[x] + 1
            BY <3>3, <3>4 DEF Picks
        <3>6. ~ (j < x) /\ j # x
            BY <3>1, <3>2, <3>5 DEF Picks
        <3>7. ~ (y < j)
            BY <3>1, <3>2, <3>3, <3>5 DEF Picks
        <3>8. j = y
            BY <2>0, <3>1, <3>6, <3>7
        <3>9. g[x] = g[1] + k /\ x \in 0 .. m
            BY <2>0, <2>2
        <3>10. g[y] = g[1] + x
            BY <2>1, <3>5, <3>8, <3>9
        <3> QED
            BY <3>9, <3>10
    <2>3. \A k \in 0 .. m : k \in S
        <3> HIDE DEF S, m
        <3> QED
            BY <2>0, <2>1, <2>2, Upward
    <2>4. ASSUME NEW i \in 1 .. Len(v)
          PROVE  g[i] = g[1] + i - 1
        <3>1. i - 1 \in S /\ (i - 1) + 1 = i
            BY <2>0, <2>3
        <3>2. g[i] = g[1] + (i - 1)
            BY <3>1
        <3> QED
            BY <2>1, <3>2
    <2> QED
        BY <2>4
<1> QED
    BY <1>1, <1>2
-----------------------------------------------------------------------------
(* The parameters of all the methods *)

\* The parameters of the first methods come first.
LEMMA ParamsOfTheFirst ==
    ASSUME NEW N \in Nat, NEW methods, methods \in [1 .. N -> MethodInfo],
           \A m \in 1 .. N : VirtualIn(methods[m].params) \in Seq(Class)
    PROVE  \E a : /\ IsConcat(a, methods, N, Class) /\ AllVp(methods) = a[N]
                  /\ \A j \in 0 .. N : AllVp(SubSeq(methods, 1, j)) = a[j]
<1>1. PICK a : IsConcat(a, methods, N, Class) /\ AllVp(methods) = a[N]
    BY AllVpIsConcat
<1>2. ASSUME NEW j \in 0 .. N
      PROVE  AllVp(SubSeq(methods, 1, j)) = a[j]
    <2> DEFINE s == SubSeq(methods, 1, j)
    <2>1. j \in Nat
        OBVIOUS
    <2>2. DOMAIN s = 1 .. j /\ \A i \in 1 .. j : s[i] = methods[i] /\ i \in 1 .. N
        <3>1. s = [i \in 1 .. (1 + j - 1) |-> methods[i + 1 - 1]]
            OBVIOUS
        <3>2. \A i \in 1 .. j : i + 1 - 1 = i /\ i \in 1 .. N
            BY <2>1
        <3>3. 1 + j - 1 = j
            BY <2>1
        <3> QED
            BY <3>1, <3>2, <3>3
    <2>3. AllVp(SubSeq(methods, 1, j)) = AllVp(s)
        OBVIOUS
    <2> HIDE DEF s
    <2>4. PICK b : IsConcat(b, s, j, Class) /\ AllVp(s) = b[j]
        BY <2>1, <2>2, AllVpIsConcat
    <2> DEFINE S == { k \in 0 .. j : b[k] = a[k] }
    <2>5. 0 \in S
        BY <1>1, <2>1, <2>4 DEF IsConcat
    <2>6. ASSUME NEW k \in 0 .. (j - 1), k \in S
          PROVE  k + 1 \in S
        <3>1. k \in 0 .. (N - 1) /\ k + 1 \in 1 .. j /\ k + 1 \in 0 .. j
            BY <2>1
        <3>2. /\ b[k + 1] = b[k] \o VirtualIn(s[k + 1].params)
              /\ a[k + 1] = a[k] \o VirtualIn(methods[k + 1].params)
            BY <1>1, <2>4, <3>1 DEF IsConcat
        <3> QED
            BY <2>2, <2>6, <3>1, <3>2
    <2>7. \A k \in 0 .. j : k \in S
        <3> HIDE DEF S
        <3> QED
            BY <2>1, <2>5, <2>6, Upward
    <2> QED
        BY <2>1, <2>3, <2>4, <2>7
<1> QED
    BY <1>1, <1>2

\* Two sequences, one after the other.
LEMMA Joined ==
    ASSUME NEW V, NEW p \in Seq(V), NEW q \in Seq(V), NEW r, r = p \o q
    PROVE  /\ r \in Seq(V)
           /\ Len(r) = Len(p) + Len(q) /\ Len(q) \in Nat /\ Len(p) \in Nat
           /\ \A i \in 1 .. Len(p) : r[i] = p[i]
           /\ \A i \in 1 .. Len(q) : r[Len(p) + i] = q[i]
    OBVIOUS

\* A longer list of methods has the parameters of a shorter one, and more.
LEMMA ParamsStay ==
    ASSUME NEW N \in Nat, NEW methods, NEW a, IsConcat(a, methods, N, Class),
           \A m \in 1 .. N : VirtualIn(methods[m].params) \in Seq(Class),
           NEW j \in 0 .. N
    PROVE  \A k \in j .. N : /\ Len(a[j]) <= Len(a[k])
                             /\ \A i \in 1 .. Len(a[j]) : a[k][i] = a[j][i]
<1> DEFINE Stay(k) == /\ Len(a[j]) <= Len(a[k])
                      /\ \A i \in 1 .. Len(a[j]) : a[k][i] = a[j][i]
           S == { k \in 0 .. (N - j) : Stay(j + k) }
<1>1. N - j \in Nat /\ j \in Nat /\ j + 0 = j
    OBVIOUS
<1>2. \A k \in 0 .. N : a[k] \in Seq(Class) /\ Len(a[k]) \in Nat
    <2>1. \A k \in 0 .. N : a[k] \in Seq(Class)
        BY DEF IsConcat
    <2> QED
        BY <2>1
<1>3. 0 \in S
    BY <1>1, <1>2
<1>4. ASSUME NEW k \in 0 .. (N - j - 1), k \in S
      PROVE  k + 1 \in S
    <2> DEFINE x == j + k
               v == VirtualIn(methods[x + 1].params)
    <2>1. x \in 0 .. (N - 1) /\ x \in 0 .. N /\ x + 1 \in 1 .. N /\ x + 1 \in 0 .. N
          /\ j + (k + 1) = x + 1 /\ k + 1 \in 0 .. (N - j)
        BY <1>1
    <2>2. a[x + 1] = a[x] \o v /\ v \in Seq(Class) /\ a[x] \in Seq(Class)
        BY <1>2, <2>1 DEF IsConcat
    <2>3. /\ Len(a[x + 1]) = Len(a[x]) + Len(v) /\ Len(v) \in Nat /\ Len(a[x]) \in Nat
          /\ \A i \in 1 .. Len(a[x]) : a[x + 1][i] = a[x][i]
        <3> HIDE DEF x, v
        <3> QED
            BY <2>2, Joined
    <2>4. Stay(x)
        BY <1>4
    <2> HIDE DEF x, v
    <2>5. \A i \in 1 .. Len(a[j]) : i \in 1 .. Len(a[x])
        BY <1>2, <2>3, <2>4
    <2>6. Stay(x + 1)
        BY <1>2, <2>3, <2>4, <2>5
    <2>7. Stay(j + (k + 1))
        BY <2>1, <2>6
    <2> QED
        BY <2>1, <2>7
<1>5. \A k \in 0 .. (N - j) : k \in S
    <2> HIDE DEF S
    <2> QED
        BY <1>1, <1>3, <1>4, Upward
<1>6. ASSUME NEW k \in j .. N
      PROVE  Stay(k)
    <2>1. k - j \in 0 .. (N - j) /\ j + (k - j) = k
        BY <1>1
    <2>2. Stay(j + (k - j))
        BY <1>5, <2>1
    <2> QED
        BY <2>1, <2>2
<1> QED
    BY <1>6
-----------------------------------------------------------------------------
(* The program of a state *)

ProgramInv ==
    /\ program \in Programs
    /\ bases = program.collected
    /\ directBases = program.direct
    /\ derived = DerivedOf(program.bases)
    /\ host = AllVp(program.methods)

\* The virtual parameter d of method m.
IsVp(m, d) == m \in Method /\ d \in 1 .. ArityOf(m)

LEMMA MethodFacts ==
    ASSUME ProgramInv
    PROVE  /\ NumMethods \in Nat /\ Method = 1 .. NumMethods
           /\ program.methods \in [1 .. NumMethods -> MethodInfo]
           /\ \A m \in Method : Params(m) \in Seq(Class \cup {NoClass})
           /\ \A m \in Method : Vp(m) \in Seq(Class) /\ ArityOf(m) \in Nat \ {0}
           /\ NoClass \notin Class
<1>1. program.methods \in Seq(MethodInfo)
    BY ProgramsAssumption DEF ProgramInv
<1>2. /\ NumMethods \in Nat /\ Method = 1 .. NumMethods
      /\ program.methods \in [1 .. NumMethods -> MethodInfo]
    BY <1>1 DEF NumMethods, Method
<1>3. NoClass \notin Class
    BY DEF NoClass, Class
<1>4. ASSUME NEW m \in Method
      PROVE  Params(m) \in Seq(Class \cup {NoClass})
    BY <1>2, <1>4 DEF Params, MethodInfo
<1>5. ASSUME NEW m \in Method
      PROVE  Vp(m) \in Seq(Class) /\ ArityOf(m) \in Nat \ {0}
    <2>1. Params(m) \in Seq(Class \cup {NoClass})
        BY <1>4
    <2>2. Len(Params(m)) \in Nat /\ Params(m) \in [1 .. Len(Params(m)) -> Class \cup {NoClass}]
        BY <2>1
    <2>3. Vp(m) \in Seq(Class)
        BY <1>3, <2>2, VirtualOnes DEF Vp
    <2>4. Vp(m) # <<>>
        BY ProgramsAssumption DEF ProgramInv, Vp, Params, Method
    <2> QED
        BY <2>3, <2>4 DEF ArityOf
<1> QED
    BY <1>2, <1>3, <1>4, <1>5

\* The parameters of the methods are those the slots are given to, each once.
LEMMA ParamFacts ==
    ASSUME ProgramInv
    PROVE  /\ NumParams \in Nat /\ host \in [1 .. NumParams -> Class] /\ Len(host) = NumParams
           /\ NumParams # 0 => NumMethods # 0
           /\ \A m, d : IsVp(m, d) => /\ ParamOf(m, d) \in 1 .. NumParams
                                      /\ host[ParamOf(m, d)] = Vp(m)[d]
                                      /\ d \in 1 .. NumParams
           /\ \A m, d, n, e : IsVp(m, d) /\ IsVp(n, e) /\ ParamOf(m, d) = ParamOf(n, e) =>
                 m = n /\ d = e
<1> DEFINE N == NumMethods
           ms == program.methods
<1>1. /\ N \in Nat /\ Method = 1 .. N /\ ms \in [1 .. N -> MethodInfo]
      /\ \A m \in 1 .. N : VirtualIn(ms[m].params) \in Seq(Class)
      /\ \A m \in 1 .. N : Vp(m) = VirtualIn(ms[m].params)
    BY MethodFacts DEF Vp, Params
<1>2. PICK a : /\ IsConcat(a, ms, N, Class) /\ AllVp(ms) = a[N]
               /\ \A j \in 0 .. N : AllVp(SubSeq(ms, 1, j)) = a[j]
    <2> HIDE DEF N, ms
    <2> QED
        BY <1>1, ParamsOfTheFirst
<1>3. host = a[N] /\ Len(AllVp(ms)) = NumParams
    BY <1>2, ProgramsAssumption DEF ProgramInv
<1>4. \A m, d : ParamOf(m, d) = d + Len(AllVp(SubSeq(ms, 1, m - 1)))
    BY DEF ParamOf
<1> HIDE DEF N, ms
<1>5. \A k \in 0 .. N : a[k] \in Seq(Class) /\ Len(a[k]) \in Nat
    <2>1. \A k \in 0 .. N : a[k] \in Seq(Class)
        BY <1>2 DEF IsConcat
    <2> QED
        BY <2>1
<1>6. NumParams \in Nat /\ host \in [1 .. NumParams -> Class] /\ Len(host) = NumParams
    <2>1. N \in 0 .. N
        BY <1>1
    <2>2. host \in Seq(Class) /\ Len(host) = NumParams
        BY <1>2, <1>3, <1>5, <2>1
    <2> QED
        BY <2>2
<1>7. NumParams # 0 => N # 0
    <2>1. a[0] = <<>> /\ Len(<<>>) = 0
        BY <1>2 DEF IsConcat
    <2> QED
        BY <1>2, <1>3, <2>1
\* Where the parameters of a method are.
<1>8. ASSUME NEW m, NEW d, IsVp(m, d)
      PROVE  /\ m \in 1 .. N /\ m - 1 \in 0 .. N /\ m \in 0 .. N
             /\ ParamOf(m, d) = d + Len(a[m - 1])
             /\ ParamOf(m, d) \in 1 .. Len(a[m]) /\ d \in Nat \ {0}
             /\ a[m][ParamOf(m, d)] = Vp(m)[d]
    <2>1. m \in 1 .. N /\ m - 1 \in 0 .. N /\ m \in 0 .. N /\ m - 1 \in 0 .. (N - 1)
          /\ (m - 1) + 1 = m
        BY <1>1, <1>8 DEF IsVp
    <2>2. a[m] = a[m - 1] \o Vp(m) /\ Vp(m) \in Seq(Class) /\ a[m - 1] \in Seq(Class)
        BY <1>1, <1>2, <1>5, <2>1 DEF IsConcat
    <2>3. d \in 1 .. Len(Vp(m))
        BY <1>8 DEF IsVp, ArityOf
    <2>4. /\ Len(a[m]) = Len(a[m - 1]) + Len(Vp(m))
          /\ d + Len(a[m - 1]) \in 1 .. Len(a[m])
          /\ a[m][d + Len(a[m - 1])] = Vp(m)[d]
        BY <2>2, <2>3
    <2>5. ParamOf(m, d) = d + Len(a[m - 1])
        BY <1>2, <1>4, <2>1
    <2> QED
        BY <2>1, <2>3, <2>4, <2>5
<1>9. ASSUME NEW m, NEW d, IsVp(m, d)
      PROVE  /\ ParamOf(m, d) \in 1 .. NumParams /\ host[ParamOf(m, d)] = Vp(m)[d]
             /\ d \in 1 .. NumParams
    <2>1. m \in 0 .. N /\ N \in m .. N
        BY <1>1, <1>8, <1>9
    <2>2. Len(a[m]) <= Len(a[N]) /\ \A i \in 1 .. Len(a[m]) : a[N][i] = a[m][i]
        BY <1>1, <1>2, <2>1, ParamsStay
    <2>3. Len(a[m]) \in Nat /\ Len(a[N]) = NumParams /\ NumParams \in Nat
        BY <1>3, <1>5, <1>6, <2>1
    <2>4. Len(a[m - 1]) \in Nat
        BY <1>5, <1>8, <1>9
    <2> QED
        BY <1>3, <1>8, <1>9, <2>2, <2>3, <2>4
<1>10. ASSUME NEW m, NEW d, NEW n, NEW e, IsVp(m, d), IsVp(n, e), m < n
       PROVE  ParamOf(m, d) < ParamOf(n, e)
    <2>1. m \in 0 .. N /\ n - 1 \in m .. N /\ n - 1 \in 0 .. N
        BY <1>1, <1>8, <1>10
    <2>2. Len(a[m]) <= Len(a[n - 1])
        BY <1>1, <1>2, <2>1, ParamsStay
    <2>3. ParamOf(m, d) \in 1 .. Len(a[m]) /\ ParamOf(n, e) = e + Len(a[n - 1]) /\ e \in Nat \ {0}
        BY <1>8, <1>10
    <2>4. Len(a[m]) \in Nat /\ Len(a[n - 1]) \in Nat
        BY <1>5, <2>1
    <2> QED
        BY <2>2, <2>3, <2>4
<1>11. ASSUME NEW m, NEW d, NEW n, NEW e, IsVp(m, d), IsVp(n, e),
              ParamOf(m, d) = ParamOf(n, e)
       PROVE  m = n /\ d = e
    <2>1. m \in 1 .. N /\ n \in 1 .. N /\ ParamOf(m, d) \in 1 .. NumParams
        BY <1>8, <1>9, <1>11
    <2>2. ~ (m < n) /\ ~ (n < m)
        BY <1>6, <1>10, <1>11, <2>1
    <2>3. m = n
        BY <1>1, <2>1, <2>2
    <2>4. d + Len(a[m - 1]) = e + Len(a[m - 1]) /\ d \in Nat /\ e \in Nat /\ Len(a[m - 1]) \in Nat
        BY <1>5, <1>8, <1>11, <2>3
    <2> QED
        BY <2>3, <2>4
<1> QED
    BY <1>6, <1>7, <1>9, <1>11 DEF N

\* The slot allocation is given a lattice it is right for.
LEMMA SlotsLattice ==
    ASSUME ProgramInv
    PROVE  /\ P!LatticeInv
           /\ program.collected = program.bases => P!IsComplete
<1>1. /\ program.bases \in Inheritances
      /\ program.collected \in [Class -> SUBSET Class]
      /\ \A c \in Class : /\ program.collected[c] \subseteq program.bases[c]
                          /\ DirectOf(program.bases)[c] \subseteq program.collected[c]
      /\ program.direct \in [Class -> SUBSET Class]
      /\ \A c \in Class : /\ DirectOf(program.collected)[c] \subseteq program.direct[c]
                          /\ program.direct[c] \subseteq program.collected[c]
    BY ProgramsAssumption DEF ProgramInv
<1> DEFINE B == program.bases
<1>2. B \in [Class -> SUBSET Class] /\ \A c \in Class : c \notin B[c]
    BY <1>1, InheritanceFacts
<1>3. \A c \in Class : B[c] = { b \in Class \ {c} : c \in derived[b] }
    BY <1>1, <1>2, DerivedFacts DEF ProgramInv
<1>4. P!Above = B
    BY <1>2, <1>3 DEF P!Above, P!Class, Class
<1>5. /\ directBases \in [Class -> SUBSET Class]
      /\ \A c \in Class : directBases[c] \subseteq bases[c]
    BY <1>1 DEF ProgramInv
<1>6. ASSUME NEW c \in Class, NEW b \in DirectOf(B)[c]
      PROVE  b \in directBases[c]
    <2>1. b \in bases[c] /\ \A d \in B[c] : b \notin B[d]
        BY <1>1, <1>6 DEF ProgramInv, DirectOf
    <2>2. \A d \in bases[c] : d \in B[c] /\ d \in Class /\ bases[d] \subseteq B[d]
        BY <1>1, <1>2 DEF ProgramInv
    <2>3. b \in DirectOf(program.collected)[c]
        BY <2>1, <2>2 DEF ProgramInv, DirectOf
    <2> QED
        BY <1>1, <2>3 DEF ProgramInv
<1>7. P!Param = 1 .. NumParams /\ P!Class = Class
    BY DEF P!Param, P!Class, Class
<1>8. /\ P!Inheritances = Inheritances
      /\ P!DerivedOf(B) = DerivedOf(B)
      /\ P!DirectOf(B) = DirectOf(B)
    BY DEF P!Inheritances, P!IsInheritance, P!DerivedOf, P!DirectOf, P!Class,
           Inheritances, IsInheritance, DerivedOf, DirectOf, Class
<1>9. derived = DerivedOf(B) /\ bases = program.collected
    BY DEF ProgramInv
<1> HIDE DEF B
<1>10. P!LatticeInv
    <2>1. \A c \in Class : bases[c] \subseteq B[c] /\ directBases[c] \subseteq B[c]
        BY <1>1, <1>5, <1>9 DEF B
    <2> QED
        BY <1>1, <1>4, <1>5, <1>6, <1>7, <1>8, <1>9, <2>1, ParamFacts DEF P!LatticeInv, B
<1>11. program.collected = program.bases => P!IsComplete
    BY <1>4, <1>9 DEF P!IsComplete, B
<1> QED
    BY <1>10, <1>11
-----------------------------------------------------------------------------
(* The slot allocation, by its own proofs *)

SlotsInv ==
    /\ ProgramInv
    /\ P!WalkInv
    /\ P!FitsInv

LEMMA StartSlots ==
    ASSUME ProgramInv, Slots!Start
    PROVE  SlotsInv
<1>1. P!Start
    BY DEF Slots!Start, P!Start, Slots!Class, P!Class, Slots!Param, P!Param,
           Slots!NoClass, P!NoClass, Slots!NotAssigned, P!NotAssigned
<1>2. NumParams \in Nat /\ P!LatticeInv
    BY ParamFacts, SlotsLattice
<1>3. P!WalkInv /\ P!FitsInv
    BY <1>1, <1>2, NumClassesAssumption, P!StartWalkInv
<1> QED
    BY <1>3 DEF SlotsInv

\* assign_slots is the same in the composition.
LEMMA SlotsStep ==
    ASSUME Slots!Step
    PROVE  P!Step
<1> USE DEF Slots!Class, P!Class, Slots!Param, P!Param, Slots!NoClass, P!NoClass,
            Slots!lattice, P!lattice, Slots!tables, P!tables
<1>1. CASE Slots!NextClass
    BY <1>1 DEF Slots!NextClass, P!NextClass, P!Step, Slots!InMultipleInheritance,
                P!InMultipleInheritance
<1>2. CASE Slots!EnterTreeClass
    BY <1>2 DEF Slots!EnterTreeClass, P!EnterTreeClass, P!Step, Slots!Call, P!Call,
                Slots!UsedByVp, P!UsedByVp
<1>3. CASE Slots!EnterLatticeClass
    BY <1>3 DEF Slots!EnterLatticeClass, P!EnterLatticeClass, P!Step, Slots!Call, P!Call,
                Slots!UsedByVp, P!UsedByVp
<1>4. CASE Slots!AllocateInTree
    BY <1>4 DEF Slots!AllocateInTree, P!AllocateInTree, P!Step
<1>5. CASE Slots!AllocateInLattice
    BY <1>5 DEF Slots!AllocateInLattice, P!AllocateInLattice, P!Step,
                Slots!IsFirstAvailable, P!IsFirstAvailable, Slots!Surroundings, P!Surroundings
<1>6. CASE Slots!LeaveClass
    BY <1>6 DEF Slots!LeaveClass, P!LeaveClass, P!Step, Slots!DirectDerived, P!DirectDerived
<1>7. CASE Slots!Return
    BY <1>7 DEF Slots!Return, P!Return, P!Step
<1>8. CASE Slots!AllocateVtables
    BY <1>8 DEF Slots!AllocateVtables, P!AllocateVtables, P!Step, Slots!TrimmedSize,
                P!TrimmedSize, Slots!LargestOf, P!LargestOf, Slots!SmallestOf, P!SmallestOf
<1> QED
    BY <1>1, <1>2, <1>3, <1>4, <1>5, <1>6, <1>7, <1>8 DEF Slots!Step

LEMMA SameProgram ==
    ASSUME ProgramInv, UNCHANGED inputs
    PROVE  ProgramInv'
BY DEF ProgramInv, inputs

LEMMA SlotsInvStep ==
    ASSUME SlotsInv, UNCHANGED program, Slots!Step \/ UNCHANGED <<inputs, slotVars>>
    PROVE  SlotsInv'
<1> USE DEF SlotsInv
<1>1. [P!Next]_P!vars
    BY SlotsStep DEF P!Next, P!vars, P!lattice, P!walk, P!tables, inputs, slotVars
<1>2. NumParams \in Nat
    BY ParamFacts
<1>3. P!WalkInv'
    BY <1>1, <1>2, NumClassesAssumption, P!WalkInvStep
<1>4. P!FitsInv'
    BY <1>1, <1>2, NumClassesAssumption, P!FitsStep
<1>5. UNCHANGED P!lattice
    BY <1>1, <1>2, NumClassesAssumption, P!LatticeStays
<1>6. ProgramInv'
    BY <1>5, SameProgram DEF P!lattice, inputs
<1> QED
    BY <1>3, <1>4, <1>6

\* What the proofs of the allocation say of the slots.
LEMMA SlotsFacts ==
    ASSUME SlotsInv
    PROVE  /\ Slots!TypeOK
           /\ Slots!SlotsInsideVtables
           /\ phase = "done" => \A p \in 1 .. NumParams : slots[p] \in Nat
           /\ program.collected = program.bases => Slots!NoSharedSlot
           /\ phase = "done" => ~ Slots!Step
<1> USE DEF SlotsInv
<1>1. NumParams \in Nat /\ (program.collected = program.bases => P!IsComplete)
    BY ParamFacts, SlotsLattice
<1>2. P!Inv /\ P!TableTypes /\ P!StoppedInv
    BY DEF P!WalkInv
<1>3. P!TypeOK
    BY <1>1, <1>2, NumClassesAssumption, P!TypesFollow
<1>4. Slots!TypeOK
    BY <1>3 DEF P!TypeOK, Slots!TypeOK, P!Class, Slots!Class, P!Param, Slots!Param,
                P!NoClass, Slots!NoClass, P!NotAssigned, Slots!NotAssigned
<1>5. /\ phase = "done" => \A p \in P!Param : P!Assigned(p)
      /\ P!SlotsInsideVtables
    BY <1>1, NumClassesAssumption, P!EndFacts
<1>6. Slots!SlotsInsideVtables
    BY <1>5 DEF P!SlotsInsideVtables, Slots!SlotsInsideVtables, P!Param, Slots!Param
<1>7. phase = "done" => \A p \in 1 .. NumParams : slots[p] \in Nat
    BY <1>3, <1>5 DEF P!TypeOK, P!Param, P!Assigned
<1>8. program.collected = program.bases => Slots!NoSharedSlot
    BY <1>1, <1>2 DEF P!Inv, P!NoSharedInv, P!NoSharedSlot, Slots!NoSharedSlot,
        P!Param, Slots!Param, P!Assigned, Slots!Assigned, P!NotAssigned, Slots!NotAssigned
<1>9. phase = "done" => ~ Slots!Step
    <2> SUFFICES ASSUME phase = "done", Slots!Step
                 PROVE  FALSE
        OBVIOUS
    <2>1. frames = <<>> /\ visiting = P!NoClass
        BY <1>2 DEF P!StoppedInv
    <2> QED
        BY <2>1 DEF P!NoClass, Slots!NoClass, Slots!Step, Slots!NextClass,
            Slots!EnterTreeClass, Slots!EnterLatticeClass, Slots!Call,
            Slots!AllocateInTree, Slots!AllocateInLattice, Slots!LeaveClass,
            Slots!Return, Slots!AllocateVtables
<1> QED
    BY <1>4, <1>6, <1>7, <1>8, <1>9
-----------------------------------------------------------------------------
(* Groups, cells and entries *)

LEMMA GroupFacts ==
    ASSUME ProgramInv, NEW m, NEW d, IsVp(m, d)
    PROVE  /\ Vp(m)[d] \in Class
           /\ Len(GroupsIn(m, d)) \in Nat \ {0}
           /\ \A c \in derived[Vp(m)[d]] :
                 GroupIndex(m, d, c) \in 0 .. (Len(GroupsIn(m, d)) - 1)
<1>1. Vp(m)[d] \in Class
    BY MethodFacts DEF IsVp, ArityOf
<1>2. program.methods[m] \in MethodInfo
    BY MethodFacts DEF IsVp
<1>3. Overriders(m) \in Seq(Seq(Class))
    BY <1>2 DEF Overriders, MethodInfo
<1>4. Len(Overriders(m)) \in Nat /\ DOMAIN Column(m, d) = 1 .. Len(Overriders(m))
    BY <1>3 DEF Column
<1> DEFINE gs == GroupsIn(m, d)
           masks == Masks(derived, Vp(m)[d], Column(m, d))
<1>5. IsGrouping(gs, masks)
    BY <1>4, GroupsAreMasks DEF GroupsIn
<1>6. \A c \in derived[Vp(m)[d]] : Mask(derived, Column(m, d), c) \in masks
    BY DEF Masks
<1>7. Vp(m)[d] \in derived[Vp(m)[d]]
    <2>1. program.bases \in Inheritances
        BY ProgramsAssumption DEF ProgramInv
    <2> QED
        BY <1>1, <2>1, DerivedFacts DEF ProgramInv
<1>8. \A c : GroupIndex(m, d, c) =
          (CHOOSE k \in DOMAIN gs : gs[k] = Mask(derived, Column(m, d), c)) - 1
    BY DEF GroupIndex
<1> HIDE DEF gs, masks
<1>9. gs \in Seq(masks) /\ Len(gs) \in Nat /\ DOMAIN gs = 1 .. Len(gs)
    <2>1. gs \in Seq(masks)
        BY <1>5 DEF IsGrouping
    <2> QED
        BY <2>1
<1>10. ASSUME NEW c \in derived[Vp(m)[d]]
       PROVE  GroupIndex(m, d, c) \in 0 .. (Len(gs) - 1) /\ Len(gs) # 0
    <2>1. \E k \in DOMAIN gs : gs[k] = Mask(derived, Column(m, d), c)
        BY <1>5, <1>6, <1>9 DEF IsGrouping
    <2> DEFINE k == CHOOSE k \in DOMAIN gs : gs[k] = Mask(derived, Column(m, d), c)
    <2>2. k \in DOMAIN gs /\ GroupIndex(m, d, c) = k - 1
        BY <1>8, <2>1
    <2> HIDE DEF k
    <2> QED
        BY <1>9, <2>2
<1> QED
    BY <1>1, <1>7, <1>9, <1>10 DEF gs

\* The strides of a method, that of the first dimension included, and the
\* places of some classes in the dimensions.
StridesOf(m) == [d \in 1 .. ArityOf(m) |-> Stride(Sizes(m), d)]
PlacesOf(m, v) == [d \in 1 .. ArityOf(m) |-> GroupIndex(m, d, v[d]) + 1]

LEMMA CellFacts ==
    ASSUME ProgramInv, NEW m \in Method
    PROVE  \E R : /\ IsLayout(R, StridesOf(m), Sizes(m), ArityOf(m))
                  /\ Cells(m) = R[ArityOf(m)]
                  /\ Cells(m) \in Nat
<1> DEFINE n == ArityOf(m)
<1>1. n \in Nat \ {0} /\ \A d \in 1 .. n : IsVp(m, d)
    BY MethodFacts DEF IsVp
<1>2. Sizes(m) \in [1 .. n -> Nat \ {0}]
    <2>1. \A d \in 1 .. n : Len(GroupsIn(m, d)) \in Nat \ {0}
        BY <1>1, GroupFacts
    <2> QED
        BY <2>1 DEF Sizes
<1>3. StridesOf(m) = [d \in 1 .. n |-> Stride(Sizes(m), d)] /\ Cells(m) = Stride(Sizes(m), n + 1)
    BY DEF StridesOf, Cells
<1> HIDE DEF n
<1>4. Sizes(m) \in [1 .. n -> Nat]
    BY <1>2
<1>5. PICK R : /\ IsProducts(R, Sizes(m), n)
               /\ \A d \in 1 .. (n + 1) : Stride(Sizes(m), d) = R[d - 1]
    BY <1>1, <1>4, StridesAreProducts
<1>6. n + 1 \in 1 .. (n + 1) /\ (n + 1) - 1 = n /\ n \in 0 .. n
    BY <1>1
<1>7. \A k \in 0 .. n : R[k] \in Nat
    BY <1>5 DEF IsProducts
<1>8. Cells(m) = R[n] /\ Cells(m) \in Nat
    BY <1>3, <1>5, <1>6, <1>7
<1>9. \A d \in 1 .. n : StridesOf(m)[d] = R[d - 1] /\ d - 1 \in 0 .. n
    BY <1>1, <1>3, <1>5
<1>10. StridesOf(m) \in [1 .. n -> Nat]
    BY <1>3, <1>7, <1>9
<1>11. \A k \in 0 .. (n - 1) : StridesOf(m)[k + 1] = R[k]
    <2> TAKE k \in 0 .. (n - 1)
    <2>1. k + 1 \in 1 .. n /\ (k + 1) - 1 = k
        BY <1>1
    <2> QED
        BY <1>9, <2>1
<1> QED
    BY <1>2, <1>5, <1>8, <1>10, <1>11 DEF IsLayout, n

\* What resolve adds up for arguments of classes v.
Adds(b, m, v) ==
    /\ b \in [0 .. ArityOf(m) -> Nat]
    /\ b[1] = 1 + GroupIndex(m, 1, v[1])
    /\ \A k \in 1 .. (ArityOf(m) - 1) :
          b[k + 1] = b[k] + GroupIndex(m, k + 1, v[k + 1]) * Stride(Sizes(m), k + 1)
    /\ b[ArityOf(m)] \in 1 .. Cells(m)
    /\ b[ArityOf(m)] = CellNumber(StridesOf(m), PlacesOf(m, v))

LEMMA CellOfCall ==
    ASSUME ProgramInv, NEW m \in Method, NEW v,
           \A d \in 1 .. ArityOf(m) : v[d] \in derived[Vp(m)[d]]
    PROVE  \E b : Adds(b, m, v)
<1> DEFINE n == ArityOf(m)
           ps == PlacesOf(m, v)
           ss == StridesOf(m)
<1>1. n \in Nat \ {0} /\ \A d \in 1 .. n : IsVp(m, d)
    BY MethodFacts DEF IsVp
<1>2. ASSUME NEW d \in 1 .. n
      PROVE  /\ ps[d] = GroupIndex(m, d, v[d]) + 1 /\ ps[d] \in Nat \ {0}
             /\ GroupIndex(m, d, v[d]) \in Nat /\ ps[d] - 1 = GroupIndex(m, d, v[d])
             /\ ps[d] <= Sizes(m)[d]
             /\ ss[d] = Stride(Sizes(m), d)
    <2>1. /\ GroupIndex(m, d, v[d]) \in 0 .. (Len(GroupsIn(m, d)) - 1)
          /\ Len(GroupsIn(m, d)) \in Nat
        BY <1>1, GroupFacts
    <2>2. Sizes(m)[d] = Len(GroupsIn(m, d)) /\ ss[d] = Stride(Sizes(m), d)
        BY DEF Sizes, StridesOf
    <2>3. ps[d] = GroupIndex(m, d, v[d]) + 1
        BY DEF PlacesOf
    <2> QED
        BY <2>1, <2>2, <2>3
<1>3. PICK R : IsLayout(R, ss, Sizes(m), n) /\ Cells(m) = R[n]
    BY CellFacts
<1>4. ps \in [1 .. n -> Nat \ {0}]
    <2>1. ps = [d \in 1 .. n |-> ps[d]]
        BY DEF PlacesOf
    <2> HIDE DEF ps, n
    <2> QED
        BY <1>2, <2>1
<1> HIDE DEF n, ps, ss
<1>5. ps \in Places(Sizes(m), n)
    BY <1>2, <1>4 DEF Places
<1>6. ss \in [1 .. n -> Nat]
    BY <1>3 DEF IsLayout
<1>7. PICK b : IsCount(b, ss, ps, n) /\ CellNumber(ss, ps) = b[n]
    BY <1>1, <1>4, <1>6, FoldOfCount
<1>8. \A k \in 0 .. n : b[k] \in 1 .. R[k]
    BY <1>1, <1>3, <1>5, <1>7, CountIsBounded
<1>9. n \in 0 .. n /\ 0 \in 0 .. (n - 1) /\ 1 \in 1 .. n /\ 0 + 1 = 1
    BY <1>1
<1>10. b[1] = 1 + GroupIndex(m, 1, v[1])
    <2>1. b[0] = 1 /\ b[1] = b[0] + (ps[1] - 1) * ss[1]
        BY <1>7, <1>9 DEF IsCount
    <2>2. ss[1] = 1
        BY <1>3, <1>9 DEF IsLayout, IsProducts
    <2> QED
        BY <1>2, <1>9, <2>1, <2>2
<1>11. ASSUME NEW k \in 1 .. (n - 1)
       PROVE  b[k + 1] = b[k] + GroupIndex(m, k + 1, v[k + 1]) * Stride(Sizes(m), k + 1)
    <2>1. k \in 0 .. (n - 1) /\ k + 1 \in 1 .. n
        BY <1>1
    <2>2. b[k + 1] = b[k] + (ps[k + 1] - 1) * ss[k + 1]
        BY <1>7, <2>1 DEF IsCount
    <2>3. /\ ps[k + 1] - 1 = GroupIndex(m, k + 1, v[k + 1])
          /\ ss[k + 1] = Stride(Sizes(m), k + 1)
        BY <1>2, <2>1
    <2> QED
        BY <2>2, <2>3
<1>12. b \in [0 .. n -> Nat] /\ b[n] \in 1 .. Cells(m)
    BY <1>3, <1>7, <1>8, <1>9 DEF IsCount
<1> QED
    BY <1>7, <1>10, <1>11, <1>12 DEF Adds, n, ps, ss

\* An entry is for some method's parameter, in a group of it.
LEMMA EntryFacts ==
    ASSUME ProgramInv, NumMethods # 0, NEW c, NEW s
    PROVE  /\ IsVp(EntryAt(c, s).m, EntryAt(c, s).d)
           /\ EntryAt(c, s).group \in Nat
<1> DEFINE IsLast(e) == \A y \in Entries(c, s) : ParamOf(y[1], y[2]) <= ParamOf(e[1], e[2])
           e == LastEntry(c, s)
<1>1. ASSUME NEW x \in Entries(c, s)
      PROVE  /\ IsVp(x[1], x[2]) /\ c \in derived[Vp(x[1])[x[2]]]
             /\ ParamOf(x[1], x[2]) \in 1 .. NumParams
    <2>1. x[1] \in Method /\ x[2] \in 1 .. Len(host) /\ x[2] <= ArityOf(x[1])
        BY DEF Entries
    <2>2. Len(host) \in Nat /\ ArityOf(x[1]) \in Nat
        BY <2>1, ParamFacts, MethodFacts
    <2>3. IsVp(x[1], x[2])
        BY <2>1, <2>2 DEF IsVp
    <2> QED
        BY <2>3, ParamFacts DEF Entries
<1>2. CASE Entries(c, s) = {}
    <2>1. EntryAt(c, s) = [m |-> 1, d |-> 1, group |-> 0]
        BY <1>2 DEF EntryAt
    <2>2. IsVp(1, 1)
        BY MethodFacts DEF IsVp
    <2> QED
        BY <2>1, <2>2
<1>3. CASE Entries(c, s) # {}
    <2>1. EntryAt(c, s) = [m |-> e[1], d |-> e[2], group |-> GroupIndex(e[1], e[2], c)]
        BY <1>3 DEF EntryAt
    <2> DEFINE T == { ParamOf(x[1], x[2]) : x \in Entries(c, s) }
    <2>2. T \in SUBSET (1 .. NumParams) /\ T # {} /\ NumParams \in Nat
        BY <1>1, <1>3, ParamFacts
    <2>3. Max(T) \in T /\ \A y \in T : y <= Max(T)
        <3> HIDE DEF T
        <3> QED
            BY <2>2, MaxOfNumbers
    <2>4. PICK x \in Entries(c, s) : Max(T) = ParamOf(x[1], x[2])
        BY <2>3
    <2>5. \A y \in Entries(c, s) : ParamOf(y[1], y[2]) \in T
        OBVIOUS
    <2>6. IsLast(x)
        <3> HIDE DEF T
        <3> QED
            BY <2>3, <2>4, <2>5
    <2>7. e \in Entries(c, s)
        BY <2>6 DEF LastEntry
    <2> HIDE DEF e, IsLast
    <2>8. IsVp(e[1], e[2]) /\ c \in derived[Vp(e[1])[e[2]]]
        BY <1>1, <2>7
    <2>9. GroupIndex(e[1], e[2], c) \in 0 .. (Len(GroupsIn(e[1], e[2])) - 1)
        BY <2>8, GroupFacts
    <2> QED
        BY <2>1, <2>8, <2>9
<1> QED
    BY <1>2, <1>3

\* Where no slot is shared, the entry for a parameter is that parameter's.
LEMMA OwnEntry ==
    ASSUME SlotsInv, phase = "done", program.collected = program.bases,
           NEW m, NEW d, IsVp(m, d), NEW c \in derived[Vp(m)[d]]
    PROVE  EntryAt(c, slots[ParamOf(m, d)]) =
               [m |-> m, d |-> d, group |-> GroupIndex(m, d, c)]
<1> USE DEF SlotsInv
<1> DEFINE s == slots[ParamOf(m, d)]
<1>1. <<m, d>> \in Entries(c, s)
    BY ParamFacts DEF Entries, IsVp
<1>2. ASSUME NEW x \in Entries(c, s)
      PROVE  x = <<m, d>>
    <2>1. /\ x = <<x[1], x[2]>> /\ x[1] \in Method /\ x[2] \in 1 .. Len(host)
          /\ x[2] <= ArityOf(x[1])
          /\ c \in derived[Vp(x[1])[x[2]]] /\ slots[ParamOf(x[1], x[2])] = s
        BY DEF Entries
    <2>2. Len(host) \in Nat /\ ArityOf(x[1]) \in Nat
        BY <2>1, ParamFacts, MethodFacts
    <2>3. IsVp(x[1], x[2])
        BY <2>1, <2>2 DEF IsVp
    <2> DEFINE p == ParamOf(m, d)
               q == ParamOf(x[1], x[2])
    <2>4. /\ p \in 1 .. NumParams /\ q \in 1 .. NumParams
          /\ c \in derived[host[p]] /\ c \in derived[host[q]]
        BY <2>1, <2>3, ParamFacts
    <2>5. slots[p] \in Nat /\ slots[q] \in Nat
        BY <2>4, SlotsFacts
    <2> HIDE DEF p, q
    <2>6. p = q
        <3>1. Slots!Assigned(p) /\ Slots!Assigned(q)
            BY <2>5 DEF Slots!Assigned, Slots!NotAssigned
        <3>2. slots[p] = slots[q]
            BY <2>1 DEF p, q
        <3> QED
            BY <2>4, <3>1, <3>2, SlotsFacts DEF Slots!NoSharedSlot, Slots!Param
    <2>7. x[1] = m /\ x[2] = d
        BY <2>3, <2>6, ParamFacts DEF p, q
    <2> QED
        BY <2>1, <2>7
<1> HIDE DEF s
<1>3. Entries(c, s) = {<<m, d>>}
    BY <1>1, <1>2
<1> DEFINE e == LastEntry(c, s)
<1>4. e = <<m, d>>
    <2>1. ParamOf(m, d) <= ParamOf(m, d)
        BY ParamFacts
    <2> QED
        BY <1>3, <2>1 DEF LastEntry
<1>5. EntryAt(c, s) = [m |-> e[1], d |-> e[2], group |-> GroupIndex(e[1], e[2], c)]
    BY <1>3 DEF EntryAt
<1> HIDE DEF e
<1> QED
    BY <1>4, <1>5 DEF s
-----------------------------------------------------------------------------
(* write_global_data *)

EntryIs(e, c, s) ==
    EntryAt(c, s) = IF Entries(c, s) = {} THEN [m |-> 1, d |-> 1, group |-> 0]
                    ELSE [m |-> e[1], d |-> e[2], group |-> GroupIndex(e[1], e[2], c)]

EntriesAre == \A e, c, s : e = LastEntry(c, s) => EntryIs(e, c, s)

LEMMA EntryOfTheLast == EntriesAre
BY DEF EntryAt, EntryIs, EntriesAre

\* What is made of the program and the slots does not change without them.
LEMMA SameOperators ==
    ASSUME UNCHANGED <<program, derived, host, slots>>
    PROVE  /\ NumMethods' = NumMethods /\ Method' = Method /\ Word' = Word
           /\ \A m : Params(m)' = Params(m) /\ Vp(m)' = Vp(m) /\ ArityOf(m)' = ArityOf(m)
           /\ \A m, d : ParamOf(m, d)' = ParamOf(m, d)
           /\ \A m, d, c : GroupIndex(m, d, c)' = GroupIndex(m, d, c)
           /\ \A m : Sizes(m)' = Sizes(m) /\ Cells(m)' = Cells(m)
           /\ \A c, s : EntryAt(c, s)' = EntryAt(c, s)
<1>1. NumMethods' = NumMethods /\ Method' = Method /\ Word' = Word
    BY DEF NumMethods, Method, Word
<1>2. \A m : Params(m)' = Params(m) /\ Vp(m)' = Vp(m) /\ ArityOf(m)' = ArityOf(m)
    BY DEF Params, Vp, ArityOf
<1>3. \A m, d : ParamOf(m, d)' = ParamOf(m, d)
    BY DEF ParamOf
<1>4. \A m, d : Column(m, d)' = Column(m, d)
    BY DEF Column, Overriders
<1>5. \A m, d : GroupsIn(m, d)' = GroupsIn(m, d)
    BY <1>2, <1>4 DEF GroupsIn
<1>6. \A m, d, c : GroupIndex(m, d, c)' = GroupIndex(m, d, c)
    BY <1>4, <1>5 DEF GroupIndex
<1>7. \A m : Sizes(m)' = Sizes(m)
    BY <1>2, <1>5 DEF Sizes
<1>8. \A m : Cells(m)' = Cells(m)
    BY <1>2, <1>7 DEF Cells
<1>9. \A c, s : Entries(c, s)' = Entries(c, s)
    BY <1>1, <1>2, <1>3 DEF Entries
<1>10. \A c, s : LastEntry(c, s)' = LastEntry(c, s)
    BY <1>3, <1>9 DEF LastEntry
<1>11. ASSUME NEW c, NEW s
       PROVE  EntryAt(c, s)' = EntryAt(c, s)
    <2>1. PICK e : e = LastEntry(c, s)
        OBVIOUS
    <2>2. e = LastEntry(c, s)'
        BY <1>10, <2>1
    <2>3. EntriesAre /\ EntriesAre'
        BY EntryOfTheLast, PTL
    <2>4. EntryIs(e, c, s) /\ EntryIs(e, c, s)'
        BY <2>1, <2>2, <2>3 DEF EntriesAre
    <2> QED
        BY <1>6, <1>9, <2>4 DEF EntryIs
<1> QED
    BY <1>1, <1>2, <1>3, <1>6, <1>7, <1>8, <1>11

WrittenInv ==
    /\ written \in 0 .. (NumMethods + NumClasses)
    /\ data \in Seq(Word)
    /\ slotsStrides \in [Method -> Seq(Nat)]
    /\ tableAt \in [Method -> Nat]
    /\ vptr \in [Class -> Int]
    /\ phase # "done" => written = 0

\* The methods that are done have their slots, their strides and their table.
TablesInv ==
    \A m \in Method : m <= written =>
        /\ \A d \in 1 .. ArityOf(m) : slotsStrides[m][d] = slots[ParamOf(m, d)]
        /\ \A d \in 1 .. (ArityOf(m) - 1) :
              slotsStrides[m][ArityOf(m) + d] = Stride(Sizes(m), d + 1)
        /\ ArityOf(m) > 1 => \A k \in 1 .. Cells(m) :
              /\ tableAt[m] + k - 1 \in DOMAIN data
              /\ data[tableAt[m] + k - 1] = Function(m, k)

\* The classes that are done have their v-table.
VtablesInv ==
    \A c \in Class : NumMethods + c <= written =>
        \A s \in firstSlot[c] .. (firstSlot[c] + vtblSize[c] - 1) :
            /\ vptr[c] + s \in DOMAIN data
            /\ data[vptr[c] + s] = WordOf(EntryAt(c, s))

LayoutInv ==
    /\ WrittenInv
    /\ TablesInv
    /\ VtablesInv

\* A class with a v-table is one that can be passed for some parameter.
LEMMA VtableFacts ==
    ASSUME SlotsInv, phase = "done", NEW c \in Class
    PROVE  /\ firstSlot[c] \in Nat /\ vtblSize[c] \in Nat
           /\ vtblSize[c] # 0 => NumMethods # 0
<1>1. firstSlot[c] \in Nat /\ vtblSize[c] \in Nat
    BY SlotsFacts DEF Slots!TypeOK, Slots!Class, Class
<1>2. ASSUME vtblSize[c] # 0
      PROVE  NumMethods # 0
    <2>1. P!Fits(c)
        BY DEF SlotsInv, P!FitsInv, P!Class, Class
    <2>2. PICK p \in P!Param : c \in derived[host[p]]
        BY <1>2, <2>1 DEF P!Fits, P!Uses
    <2>3. ProgramInv
        BY DEF SlotsInv
    <2>4. NumParams # 0
        BY <2>2, <2>3, ParamFacts DEF P!Param
    <2> QED
        BY <2>3, <2>4, ParamFacts
<1> QED
    BY <1>1, <1>2

\* A word is one of the three kinds.
LEMMA WordTypes ==
    ASSUME ProgramInv, tableAt \in [Method -> Nat]
    PROVE  /\ \A m \in Method : \A k \in Nat \ {0} : Function(m, k) \in Word
           /\ \A e : IsVp(e.m, e.d) /\ e.group \in Nat => WordOf(e) \in Word
<1>1. \A m \in Method : \A k \in Nat \ {0} : Function(m, k) \in Word
    BY DEF Function, Word
<1>2. \A a \in Nat : Pointer(a) \in Word /\ Index(a) \in Word
    BY DEF Pointer, Index, Word
<1>3. ASSUME NEW e, IsVp(e.m, e.d), e.group \in Nat
      PROVE  WordOf(e) \in Word
    <2>1. e.m \in Method /\ tableAt[e.m] + e.group \in Nat /\ e.group + 1 \in Nat \ {0}
        BY <1>3 DEF IsVp
    <2> QED
        BY <1>1, <1>2, <1>3, <2>1 DEF WordOf
<1> QED
    BY <1>1, <1>3

\* What is appended is found again, and what was there stays.
LEMMA Appended ==
    ASSUME NEW V, NEW s \in Seq(V), NEW n \in Nat, NEW t \in [1 .. n -> V]
    PROVE  /\ s \o t \in Seq(V) /\ Len(s \o t) = Len(s) + n
           /\ \A i \in DOMAIN s : i \in DOMAIN (s \o t) /\ (s \o t)[i] = s[i]
           /\ \A k \in 1 .. n : Len(s) + k \in DOMAIN (s \o t) /\ (s \o t)[Len(s) + k] = t[k]
<1>1. t \in Seq(V) /\ Len(t) = n
    OBVIOUS
<1>2. s \o t \in Seq(V) /\ Len(s \o t) = Len(s) + n /\ Len(s) \in Nat
    BY <1>1
<1>3. \A i \in DOMAIN s : i \in DOMAIN (s \o t) /\ (s \o t)[i] = s[i]
    BY <1>1, <1>2
<1>4. \A k \in 1 .. n : Len(s) + k \in DOMAIN (s \o t) /\ (s \o t)[Len(s) + k] = t[k]
    BY <1>1, <1>2
<1> QED
    BY <1>2, <1>3, <1>4

LEMMA WriteMethodLayout ==
    ASSUME SlotsInv, LayoutInv, WriteMethod
    PROVE  LayoutInv'
<1> USE DEF SlotsInv
<1> DEFINE m == written + 1
           n == ArityOf(m)
           mySlots == [d \in DOMAIN [d \in 1 .. n |-> d] |-> slots[ParamOf(m, d)]]
           strides == [d \in 1 .. (n - 1) |-> Stride(Sizes(m), d + 1)]
           table == [k \in 1 .. Cells(m) |-> Function(m, k)]
<1>1. /\ phase = "done" /\ written < NumMethods /\ written' = written + 1
      /\ slotsStrides' = [slotsStrides EXCEPT ![m] = mySlots \o strides]
      /\ IF n = 1 THEN UNCHANGED <<tableAt, data>>
         ELSE tableAt' = [tableAt EXCEPT ![m] = Len(data) + 1] /\ data' = data \o table
      /\ UNCHANGED <<inputs, slotVars, vptr, call>>
    BY Zenon DEF WriteMethod
<1>2. UNCHANGED <<program, derived, host, slots, phase, firstSlot, vtblSize, vptr>>
    BY <1>1 DEF inputs, slotVars
<1>3. /\ NumMethods' = NumMethods /\ Method' = Method /\ Word' = Word
      /\ \A x : ArityOf(x)' = ArityOf(x) /\ Sizes(x)' = Sizes(x) /\ Cells(x)' = Cells(x)
      /\ \A x, d : ParamOf(x, d)' = ParamOf(x, d)
    BY <1>2, SameOperators
<1>4. /\ NumMethods \in Nat /\ Method = 1 .. NumMethods /\ NumClasses \in Nat
      /\ written \in 0 .. (NumMethods + NumClasses)
    BY MethodFacts, NumClassesAssumption DEF LayoutInv, WrittenInv
<1>5. m \in Method /\ n \in Nat \ {0} /\ Cells(m) \in Nat /\ data \in Seq(Word)
    BY <1>1, <1>4, MethodFacts, CellFacts DEF LayoutInv, WrittenInv
<1>6. /\ \A d \in 1 .. n : slots[ParamOf(m, d)] \in Nat
      /\ \A d \in 1 .. (n - 1) : Stride(Sizes(m), d + 1) \in Nat
    <2>1. \A d \in 1 .. n : ParamOf(m, d) \in 1 .. NumParams
        BY <1>5, ParamFacts DEF IsVp
    <2>2. \A d \in 1 .. n : slots[ParamOf(m, d)] \in Nat
        BY <1>1, <2>1, SlotsFacts
    <2>3. PICK R : IsLayout(R, StridesOf(m), Sizes(m), n)
        BY <1>5, CellFacts
    <2>4. \A d \in 1 .. n : StridesOf(m)[d] \in Nat /\ StridesOf(m)[d] = Stride(Sizes(m), d)
        BY <2>3 DEF IsLayout, StridesOf
    <2>5. \A d \in 1 .. (n - 1) : d + 1 \in 1 .. n
        BY <1>5
    <2> QED
        BY <2>2, <2>4, <2>5
<1>7. mySlots \in [1 .. n -> Nat] /\ strides \in [1 .. (n - 1) -> Nat]
    BY <1>6
<1>8. /\ mySlots \o strides \in Seq(Nat)
      /\ \A d \in 1 .. n : (mySlots \o strides)[d] = slots[ParamOf(m, d)]
      /\ \A d \in 1 .. (n - 1) : (mySlots \o strides)[n + d] = Stride(Sizes(m), d + 1)
    <2>1. mySlots \in Seq(Nat) /\ Len(mySlots) = n /\ n - 1 \in Nat /\ DOMAIN mySlots = 1 .. n
        BY <1>5, <1>7
    <2>2. /\ \A d \in 1 .. n : mySlots[d] = slots[ParamOf(m, d)]
          /\ \A d \in 1 .. (n - 1) : strides[d] = Stride(Sizes(m), d + 1)
        OBVIOUS
    <2> DEFINE j == n - 1
    <2> HIDE DEF mySlots, strides, n, j
    <2>3. strides \in [1 .. j -> Nat] /\ j \in Nat
        BY <1>7, <2>1 DEF j
    <2>4. \A q \in Seq(Nat), k \in Nat : \A t \in [1 .. k -> Nat] :
              /\ q \o t \in Seq(Nat)
              /\ \A d \in DOMAIN q : (q \o t)[d] = q[d]
              /\ \A d \in 1 .. k : (q \o t)[Len(q) + d] = t[d]
        BY Appended
    <2>5. /\ mySlots \o strides \in Seq(Nat)
          /\ \A d \in DOMAIN mySlots : (mySlots \o strides)[d] = mySlots[d]
          /\ \A d \in 1 .. j : (mySlots \o strides)[Len(mySlots) + d] = strides[d]
        BY <2>1, <2>3, <2>4
    <2> QED
        BY <2>1, <2>2, <2>5 DEF j
<1>9. table \in [1 .. Cells(m) -> Word] /\ \A k \in 1 .. Cells(m) : table[k] = Function(m, k)
    <2>1. \A k \in 1 .. Cells(m) : k \in Nat \ {0}
        BY <1>5
    <2> QED
        BY <1>5, <2>1, WordTypes DEF LayoutInv, WrittenInv
<1> HIDE DEF m, n, mySlots, strides, table
<1>10. /\ data \o table \in Seq(Word) /\ Len(data) \in Nat
       /\ \A i \in DOMAIN data : i \in DOMAIN (data \o table) /\ (data \o table)[i] = data[i]
       /\ \A k \in 1 .. Cells(m) : /\ Len(data) + k \in DOMAIN (data \o table)
                                   /\ (data \o table)[Len(data) + k] = Function(m, k)
    BY <1>5, <1>9, Appended
<1>11. /\ data' \in Seq(Word)
       /\ \A i \in DOMAIN data : i \in DOMAIN data' /\ data'[i] = data[i]
    BY <1>1, <1>5, <1>10
<1>12. /\ tableAt' \in [Method -> Nat]
       /\ \A x \in Method : x # m => tableAt'[x] = tableAt[x]
       /\ n > 1 => tableAt'[m] = Len(data) + 1
    BY <1>1, <1>5, <1>10 DEF LayoutInv, WrittenInv
<1>13. /\ slotsStrides' \in [Method -> Seq(Nat)]
       /\ \A x \in Method : x # m => slotsStrides'[x] = slotsStrides[x]
       /\ slotsStrides'[m] = mySlots \o strides
    BY <1>1, <1>5, <1>8 DEF LayoutInv, WrittenInv
<1>14. WrittenInv'
    <2>1. written' \in 0 .. (NumMethods + NumClasses)
        BY <1>1, <1>4
    <2> QED
        BY <1>1, <1>2, <1>3, <1>11, <1>12, <1>13, <2>1 DEF LayoutInv, WrittenInv
<1>15. TablesInv'
    <2>1. ASSUME NEW x \in Method, x <= written'
          PROVE  /\ \A d \in 1 .. ArityOf(x) : slotsStrides'[x][d] = slots[ParamOf(x, d)]
                 /\ \A d \in 1 .. (ArityOf(x) - 1) :
                       slotsStrides'[x][ArityOf(x) + d] = Stride(Sizes(x), d + 1)
                 /\ ArityOf(x) > 1 => \A k \in 1 .. Cells(x) :
                       /\ tableAt'[x] + k - 1 \in DOMAIN data'
                       /\ data'[tableAt'[x] + k - 1] = Function(x, k)
        <3>1. CASE x = m
            <4>1. ASSUME n > 1, NEW k \in 1 .. Cells(m)
                  PROVE  /\ tableAt'[m] + k - 1 \in DOMAIN data'
                         /\ data'[tableAt'[m] + k - 1] = Function(m, k)
                <5>1. tableAt'[m] + k - 1 = Len(data) + k
                    BY <1>5, <1>10, <1>12, <4>1
                <5>2. data' = data \o table
                    BY <1>1, <4>1
                <5> QED
                    BY <1>10, <5>1, <5>2
            <4> QED
                BY <1>8, <1>13, <3>1, <4>1 DEF n
        <3>2. CASE x # m
            <4>1. x <= written
                BY <1>1, <1>4, <2>1, <3>2 DEF m
            <4> QED
                BY <1>11, <1>12, <1>13, <3>2, <4>1 DEF LayoutInv, TablesInv
        <3> QED
            BY <3>1, <3>2
    <2> QED
        BY <1>2, <1>3, <2>1 DEF TablesInv
<1>16. VtablesInv'
    <2>1. \A c \in Class : ~ (NumMethods + c <= written')
        BY <1>1, <1>4 DEF Class
    <2> QED
        BY <1>3, <2>1 DEF VtablesInv
<1> QED
    BY <1>14, <1>15, <1>16 DEF LayoutInv

LEMMA WriteClassLayout ==
    ASSUME SlotsInv, LayoutInv, WriteClass
    PROVE  LayoutInv'
<1> USE DEF SlotsInv
<1> DEFINE c == written + 1 - NumMethods
           v == VtableOf(c)
           f == firstSlot[c]
           n == vtblSize[c]
<1>1. /\ phase = "done" /\ NumMethods <= written /\ written < NumMethods + NumClasses
      /\ written' = written + 1
      /\ vptr' = [vptr EXCEPT ![c] = Len(data) + 1 - f] /\ data' = data \o v
      /\ UNCHANGED <<inputs, slotVars, slotsStrides, tableAt, call>>
    BY Zenon DEF WriteClass
<1>2. UNCHANGED <<program, derived, host, slots, phase, firstSlot, vtblSize, slotsStrides, tableAt>>
    BY <1>1 DEF inputs, slotVars
<1>3. /\ NumMethods' = NumMethods /\ Method' = Method /\ Word' = Word
      /\ \A x : ArityOf(x)' = ArityOf(x) /\ Sizes(x)' = Sizes(x) /\ Cells(x)' = Cells(x)
      /\ \A x, d : ParamOf(x, d)' = ParamOf(x, d)
      /\ \A x, s : EntryAt(x, s)' = EntryAt(x, s)
    BY <1>2, SameOperators
<1>4. /\ NumMethods \in Nat /\ Method = 1 .. NumMethods /\ NumClasses \in Nat
      /\ written \in 0 .. (NumMethods + NumClasses) /\ data \in Seq(Word)
      /\ tableAt \in [Method -> Nat]
    BY MethodFacts, NumClassesAssumption DEF LayoutInv, WrittenInv
<1>5. c \in Class
    BY <1>1, <1>4 DEF Class
<1> HIDE DEF c
<1>6. f \in Nat /\ n \in Nat /\ (n # 0 => NumMethods # 0)
    BY <1>1, <1>5, VtableFacts
<1>7. /\ v = [k \in 1 .. n |-> WordOf(EntryAt(c, f + k - 1))]
      /\ \A k \in 1 .. n : v[k] = WordOf(EntryAt(c, f + k - 1))
    BY DEF VtableOf
<1>8. \A k \in 1 .. n : WordOf(EntryAt(c, f + k - 1)) \in Word
    <2> TAKE k \in 1 .. n
    <2>1. NumMethods # 0
        BY <1>6
    <2>2. /\ IsVp(EntryAt(c, f + k - 1).m, EntryAt(c, f + k - 1).d)
          /\ EntryAt(c, f + k - 1).group \in Nat
        BY <2>1, EntryFacts
    <2> QED
        BY <1>4, <2>2, WordTypes
<1>9. v \in [1 .. n -> Word]
    BY <1>7, <1>8
<1> HIDE DEF v, f, n
<1>10. /\ data \o v \in Seq(Word) /\ Len(data) \in Nat
       /\ \A i \in DOMAIN data : i \in DOMAIN (data \o v) /\ (data \o v)[i] = data[i]
       /\ \A k \in 1 .. n : Len(data) + k \in DOMAIN (data \o v) /\ (data \o v)[Len(data) + k] = v[k]
    BY <1>4, <1>6, <1>9, Appended
<1>11. /\ data' \in Seq(Word)
       /\ \A i \in DOMAIN data : i \in DOMAIN data' /\ data'[i] = data[i]
    BY <1>1, <1>10
<1>12. /\ vptr' \in [Class -> Int] /\ vptr'[c] = Len(data) + 1 - f
       /\ \A x \in Class : x # c => vptr'[x] = vptr[x]
    <2>1. Len(data) + 1 - f \in Int
        BY <1>6, <1>10
    <2> QED
        BY <1>1, <1>5, <2>1 DEF LayoutInv, WrittenInv
<1>13. \A e : WordOf(e)' = WordOf(e)
    BY <1>2, <1>3 DEF WordOf
<1>14. WrittenInv'
    <2>1. written' \in 0 .. (NumMethods + NumClasses)
        BY <1>1, <1>4
    <2> QED
        BY <1>1, <1>2, <1>3, <1>11, <1>12, <2>1 DEF LayoutInv, WrittenInv
<1>15. TablesInv'
    <2>1. \A m \in Method : m <= written
        BY <1>1, <1>4
    <2>2. TablesInv
        BY DEF LayoutInv
    <2> QED
        BY <1>2, <1>3, <1>11, <2>1, <2>2 DEF TablesInv
<1>16. VtablesInv'
    <2>1. ASSUME NEW x \in Class, NumMethods + x <= written',
                 NEW s \in firstSlot[x] .. (firstSlot[x] + vtblSize[x] - 1)
          PROVE  vptr'[x] + s \in DOMAIN data' /\ data'[vptr'[x] + s] = WordOf(EntryAt(x, s))
        <3>1. CASE x = c
            <4> DEFINE k == s - f + 1
            <4>1. s \in f .. (f + n - 1)
                BY <2>1, <3>1 DEF f, n
            <4>2. k \in 1 .. n /\ vptr'[x] + s = Len(data) + k /\ f + k - 1 = s
                BY <1>6, <1>10, <1>12, <3>1, <4>1
            <4> HIDE DEF k
            <4> QED
                BY <1>1, <1>7, <1>10, <3>1, <4>2
        <3>2. CASE x # c
            <4>1. NumMethods + x <= written
                BY <1>1, <1>4, <2>1, <3>2 DEF c, Class
            <4>2. vptr[x] + s \in DOMAIN data /\ data[vptr[x] + s] = WordOf(EntryAt(x, s))
                BY <2>1, <4>1 DEF LayoutInv, VtablesInv
            <4> QED
                BY <1>11, <1>12, <3>2, <4>2
        <3> QED
            BY <3>1, <3>2
    <2>2. \A x \in Class : \A s : WordOf(EntryAt(x, s))' = WordOf(EntryAt(x, s))
        <3> SUFFICES ASSUME NEW x \in Class, NEW s
                     PROVE  WordOf(EntryAt(x, s))' = WordOf(EntryAt(x, s))
            OBVIOUS
        <3>1. PICK e : e = EntryAt(x, s)
            OBVIOUS
        <3>2. e = EntryAt(x, s)'
            BY <1>3, <3>1
        <3> QED
            BY <1>2, <1>3, <3>1, <3>2 DEF WordOf
    <2> QED
        BY <1>2, <1>3, <2>1, <2>2 DEF VtablesInv
<1> QED
    BY <1>14, <1>15, <1>16 DEF LayoutInv

LEMMA StartLayout ==
    ASSUME Init
    PROVE  SlotsInv /\ LayoutInv
<1>1. ProgramInv
    BY DEF Init, ProgramInv
<1>2. SlotsInv
    BY <1>1, StartSlots DEF Init
<1>3. /\ NumMethods \in Nat /\ Method = 1 .. NumMethods /\ NumClasses \in Nat
    BY <1>1, MethodFacts, NumClassesAssumption
<1>4. WrittenInv
    BY <1>3 DEF Init, WrittenInv
<1>5. TablesInv /\ VtablesInv
    BY <1>3 DEF Init, TablesInv, VtablesInv, Class
<1> QED
    BY <1>2, <1>4, <1>5 DEF LayoutInv

\* A step that leaves the layout alone.
LEMMA SameLayout ==
    ASSUME LayoutInv, UNCHANGED <<inputs, slotVars, written, outputs>>
    PROVE  LayoutInv'
<1>1. UNCHANGED <<program, derived, host, slots, phase, firstSlot, vtblSize,
                  written, data, slotsStrides, tableAt, vptr>>
    BY DEF inputs, slotVars, outputs
<1>2. /\ NumMethods' = NumMethods /\ Method' = Method /\ Word' = Word
      /\ \A x : ArityOf(x)' = ArityOf(x) /\ Sizes(x)' = Sizes(x) /\ Cells(x)' = Cells(x)
      /\ \A x, d : ParamOf(x, d)' = ParamOf(x, d)
      /\ \A x, s : EntryAt(x, s)' = EntryAt(x, s)
    BY <1>1, SameOperators
<1>3. \A x \in Class : \A s : WordOf(EntryAt(x, s))' = WordOf(EntryAt(x, s))
    <2> SUFFICES ASSUME NEW x \in Class, NEW s
                 PROVE  WordOf(EntryAt(x, s))' = WordOf(EntryAt(x, s))
        OBVIOUS
    <2>1. PICK e : e = EntryAt(x, s)
        OBVIOUS
    <2>2. e = EntryAt(x, s)'
        BY <1>2, <2>1
    <2> QED
        BY <1>1, <1>2, <2>1, <2>2 DEF WordOf
<1>4. WrittenInv' /\ TablesInv'
    BY <1>1, <1>2 DEF LayoutInv, WrittenInv, TablesInv
<1>5. VtablesInv'
    BY <1>1, <1>2, <1>3 DEF LayoutInv, VtablesInv
<1> QED
    BY <1>4, <1>5 DEF LayoutInv

\* While slots are being assigned nothing is written.
LEMMA AssignSlotsLayout ==
    ASSUME SlotsInv, LayoutInv, AssignSlots
    PROVE  LayoutInv'
<1>1. UNCHANGED <<program, written, outputs, call>> /\ Slots!Step
    BY DEF AssignSlots
<1>2. written = 0
    BY <1>1, SlotsFacts DEF LayoutInv, WrittenInv
<1>3. /\ NumMethods \in Nat /\ Method = 1 .. NumMethods /\ NumClasses \in Nat
    BY MethodFacts, NumClassesAssumption DEF SlotsInv
<1>4. /\ NumMethods' = NumMethods /\ Method' = Method /\ Word' = Word
    BY <1>1 DEF NumMethods, Method, Word
<1>5. WrittenInv'
    BY <1>1, <1>2, <1>3, <1>4 DEF LayoutInv, WrittenInv, outputs
<1>6. TablesInv' /\ VtablesInv'
    <2>1. \A m \in Method : ~ (m <= written')
        BY <1>1, <1>2, <1>3
    <2>2. \A c \in Class : ~ (NumMethods + c <= written')
        BY <1>1, <1>2, <1>3 DEF Class
    <2> QED
        BY <1>4, <2>1, <2>2 DEF TablesInv, VtablesInv
<1> QED
    BY <1>5, <1>6 DEF LayoutInv

\* A step of a call.
CallStep ==
    Call \/ SkipToFirst \/ ResolveUni \/ ResolveMultiFirst \/ ResolveMultiNext \/ Return

LEMMA CallStepChanges ==
    ASSUME CallStep
    PROVE  UNCHANGED <<inputs, slotVars, written, outputs>>
BY DEF CallStep, Call, SkipToFirst, ResolveUni, ResolveMultiFirst, ResolveMultiNext, Return

LEMMA LayoutInvStep ==
    ASSUME SlotsInv, LayoutInv, [Next]_vars
    PROVE  SlotsInv' /\ LayoutInv'
<1>1. CASE AssignSlots
    <2>1. SlotsInv'
        BY <1>1, SlotsInvStep DEF AssignSlots
    <2> QED
        BY <1>1, <2>1, AssignSlotsLayout
<1>2. CASE WriteMethod
    <2>1. SlotsInv'
        BY <1>2, SlotsInvStep DEF WriteMethod, inputs
    <2> QED
        BY <1>2, <2>1, WriteMethodLayout
<1>3. CASE WriteClass
    <2>1. SlotsInv'
        BY <1>3, SlotsInvStep DEF WriteClass, inputs
    <2> QED
        BY <1>3, <2>1, WriteClassLayout
<1>4. CASE CallStep \/ UNCHANGED vars
    <2>1. UNCHANGED <<inputs, slotVars, written, outputs>>
        BY <1>4, CallStepChanges DEF vars
    <2>2. SlotsInv'
        BY <2>1, SlotsInvStep DEF inputs
    <2> QED
        BY <2>1, <2>2, SameLayout
<1> QED
    BY <1>1, <1>2, <1>3, <1>4 DEF Next, CallStep

-----------------------------------------------------------------------------
(* The size of the vector *)

\* The sums std::accumulate goes through.
Running(base, sizes, n) ==
    CHOOSE a : IsSums(a, base, sizes, n) /\ Accumulate(base, sizes) = a[n]

LEMMA RunningFacts ==
    ASSUME NEW n \in Nat, NEW base \in Nat, NEW s \in [1 .. n -> Nat]
    PROVE  /\ IsSums(Running(base, s, n), base, s, n)
           /\ Accumulate(base, s) = Running(base, s, n)[n]
<1> DEFINE Is(a) == IsSums(a, base, s, n) /\ Accumulate(base, s) = a[n]
<1>1. PICK a : Is(a)
    BY AccumulateIsSum
<1>2. Running(base, s, n) = CHOOSE x : Is(x)
    BY DEF Running
<1>3. Is(Running(base, s, n))
    <2> HIDE DEF Is
    <2> QED
        BY <1>1, <1>2
<1> QED
    BY <1>3

\* Sums only grow.
LEMMA SumsGrow ==
    ASSUME NEW n \in Nat, NEW base, NEW s \in [1 .. n -> Nat], NEW a, IsSums(a, base, s, n),
           NEW j \in 0 .. n
    PROVE  a[j] <= a[n]
<1> DEFINE m == n - j
           S == { k \in 0 .. m : a[j] <= a[j + k] }
<1>1. m \in Nat /\ 0 \in 0 .. m /\ j + 0 = j /\ j + m = n /\ m \in 0 .. m
    OBVIOUS
<1>2. \A k \in 0 .. n : a[k] \in Nat
    BY DEF IsSums
<1>3. 0 \in S
    BY <1>1, <1>2
<1>4. ASSUME NEW k \in 0 .. (m - 1), k \in S
      PROVE  k + 1 \in S
    <2>1. /\ j + k \in 0 .. (n - 1) /\ (j + k) + 1 \in 0 .. n /\ j + (k + 1) = (j + k) + 1
          /\ (j + k) + 1 \in 1 .. n /\ k + 1 \in 0 .. m
        BY <1>1
    <2>2. a[(j + k) + 1] = a[j + k] + s[(j + k) + 1]
        BY <2>1 DEF IsSums
    <2>3. a[j] \in Nat /\ a[j + k] \in Nat /\ s[(j + k) + 1] \in Nat /\ a[j] <= a[j + k]
        BY <1>2, <1>4, <2>1
    <2>4. a[j] <= a[(j + k) + 1]
        BY <2>2, <2>3
    <2> QED
        BY <2>1, <2>4
<1>5. \A k \in 0 .. m : k \in S
    <2> HIDE DEF S, m
    <2> QED
        BY <1>1, <1>3, <1>4, Upward
<1> QED
    BY <1>1, <1>5

AllCells == [m \in Method |-> Cells(m)]
TableSums == Running(0, AllCells, NumMethods)
VtableSums == Running(TableSums[NumMethods], vtblSize, NumClasses)

\* The vector holds at most the tables and the v-tables that are done.
SizeInv ==
    /\ phase # "done" => data = <<>>
    /\ phase = "done" =>
          /\ written <= NumMethods => Len(data) <= TableSums[written]
          /\ NumMethods <= written => Len(data) <= VtableSums[written - NumMethods]

LEMMA SumFacts ==
    ASSUME SlotsInv
    PROVE  /\ NumMethods \in Nat /\ NumClasses \in Nat /\ Method = 1 .. NumMethods
           /\ AllCells \in [1 .. NumMethods -> Nat] /\ vtblSize \in [1 .. NumClasses -> Nat]
           /\ IsSums(TableSums, 0, AllCells, NumMethods)
           /\ IsSums(VtableSums, TableSums[NumMethods], vtblSize, NumClasses)
           /\ DispatchDataSize = VtableSums[NumClasses]
<1>1. NumMethods \in Nat /\ NumClasses \in Nat /\ Method = 1 .. NumMethods
    BY MethodFacts, NumClassesAssumption DEF SlotsInv
<1>2. \A m \in Method : Cells(m) \in Nat
    BY CellFacts DEF SlotsInv
<1>3. AllCells \in [1 .. NumMethods -> Nat]
    BY <1>1, <1>2 DEF AllCells
<1>4. vtblSize \in [1 .. NumClasses -> Nat]
    BY SlotsFacts DEF Slots!TypeOK, Slots!Class
<1>5. /\ IsSums(TableSums, 0, AllCells, NumMethods)
      /\ Accumulate(0, AllCells) = TableSums[NumMethods]
    BY <1>1, <1>3, RunningFacts DEF TableSums
<1>6. TableSums[NumMethods] \in Nat
    BY <1>1, <1>5 DEF IsSums
<1>7. /\ IsSums(VtableSums, TableSums[NumMethods], vtblSize, NumClasses)
      /\ Accumulate(TableSums[NumMethods], vtblSize) = VtableSums[NumClasses]
    BY <1>1, <1>4, <1>6, RunningFacts DEF VtableSums
<1> QED
    BY <1>1, <1>3, <1>4, <1>5, <1>7 DEF DispatchDataSize, AllCells

\* The same for the next state.
SumsAre ==
    SlotsInv => /\ NumMethods \in Nat /\ NumClasses \in Nat
                /\ IsSums(TableSums, 0, AllCells, NumMethods)
                /\ IsSums(VtableSums, TableSums[NumMethods], vtblSize, NumClasses)

LEMMA SumsAreRight == SumsAre
BY SumFacts DEF SumsAre

\* The sums are for the program and the v-tables there are.
LEMMA SameSums ==
    ASSUME UNCHANGED <<program, derived, host, slots, vtblSize>>
    PROVE  NumMethods' = NumMethods /\ TableSums' = TableSums /\ VtableSums' = VtableSums
<1>1. NumMethods' = NumMethods /\ Method' = Method /\ \A m : Cells(m)' = Cells(m)
    BY SameOperators
<1>2. AllCells' = AllCells
    BY <1>1 DEF AllCells
<1>3. TableSums' = TableSums
    BY <1>1, <1>2 DEF TableSums
<1> QED
    BY <1>1, <1>3 DEF VtableSums

LEMMA LongerBy ==
    ASSUME NEW U, NEW V, NEW s \in Seq(U), NEW n \in Nat, NEW t \in [1 .. n -> V]
    PROVE  Len(s \o t) = Len(s) + n
<1>1. s \in Seq(U \cup V) /\ t \in Seq(U \cup V) /\ Len(t) = n
    OBVIOUS
<1> QED
    BY <1>1

LEMMA SizeInvStep ==
    ASSUME SlotsInv, LayoutInv, SizeInv, [Next]_vars
    PROVE  SizeInv'
<1>1. /\ NumMethods \in Nat /\ NumClasses \in Nat /\ Method = 1 .. NumMethods
      /\ written \in 0 .. (NumMethods + NumClasses) /\ data \in Seq(Word) /\ Len(data) \in Nat
    BY SumFacts DEF LayoutInv, WrittenInv
<1>2. CASE AssignSlots
    <2>1. UNCHANGED <<program, written, outputs>> /\ phase # "done"
        BY <1>2, SlotsFacts DEF AssignSlots
    <2>2. written' = 0 /\ data' = <<>> /\ Len(data') = 0
        BY <2>1 DEF SizeInv, LayoutInv, WrittenInv, outputs
    <2>3. SlotsInv'
        BY <1>2, SlotsInvStep DEF AssignSlots
    <2>4. /\ NumMethods' \in Nat /\ NumClasses \in Nat
          /\ IsSums(TableSums', 0, AllCells', NumMethods')
          /\ IsSums(VtableSums', TableSums'[NumMethods'], vtblSize', NumClasses)
        <3>1. SumsAre'
            BY SumsAreRight, PTL
        <3> QED
            BY <2>3, <3>1 DEF SumsAre
    <2>5. 0 <= TableSums'[0] /\ (NumMethods' = 0 => 0 <= VtableSums'[0])
        BY <2>4 DEF IsSums
    <2> QED
        BY <2>2, <2>4, <2>5 DEF SizeInv
<1>3. CASE WriteMethod
    <2> DEFINE m == written + 1
    <2>1. /\ phase = "done" /\ written < NumMethods /\ written' = m
          /\ UNCHANGED <<inputs, slotVars>>
          /\ data' = data \/ data' = data \o [k \in 1 .. Cells(m) |-> Function(m, k)]
        BY <1>3, Zenon DEF WriteMethod
    <2>2. UNCHANGED <<program, derived, host, slots, vtblSize, phase>>
        BY <2>1 DEF inputs, slotVars
    <2>3. m \in Method /\ written \in 0 .. (NumMethods - 1)
        BY <1>1, <2>1
    <2>4. Cells(m) \in Nat /\ AllCells[m] = Cells(m)
        BY <2>3, CellFacts DEF SlotsInv, AllCells
    <2>5. Len(data') <= Len(data) + Cells(m) /\ Len(data') \in Nat
        <3> DEFINE table == [k \in 1 .. Cells(m) |-> Function(m, k)]
        <3>1. table \in Seq({ Function(m, k) : k \in 1 .. Cells(m) }) /\ Len(table) = Cells(m)
            BY <2>4
        <3> HIDE DEF table
        <3>2. Len(data \o table) = Len(data) + Cells(m)
            BY <1>1, <3>1
        <3> QED
            BY <1>1, <2>1, <2>4, <3>2 DEF table
    <2>6. /\ TableSums[m] = TableSums[written] + Cells(m)
          /\ TableSums[m] \in Nat /\ TableSums[written] \in Nat
        BY <1>1, <2>3, <2>4, SumFacts DEF IsSums
    <2>7. Len(data') <= TableSums[m]
        BY <1>1, <2>1, <2>4, <2>5, <2>6 DEF SizeInv
    <2>8. NumMethods <= m => m = NumMethods /\ VtableSums[m - NumMethods] = TableSums[m]
        BY <1>1, <2>3, SumFacts DEF IsSums
    <2> QED
        BY <2>1, <2>2, <2>7, <2>8, SameSums DEF SizeInv
<1>4. CASE WriteClass
    <2> DEFINE i == written - NumMethods
               c == written + 1 - NumMethods
    <2>1. /\ phase = "done" /\ NumMethods <= written /\ written < NumMethods + NumClasses
          /\ written' = written + 1 /\ UNCHANGED <<inputs, slotVars>>
          /\ data' = data \o VtableOf(c)
        BY <1>4, Zenon DEF WriteClass
    <2>2. UNCHANGED <<program, derived, host, slots, vtblSize, phase>>
        BY <2>1 DEF inputs, slotVars
    <2>3. i \in 0 .. (NumClasses - 1) /\ c = i + 1 /\ c \in 1 .. NumClasses
          /\ written' - NumMethods = c
        BY <1>1, <2>1
    <2>4. vtblSize[c] \in Nat
        BY <2>3, SumFacts
    <2>5. Len(data') = Len(data) + vtblSize[c]
        <3> DEFINE w(k) == WordOf(EntryAt(c, firstSlot[c] + k - 1))
                   v == [k \in 1 .. vtblSize[c] |-> w(k)]
        <3>1. VtableOf(c) = v
            BY DEF VtableOf
        <3> HIDE DEF w
        <3> DEFINE n == vtblSize[c]
        <3> HIDE DEF v, n
        <3>2. v \in [1 .. n -> { w(k) : k \in 1 .. n }] /\ n \in Nat
            BY <2>4 DEF v, n
        <3>3. PICK V : v \in [1 .. n -> V]
            BY <3>2
        <3>4. \A s \in Seq(Word), k \in Nat : \A t \in [1 .. k -> V] :
                  Len(s \o t) = Len(s) + k
            BY LongerBy
        <3>5. Len(data \o v) = Len(data) + n
            BY <1>1, <3>2, <3>3, <3>4
        <3> QED
            BY <2>1, <3>1, <3>5 DEF n
    <2>6. /\ VtableSums[c] = VtableSums[i] + vtblSize[c]
          /\ VtableSums[c] \in Nat /\ VtableSums[i] \in Nat
        BY <1>1, <2>3, SumFacts DEF IsSums
    <2>7. Len(data') <= VtableSums[c]
        BY <1>1, <2>1, <2>4, <2>5, <2>6 DEF SizeInv
    <2>8. ~ (written' <= NumMethods)
        BY <1>1, <2>1
    <2> HIDE DEF i, c
    <2> QED
        BY <2>2, <2>3, <2>7, <2>8, SameSums, <2>1 DEF SizeInv
<1>5. CASE CallStep \/ UNCHANGED vars
    <2>1. UNCHANGED <<inputs, slotVars, written, outputs>>
        BY <1>5, CallStepChanges DEF vars
    <2>2. UNCHANGED <<program, derived, host, slots, vtblSize, phase, written, data>>
        BY <2>1 DEF inputs, slotVars, outputs
    <2> QED
        BY <2>2, SameSums DEF SizeInv
<1> QED
    BY <1>2, <1>3, <1>4, <1>5 DEF Next, CallStep

\* The vector is never longer than the sum of what it is for.
LEMMA SizeBound ==
    ASSUME SlotsInv, LayoutInv, SizeInv
    PROVE  FitsInDispatchData
<1>1. /\ NumMethods \in Nat /\ NumClasses \in Nat
      /\ written \in 0 .. (NumMethods + NumClasses) /\ data \in Seq(Word) /\ Len(data) \in Nat
    BY SumFacts DEF LayoutInv, WrittenInv
<1>2. \A k \in 0 .. NumMethods : /\ TableSums[k] \in Nat
                                 /\ TableSums[k] <= TableSums[NumMethods]
    BY SumFacts, SumsGrow DEF IsSums
<1>3. \A k \in 0 .. NumClasses : /\ VtableSums[k] \in Nat
                                 /\ VtableSums[k] <= VtableSums[NumClasses]
    BY SumFacts, SumsGrow DEF IsSums
<1>4. VtableSums[0] = TableSums[NumMethods]
    BY SumFacts DEF IsSums
<1>5. CASE phase # "done"
    BY <1>1, <1>3, <1>5, SumFacts DEF SizeInv, FitsInDispatchData
<1>6. CASE phase = "done" /\ written <= NumMethods
    <2>1. written \in 0 .. NumMethods /\ 0 \in 0 .. NumClasses
        BY <1>1, <1>6
    <2>2. Len(data) <= TableSums[written]
        BY <1>6 DEF SizeInv
    <2>3. /\ TableSums[written] <= TableSums[NumMethods] /\ TableSums[written] \in Nat
          /\ VtableSums[0] <= VtableSums[NumClasses] /\ VtableSums[0] \in Nat
        BY <1>2, <1>3, <2>1
    <2>4. VtableSums[NumClasses] \in Nat
        BY <1>1, <1>3
    <2> QED
        BY <1>1, <1>4, <2>2, <2>3, <2>4, SumFacts DEF FitsInDispatchData
<1>7. CASE phase = "done" /\ ~ (written <= NumMethods)
    <2> DEFINE i == written - NumMethods
    <2>1. i \in 0 .. NumClasses /\ NumMethods <= written
        BY <1>1, <1>7
    <2>2. Len(data) <= VtableSums[i]
        BY <1>7, <2>1 DEF SizeInv
    <2>3. VtableSums[i] <= VtableSums[NumClasses] /\ VtableSums[i] \in Nat
        BY <1>3, <2>1
    <2>4. VtableSums[NumClasses] \in Nat
        BY <1>1, <1>3
    <2> HIDE DEF i
    <2> QED
        BY <1>1, <2>2, <2>3, <2>4, SumFacts DEF FitsInDispatchData
<1> QED
    BY <1>5, <1>6, <1>7

-----------------------------------------------------------------------------
(* method::resolve *)

\* Arguments the method can be called with.
ArgsFor(m, args) ==
    /\ args \in [DOMAIN Params(m) -> Class \cup {NoClass}]
    /\ \A i \in DOMAIN Params(m) :
          IF Params(m)[i] = NoClass THEN args[i] = NoClass
          ELSE args[i] \in derived[Params(m)[i]]

\* The first virtual parameter is in position p.
IsFirst(m, p) ==
    /\ p \in DOMAIN Params(m) /\ Params(m)[p] # NoClass
    /\ \A i \in 1 .. (p - 1) : Params(m)[i] = NoClass

\* What ContiguousCallsGetTheirCell is restricted to.
IsRegular(m) == IsContiguous(Params(m)) /\ program.collected = program.bases

\* A call in its first, its next or its last step.
CallOK(c) ==
    /\ Ready
    /\ c = [method |-> c.method, args |-> c.args, pos |-> c.pos,
            virtualArg |-> c.virtualArg, dispatch |-> c.dispatch, step |-> c.step,
            result |-> c.result]
    /\ c.method \in Method
    /\ ArgsFor(c.method, c.args)
    /\ c.pos \in DOMAIN Params(c.method)
    /\ c.step \in {"first", "next", "resolved"}
    /\ c.step = "first" => \A i \in 1 .. (c.pos - 1) : Params(c.method)[i] = NoClass
    /\ c.step = "next" =>
          /\ c.virtualArg \in 1 .. (ArityOf(c.method) - 1)
          /\ IsFirst(c.method, c.pos - c.virtualArg)
          /\ IsRegular(c.method) =>
                \E b : /\ Adds(b, c.method, VirtualIn(c.args))
                       /\ c.dispatch = tableAt[c.method] - 1 + b[c.virtualArg]
    /\ c.step = "resolved" /\ IsRegular(c.method) =>
          c.result = Function(c.method, CellFor(c.method, c.args))

CallInv == \A c : c = call => c = NoCall \/ CallOK(c)

\* The program does not change under a call.
LEMMA SameCall ==
    ASSUME UNCHANGED <<inputs, slotVars, written, outputs>>, NEW c
    PROVE  CallOK(c)' <=> CallOK(c)
<1>1. UNCHANGED <<program, derived, host, slots, written, tableAt>>
    BY DEF inputs, slotVars, outputs
<1>2. /\ NumMethods' = NumMethods /\ Method' = Method
      /\ \A m : Params(m)' = Params(m) /\ ArityOf(m)' = ArityOf(m)
      /\ \A m, d, x : GroupIndex(m, d, x)' = GroupIndex(m, d, x)
      /\ \A m : Sizes(m)' = Sizes(m) /\ Cells(m)' = Cells(m)
    BY <1>1, SameOperators
<1>3. Ready' <=> Ready
    BY <1>1, <1>2 DEF Ready
<1>4. \A m, args : ArgsFor(m, args)' <=> ArgsFor(m, args)
    BY <1>1, <1>2 DEF ArgsFor
<1>5. \A m, p : IsFirst(m, p)' <=> IsFirst(m, p)
    BY <1>2 DEF IsFirst
<1>6. \A m : IsRegular(m)' <=> IsRegular(m)
    BY <1>1, <1>2 DEF IsRegular
<1>7. \A m, v : StridesOf(m)' = StridesOf(m) /\ PlacesOf(m, v)' = PlacesOf(m, v)
    BY <1>2 DEF StridesOf, PlacesOf
<1>8. \A b, m, v : Adds(b, m, v)' <=> Adds(b, m, v)
    BY <1>2, <1>7 DEF Adds
<1>9. \A m, args : CellFor(m, args)' = CellFor(m, args)
    BY <1>2 DEF CellFor
<1>10. c.step = "first" =>
          ((\A i \in 1 .. (c.pos - 1) : Params(c.method)[i] = NoClass)' <=>
           (\A i \in 1 .. (c.pos - 1) : Params(c.method)[i] = NoClass))
    BY <1>2
<1> QED
    BY <1>1, <1>2, <1>3, <1>4, <1>5, <1>6, <1>8, <1>9, <1>10 DEF CallOK

\* Once there is something to call, the slots are assigned.
LEMMA ReadyFacts ==
    ASSUME SlotsInv, LayoutInv, Ready, NEW m \in Method
    PROVE  /\ phase = "done" /\ m <= written
           /\ \A c \in Class : NumMethods + c <= written
<1>1. /\ NumMethods \in Nat /\ Method = 1 .. NumMethods /\ NumClasses \in Nat
    BY MethodFacts, NumClassesAssumption DEF SlotsInv
<1>2. written = NumMethods + NumClasses /\ written # 0
    BY <1>1 DEF Ready
<1>3. phase = "done"
    BY <1>2 DEF LayoutInv, WrittenInv
<1> QED
    BY <1>1, <1>2, <1>3 DEF Class

\* The word in the v-table of class c in the slot of parameter d of method m.
LEMMA LookupFacts ==
    ASSUME SlotsInv, LayoutInv, Ready, program.collected = program.bases,
           NEW m, NEW d, IsVp(m, d), NEW c \in derived[Vp(m)[d]]
    PROVE  WordAt(vptr[c] + slotsStrides[m][d]) =
               WordOf([m |-> m, d |-> d, group |-> GroupIndex(m, d, c)])
<1>1. m \in Method /\ d \in 1 .. ArityOf(m) /\ ProgramInv
    BY DEF IsVp, SlotsInv
<1>2. phase = "done" /\ m <= written /\ \A x \in Class : NumMethods + x <= written
    BY <1>1, ReadyFacts
<1> DEFINE p == ParamOf(m, d)
           s == slots[p]
<1>3. p \in 1 .. NumParams /\ host[p] = Vp(m)[d]
    BY <1>1, ParamFacts
<1>4. slotsStrides[m][d] = s
    BY <1>1, <1>2 DEF LayoutInv, TablesInv
<1>5. s \in Nat /\ host[p] \in Class /\ derived[host[p]] \subseteq Class
    BY <1>2, <1>3, SlotsFacts DEF Slots!TypeOK, Slots!Class, Slots!Param, Class
<1>6. c \in Class
    BY <1>3, <1>5
<1>7. firstSlot[c] <= s /\ s < firstSlot[c] + vtblSize[c]
    BY <1>2, <1>3, SlotsFacts DEF Slots!SlotsInsideVtables, Slots!Param
<1>8. firstSlot[c] \in Nat /\ vtblSize[c] \in Nat
    BY <1>2, <1>6, VtableFacts
<1>9. EntryAt(c, s) = [m |-> m, d |-> d, group |-> GroupIndex(m, d, c)]
    BY <1>2, OwnEntry
<1> HIDE DEF p, s
<1>10. s \in firstSlot[c] .. (firstSlot[c] + vtblSize[c] - 1)
    BY <1>5, <1>7, <1>8
<1>11. vptr[c] + s \in DOMAIN data /\ data[vptr[c] + s] = WordOf(EntryAt(c, s))
    BY <1>2, <1>6, <1>10 DEF LayoutInv, VtablesInv
<1> QED
    BY <1>4, <1>9, <1>11 DEF WordAt

\* The virtual arguments, and where the positions of the parameters have them.
LEMMA ArgFacts ==
    ASSUME ProgramInv, NEW m \in Method, NEW args, ArgsFor(m, args)
    PROVE  \E g :
              /\ Picks(g, Params(m), Vp(m), Len(Params(m)))
              /\ \A d \in 1 .. ArityOf(m) : /\ VirtualIn(args)[d] \in derived[Vp(m)[d]]
                                            /\ VirtualIn(args)[d] = args[g[d]]
<1> DEFINE n == Len(Params(m))
           s == Params(m)
<1>1. NoClass \notin Class /\ s \in Seq(Class \cup {NoClass})
    BY MethodFacts
<1>2. n \in Nat /\ s \in [1 .. n -> Class \cup {NoClass}] /\ DOMAIN s = 1 .. n
    BY <1>1
<1>3. args \in [1 .. n -> Class \cup {NoClass}]
    BY <1>2 DEF ArgsFor
<1>4. ASSUME NEW i \in 1 .. n, s[i] # NoClass
      PROVE  args[i] \in derived[s[i]] /\ args[i] # NoClass
    <2>1. s[i] \in Class /\ args[i] \in derived[s[i]]
        BY <1>2, <1>4 DEF ArgsFor
    <2>2. derived[s[i]] \subseteq Class
        BY <2>1 DEF ProgramInv, DerivedOf
    <2> QED
        BY <1>1, <2>1, <2>2
<1>5. \A i \in 1 .. n : s[i] = NoClass <=> args[i] = NoClass
    BY <1>2, <1>4 DEF ArgsFor
<1> HIDE DEF n, s
<1>6. PICK g : Picks(g, s, VirtualIn(s), n) /\ Picks(g, args, VirtualIn(args), n)
    BY <1>1, <1>2, <1>3, <1>5, VirtualOnes
<1>7. Len(VirtualIn(args)) = Len(VirtualIn(s))
    BY <1>1, <1>2, <1>3, <1>5, VirtualOnes
<1>8. VirtualIn(s) = Vp(m) /\ ArityOf(m) = Len(VirtualIn(s))
    BY DEF s, Vp, ArityOf
<1>9. ASSUME NEW d \in 1 .. ArityOf(m)
      PROVE  VirtualIn(args)[d] \in derived[Vp(m)[d]] /\ VirtualIn(args)[d] = args[g[d]]
    <2>1. g[d] \in 1 .. n /\ Vp(m)[d] = s[g[d]] /\ s[g[d]] # NoClass
        BY <1>6, <1>8 DEF Picks
    <2>2. VirtualIn(args)[d] = args[g[d]]
        BY <1>6, <1>7, <1>8 DEF Picks
    <2> QED
        BY <1>4, <2>1, <2>2
<1> QED
    BY <1>6, <1>8, <1>9 DEF n, s

\* The first virtual parameter is the one picked first, and there is one.
LEMMA FirstFacts ==
    ASSUME ProgramInv, NEW m \in Method, NEW g, Picks(g, Params(m), Vp(m), Len(Params(m)))
    PROVE  /\ IsFirst(m, g[1])
           /\ \A p : IsFirst(m, p) => p = g[1]
           /\ \A p \in DOMAIN Params(m) :
                 (\A i \in 1 .. (p - 1) : Params(m)[i] = NoClass) => p <= g[1]
           /\ \A i \in 1 .. ArityOf(m) : g[i] \in DOMAIN Params(m) /\ g[i] >= g[1] + i - 1
           /\ IsContiguous(Params(m)) => \A i \in 1 .. ArityOf(m) : g[i] = g[1] + i - 1
<1> DEFINE n == Len(Params(m))
           s == Params(m)
<1>1. /\ s \in Seq(Class \cup {NoClass}) /\ Vp(m) \in Seq(Class)
      /\ ArityOf(m) \in Nat \ {0} /\ ArityOf(m) = Len(Vp(m))
    BY MethodFacts DEF ArityOf
<1>2. n \in Nat /\ DOMAIN s = 1 .. n
    BY <1>1
<1> HIDE DEF n, s
<1>3. /\ \A i \in 1 .. ArityOf(m) : g[i] \in 1 .. n /\ s[g[i]] # NoClass
      /\ \A i, j \in 1 .. ArityOf(m) : i < j => g[i] < g[j]
      /\ \A p \in 1 .. n : s[p] # NoClass => \E i \in 1 .. ArityOf(m) : g[i] = p
    BY <1>1 DEF Picks, n, s
<1>4. 1 \in 1 .. ArityOf(m) /\ g[1] \in 1 .. n /\ s[g[1]] # NoClass
    BY <1>1, <1>3
<1>5. ASSUME NEW p \in 1 .. n, s[p] # NoClass
      PROVE  g[1] <= p
    <2>1. PICK i \in 1 .. ArityOf(m) : g[i] = p
        BY <1>3, <1>5
    <2>2. CASE i = 1
        BY <1>4, <2>1, <2>2
    <2>3. CASE i # 1
        <3>1. 1 < i
            BY <1>1, <2>3
        <3> QED
            BY <1>3, <1>4, <2>1, <3>1
    <2> QED
        BY <2>2, <2>3
<1>6. \A i \in 1 .. (g[1] - 1) : s[i] = NoClass
    <2> SUFFICES ASSUME NEW i \in 1 .. (g[1] - 1), s[i] # NoClass
                 PROVE  FALSE
        OBVIOUS
    <2>1. i \in 1 .. n
        BY <1>2, <1>4
    <2>2. g[1] <= i
        BY <1>5, <2>1
    <2> QED
        BY <1>4, <2>1, <2>2
<1>7. ASSUME NEW p \in 1 .. n, \A i \in 1 .. (p - 1) : s[i] = NoClass
      PROVE  p <= g[1]
    <2>1. ~ (g[1] \in 1 .. (p - 1))
        BY <1>4, <1>7
    <2> QED
        BY <1>2, <1>4, <2>1
<1>8. IsFirst(m, g[1])
    BY <1>2, <1>4, <1>6 DEF IsFirst, s
<1>9. ASSUME NEW p, IsFirst(m, p)
      PROVE  p = g[1]
    <2>1. p \in 1 .. n /\ s[p] # NoClass /\ \A i \in 1 .. (p - 1) : s[i] = NoClass
        BY <1>2, <1>9 DEF IsFirst, s
    <2>2. p <= g[1] /\ g[1] <= p
        BY <1>5, <1>7, <2>1
    <2> QED
        BY <1>4, <2>1, <2>2
<1>10. \A i \in 1 .. ArityOf(m) : g[i] >= g[1] + i - 1
    BY <1>1, <1>2, PicksAreApart DEF n, s
<1>11. IsContiguous(s) => \A i \in 1 .. ArityOf(m) : g[i] = g[1] + i - 1
    BY <1>1, <1>2, ContiguousPicks DEF n, s
<1> QED
    BY <1>2, <1>3, <1>7, <1>8, <1>9, <1>10, <1>11 DEF s

\* What CallInv says of the call under way.
LEMMA UnderWay ==
    ASSUME SlotsInv, CallInv, call # NoCall
    PROVE  CallOK(call) /\ call.method \in Method /\ ArgsFor(call.method, call.args) /\ Ready
BY DEF CallInv, CallOK

LEMMA CallStarts ==
    ASSUME SlotsInv, LayoutInv, Call, NEW c, c = call'
    PROVE  CallOK(c)
<1>1. PICK m, args :
          /\ m \in Method
          /\ args \in [DOMAIN Params(m) -> Class \cup {NoClass}]
          /\ \A i \in DOMAIN args : IF Params(m)[i] = NoClass THEN args[i] = NoClass
                                    ELSE args[i] \in derived[Params(m)[i]]
          /\ call' = [method |-> m, args |-> args, pos |-> 1, virtualArg |-> 0,
                      dispatch |-> 0, step |-> "first", result |-> Garbage]
    BY DEF Call
<1>2. Ready /\ ArgsFor(m, args)
    BY <1>1 DEF Call, ArgsFor
<1>3. 1 \in DOMAIN Params(m)
    <2>1. PICK g : Picks(g, Params(m), Vp(m), Len(Params(m)))
        BY <1>1, <1>2, ArgFacts DEF SlotsInv
    <2>2. g[1] \in DOMAIN Params(m) /\ Params(m) \in Seq(Class \cup {NoClass})
        BY <1>1, <2>1, FirstFacts, MethodFacts DEF SlotsInv, IsFirst
    <2> QED
        BY <2>2
<1> QED
    BY <1>1, <1>2, <1>3 DEF CallOK

LEMMA CallSkips ==
    ASSUME SlotsInv, LayoutInv, CallInv, SkipToFirst, NEW c, c = call'
    PROVE  CallOK(c)
<1>1. /\ call # NoCall /\ call.step = "first" /\ Params(call.method)[call.pos] = NoClass
      /\ call' = [call EXCEPT !.pos = @ + 1]
    BY DEF SkipToFirst, InCall, IsVirtual
<1>2. PICK o : o = call
    OBVIOUS
<1>3. CallOK(o)
    BY <1>1, <1>2, UnderWay
<1> DEFINE m == o.method
           s == Params(m)
<1>4. /\ m \in Method /\ ArgsFor(m, o.args) /\ o.pos \in DOMAIN s /\ s[o.pos] = NoClass
      /\ \A i \in 1 .. (o.pos - 1) : s[i] = NoClass
    BY <1>1, <1>2, <1>3 DEF CallOK
<1>5. c = [method |-> m, args |-> o.args, pos |-> o.pos + 1, virtualArg |-> o.virtualArg,
           dispatch |-> o.dispatch, step |-> "first", result |-> o.result]
    BY <1>1, <1>2, <1>3 DEF CallOK
<1>6. PICK g : Picks(g, s, Vp(m), Len(s))
    BY <1>4, ArgFacts DEF SlotsInv
<1>7. /\ s \in Seq(Class \cup {NoClass}) /\ g[1] \in DOMAIN s /\ s[g[1]] # NoClass
      /\ o.pos <= g[1]
    BY <1>4, <1>6, FirstFacts, MethodFacts DEF SlotsInv, IsFirst
<1> HIDE DEF m, s
<1>8. DOMAIN s = 1 .. Len(s) /\ Len(s) \in Nat /\ o.pos \in Nat /\ g[1] \in Nat
    BY <1>4, <1>7
<1>9. o.pos + 1 \in DOMAIN s
    BY <1>4, <1>7, <1>8
<1>10. \A i \in 1 .. (o.pos + 1 - 1) : s[i] = NoClass
    <2> TAKE i \in 1 .. (o.pos + 1 - 1)
    <2>1. i = o.pos \/ i \in 1 .. (o.pos - 1)
        BY <1>8
    <2> QED
        BY <1>4, <2>1
<1>11. Ready
    BY <1>3 DEF CallOK
<1>12. /\ c = [method |-> c.method, args |-> c.args, pos |-> c.pos,
                virtualArg |-> c.virtualArg, dispatch |-> c.dispatch, step |-> c.step,
                result |-> c.result]
       /\ c.method = m /\ c.args = o.args /\ c.pos = o.pos + 1 /\ c.step = "first"
    BY <1>5
<1>13. /\ c.method \in Method /\ ArgsFor(c.method, c.args)
       /\ c.pos \in DOMAIN Params(c.method)
       /\ \A i \in 1 .. (c.pos - 1) : Params(c.method)[i] = NoClass
    <2>1. c.pos - 1 = o.pos + 1 - 1
        BY <1>8, <1>12
    <2> HIDE DEF m
    <2> QED
        BY <1>4, <1>9, <1>10, <1>12, <2>1 DEF s
<1> QED
    BY <1>11, <1>12, <1>13 DEF CallOK

\* The first virtual argument of a call that has come to it.
LEMMA AtFirst ==
    ASSUME SlotsInv, LayoutInv, CallInv, InCall("first"), IsVirtual
    PROVE  /\ IsFirst(call.method, call.pos)
           /\ \E g : /\ Picks(g, Params(call.method), Vp(call.method), Len(Params(call.method)))
                     /\ g[1] = call.pos
           /\ VirtualIn(call.args)[1] = call.args[call.pos]
           /\ program.collected = program.bases =>
                 Lookup(1) = WordOf([m |-> call.method, d |-> 1,
                     group |-> GroupIndex(call.method, 1, VirtualIn(call.args)[1])])
<1>1. /\ call # NoCall /\ call.step = "first" /\ Params(call.method)[call.pos] # NoClass
    BY DEF InCall, IsVirtual
<1> DEFINE m == call.method
           v == VirtualIn(call.args)
<1>2. /\ m \in Method /\ ArgsFor(m, call.args) /\ call.pos \in DOMAIN Params(m) /\ Ready
      /\ \A i \in 1 .. (call.pos - 1) : Params(m)[i] = NoClass
    BY <1>1, UnderWay DEF CallOK
<1>3. IsFirst(m, call.pos)
    BY <1>1, <1>2 DEF IsFirst
<1>4. PICK g : /\ Picks(g, Params(m), Vp(m), Len(Params(m)))
               /\ \A d \in 1 .. ArityOf(m) : v[d] \in derived[Vp(m)[d]] /\ v[d] = call.args[g[d]]
    BY <1>2, ArgFacts DEF SlotsInv
<1>5. g[1] = call.pos
    BY <1>2, <1>3, <1>4, FirstFacts DEF SlotsInv
<1>6. 1 \in 1 .. ArityOf(m)
    BY <1>2, MethodFacts DEF SlotsInv
<1>7. v[1] \in derived[Vp(m)[1]] /\ v[1] = call.args[call.pos] /\ IsVp(m, 1)
    BY <1>2, <1>4, <1>5, <1>6 DEF IsVp
<1>8. ASSUME program.collected = program.bases
      PROVE  Lookup(1) = WordOf([m |-> m, d |-> 1, group |-> GroupIndex(m, 1, v[1])])
    <2>1. WordAt(vptr[v[1]] + slotsStrides[m][1]) =
              WordOf([m |-> m, d |-> 1, group |-> GroupIndex(m, 1, v[1])])
        BY <1>2, <1>7, <1>8, LookupFacts
    <2> QED
        BY <1>7, <2>1 DEF Lookup
<1> QED
    BY <1>3, <1>4, <1>5, <1>7, <1>8

LEMMA CallResolvesUni ==
    ASSUME SlotsInv, LayoutInv, CallInv, ResolveUni, NEW c, c = call'
    PROVE  CallOK(c)
<1>1. /\ InCall("first") /\ IsVirtual /\ call # NoCall /\ ArityOf(call.method) = 1
      /\ call' = [call EXCEPT !.step = "resolved", !.result = Lookup(1)]
    BY DEF ResolveUni, InCall, Arity
<1>2. PICK o : o = call
    OBVIOUS
<1>3. CallOK(o)
    BY <1>1, <1>2, UnderWay
<1> DEFINE m == o.method
           v == VirtualIn(o.args)
<1>4. m \in Method /\ ArgsFor(m, o.args) /\ o.pos \in DOMAIN Params(m) /\ Ready
    BY <1>3 DEF CallOK
<1>5. PICK r : r = Lookup(1)
    OBVIOUS
<1>6. c = [method |-> m, args |-> o.args, pos |-> o.pos, virtualArg |-> o.virtualArg,
           dispatch |-> o.dispatch, step |-> "resolved", result |-> r]
    BY <1>1, <1>2, <1>3, <1>5 DEF CallOK
<1>7. ASSUME IsRegular(m)
      PROVE  r = Function(m, CellFor(m, o.args))
    <2>1. r = WordOf([m |-> m, d |-> 1, group |-> GroupIndex(m, 1, v[1])])
        BY <1>1, <1>2, <1>5, <1>7, AtFirst DEF IsRegular
    <2>2. r = Function(m, GroupIndex(m, 1, v[1]) + 1)
        BY <1>1, <1>2, <2>1 DEF WordOf
    <2>3. \A d \in 1 .. ArityOf(m) : v[d] \in derived[Vp(m)[d]]
        BY <1>4, ArgFacts DEF SlotsInv
    <2>4. PICK b : Adds(b, m, v)
        BY <1>4, <2>3, CellOfCall DEF SlotsInv
    <2>5. b[1] = 1 + GroupIndex(m, 1, v[1]) /\ b[1] = CellNumber(StridesOf(m), PlacesOf(m, v))
        BY <1>1, <1>2, <2>4 DEF Adds
    <2>6. CellFor(m, o.args) = b[1]
        BY <2>5 DEF CellFor, StridesOf, PlacesOf
    <2>7. GroupIndex(m, 1, v[1]) \in Int
        <3>1. IsVp(m, 1)
            BY <1>1, <1>2, <1>4 DEF IsVp
        <3>2. v[1] \in derived[Vp(m)[1]]
            BY <1>1, <1>2, <2>3
        <3>3. GroupIndex(m, 1, v[1]) \in 0 .. (Len(GroupsIn(m, 1)) - 1)
            BY <3>1, <3>2, GroupFacts DEF SlotsInv
        <3> QED
            BY <3>3
    <2> HIDE DEF v, m
    <2> QED
        BY <2>2, <2>5, <2>6, <2>7
<1> HIDE DEF m, v
<1> QED
    BY <1>4, <1>6, <1>7 DEF CallOK

LEMMA CallResolvesFirst ==
    ASSUME SlotsInv, LayoutInv, CallInv, ResolveMultiFirst, NEW c, c = call'
    PROVE  CallOK(c)
<1>1. /\ InCall("first") /\ IsVirtual /\ call # NoCall /\ ArityOf(call.method) > 1
      /\ call' = [call EXCEPT !.step = "next", !.pos = @ + 1, !.virtualArg = 1,
                              !.dispatch = As("pw", Lookup(1))]
    BY DEF ResolveMultiFirst, InCall, Arity
<1>2. PICK o : o = call
    OBVIOUS
<1>3. CallOK(o)
    BY <1>1, <1>2, UnderWay
<1> DEFINE m == o.method
           v == VirtualIn(o.args)
<1>4. m \in Method /\ ArgsFor(m, o.args) /\ o.pos \in DOMAIN Params(m) /\ Ready
    BY <1>3 DEF CallOK
<1>5. PICK r : r = As("pw", Lookup(1))
    OBVIOUS
<1>6. c = [method |-> m, args |-> o.args, pos |-> o.pos + 1, virtualArg |-> 1,
           dispatch |-> r, step |-> "next", result |-> o.result]
    BY <1>1, <1>2, <1>3, <1>5 DEF CallOK
<1>7. ArityOf(m) \in Nat /\ ArityOf(m) > 1 /\ Params(m) \in Seq(Class \cup {NoClass})
    BY <1>1, <1>2, <1>4, MethodFacts DEF SlotsInv
<1>8. IsFirst(m, o.pos)
    BY <1>1, <1>2, AtFirst
<1>9. o.pos + 1 \in DOMAIN Params(m) /\ o.pos \in Nat /\ o.pos + 1 - 1 = o.pos
    <2>1. PICK g : Picks(g, Params(m), Vp(m), Len(Params(m))) /\ g[1] = o.pos
        BY <1>1, <1>2, AtFirst
    <2>2. 2 \in 1 .. ArityOf(m)
        BY <1>7
    <2>3. g[2] \in DOMAIN Params(m) /\ g[2] >= g[1] + 2 - 1
        BY <1>4, <2>1, <2>2, FirstFacts DEF SlotsInv
    <2>4. DOMAIN Params(m) = 1 .. Len(Params(m)) /\ Len(Params(m)) \in Nat
        BY <1>7
    <2> QED
        BY <1>4, <2>1, <2>3, <2>4
<1>10. ASSUME IsRegular(m)
       PROVE  \E b : Adds(b, m, v) /\ r = tableAt[m] - 1 + b[1]
    <2> DEFINE group == GroupIndex(m, 1, v[1])
    <2>1. Lookup(1) = WordOf([m |-> m, d |-> 1, group |-> group])
        BY <1>1, <1>2, <1>10, AtFirst DEF IsRegular
    <2>2. WordOf([m |-> m, d |-> 1, group |-> group]) = Pointer(tableAt[m] + group)
        BY <1>7 DEF WordOf
    <2>3. r = tableAt[m] + group
        BY <1>5, <2>1, <2>2 DEF As, Pointer
    <2>4. \A d \in 1 .. ArityOf(m) : v[d] \in derived[Vp(m)[d]]
        BY <1>4, ArgFacts DEF SlotsInv
    <2>5. PICK b : Adds(b, m, v)
        BY <1>4, <2>4, CellOfCall DEF SlotsInv
    <2>6. b[1] = 1 + group
        BY <2>5 DEF Adds
    <2>7. group \in Int /\ tableAt[m] \in Nat
        <3>1. IsVp(m, 1) /\ v[1] \in derived[Vp(m)[1]]
            BY <1>4, <1>7, <2>4 DEF IsVp
        <3>2. group \in 0 .. (Len(GroupsIn(m, 1)) - 1)
            BY <3>1, GroupFacts DEF SlotsInv
        <3> QED
            BY <1>4, <3>2 DEF LayoutInv, WrittenInv
    <2> HIDE DEF group, v, m
    <2>8. r = tableAt[m] - 1 + b[1]
        BY <2>3, <2>6, <2>7
    <2> QED
        BY <2>5, <2>8
<1>11. 1 \in 1 .. (ArityOf(m) - 1)
    BY <1>7
<1> HIDE DEF m
<1> QED
    BY <1>4, <1>6, <1>8, <1>9, <1>10, <1>11 DEF CallOK

LEMMA CallResolvesNext ==
    ASSUME SlotsInv, LayoutInv, CallInv, ResolveMultiNext, NEW c, c = call'
    PROVE  CallOK(c)
<1>1. call # NoCall /\ call.step = "next"
    BY DEF ResolveMultiNext, InCall
<1>2. PICK o : o = call
    OBVIOUS
<1>3. CallOK(o)
    BY <1>1, <1>2, UnderWay
<1> DEFINE m == o.method
           v == VirtualIn(o.args)
           n == o.virtualArg
           add == As("i", Lookup(n + 1)) * slotsStrides[m][ArityOf(m) + n]
           sum == IF IsVirtual THEN o.dispatch + add ELSE o.dispatch
<1>4. call' = IF n + 1 = ArityOf(m)
              THEN [call EXCEPT !.step = "resolved", !.dispatch = sum, !.result = WordAt(sum)]
              ELSE [call EXCEPT !.pos = @ + 1, !.virtualArg = n + 1, !.dispatch = sum]
    BY <1>2 DEF ResolveMultiNext, Arity
<1>5. /\ m \in Method /\ ArgsFor(m, o.args) /\ o.pos \in DOMAIN Params(m) /\ Ready
      /\ n \in 1 .. (ArityOf(m) - 1) /\ IsFirst(m, o.pos - n)
      /\ o.step = "next"
    BY <1>1, <1>2, <1>3 DEF CallOK
<1>6. PICK s : s = sum
    OBVIOUS
<1>7. PICK r : r = WordAt(s)
    OBVIOUS
<1>8. c = IF n + 1 = ArityOf(m)
          THEN [method |-> m, args |-> o.args, pos |-> o.pos, virtualArg |-> n,
                dispatch |-> s, step |-> "resolved", result |-> r]
          ELSE [method |-> m, args |-> o.args, pos |-> o.pos + 1, virtualArg |-> n + 1,
                dispatch |-> s, step |-> "next", result |-> o.result]
    <2>1. CASE n + 1 = ArityOf(m)
        <3>1. call' = [call EXCEPT !.step = "resolved", !.dispatch = s, !.result = r]
            <4> HIDE DEF m, n, sum
            <4> QED
                BY <1>4, <1>6, <1>7, <2>1, Zenon
        <3>2. c = [method |-> m, args |-> o.args, pos |-> o.pos, virtualArg |-> n,
                   dispatch |-> s, step |-> "resolved", result |-> r]
            BY <1>2, <1>3, <3>1 DEF CallOK
        <3> QED
            BY <2>1, <3>2
    <2>2. CASE n + 1 # ArityOf(m)
        <3>1. call' = [call EXCEPT !.pos = @ + 1, !.virtualArg = n + 1, !.dispatch = s]
            <4> HIDE DEF m, n, sum
            <4> QED
                BY <1>4, <1>6, <2>2, Zenon
        <3>2. c = [method |-> m, args |-> o.args, pos |-> o.pos + 1, virtualArg |-> n + 1,
                   dispatch |-> s, step |-> "next", result |-> o.result]
            BY <1>1, <1>2, <1>3, <3>1 DEF CallOK
        <3> QED
            BY <2>2, <3>2
    <2> QED
        BY <2>1, <2>2
<1>9. /\ Params(m) \in Seq(Class \cup {NoClass}) /\ ArityOf(m) \in Nat \ {0}
      /\ DOMAIN Params(m) = 1 .. Len(Params(m)) /\ Len(Params(m)) \in Nat
    <2>1. Params(m) \in Seq(Class \cup {NoClass}) /\ ArityOf(m) \in Nat \ {0}
        BY <1>5, MethodFacts DEF SlotsInv
    <2> QED
        BY <2>1
<1>10. PICK g : /\ Picks(g, Params(m), Vp(m), Len(Params(m)))
                /\ \A d \in 1 .. ArityOf(m) : v[d] \in derived[Vp(m)[d]] /\ v[d] = o.args[g[d]]
    BY <1>5, ArgFacts DEF SlotsInv
<1>11. /\ o.pos - n = g[1]
       /\ \A i \in 1 .. ArityOf(m) : g[i] \in DOMAIN Params(m) /\ g[i] >= g[1] + i - 1
       /\ IsContiguous(Params(m)) => \A i \in 1 .. ArityOf(m) : g[i] = g[1] + i - 1
    BY <1>5, <1>10, FirstFacts DEF SlotsInv
<1>12. /\ n \in Nat /\ o.pos \in Nat /\ n + 1 \in 1 .. ArityOf(m) /\ g[1] \in Nat
       /\ o.pos = g[1] + n
    <2>1. n \in Nat /\ o.pos \in Nat /\ n + 1 \in 1 .. ArityOf(m) /\ 1 \in 1 .. ArityOf(m)
        BY <1>5, <1>9
    <2>2. g[1] \in Nat
        BY <1>9, <1>11, <2>1
    <2> HIDE DEF n, m
    <2> QED
        BY <1>11, <2>1, <2>2
<1>13. ASSUME n + 1 # ArityOf(m)
       PROVE  /\ o.pos + 1 \in DOMAIN Params(m) /\ n + 1 \in 1 .. (ArityOf(m) - 1)
              /\ o.pos + 1 - (n + 1) = o.pos - n
    <2>1. n + 2 \in 1 .. ArityOf(m) /\ n + 1 \in 1 .. (ArityOf(m) - 1)
        BY <1>5, <1>9, <1>12, <1>13
    <2>2. g[n + 2] \in DOMAIN Params(m) /\ g[n + 2] >= g[1] + (n + 2) - 1
        BY <1>11, <2>1
    <2> HIDE DEF n, m
    <2> QED
        BY <1>9, <1>12, <2>1, <2>2
<1>14. ASSUME IsRegular(m)
       PROVE  \E b : /\ Adds(b, m, v)
                     /\ s = tableAt[m] - 1 + b[n + 1]
    <2> DEFINE group == GroupIndex(m, n + 1, v[n + 1])
               stride == Stride(Sizes(m), n + 1)
    <2>1. PICK b : Adds(b, m, v) /\ o.dispatch = tableAt[m] - 1 + b[n]
        BY <1>3, <1>5, <1>14 DEF CallOK
    <2>2. g[n + 1] = o.pos
        BY <1>11, <1>12, <1>14 DEF IsRegular
    <2>3. IsVirtual
        BY <1>2, <1>10, <1>12, <2>2, MethodFacts, <1>5 DEF IsVirtual, Picks, ArityOf
    <2>4. v[n + 1] = call.args[call.pos] /\ v[n + 1] \in derived[Vp(m)[n + 1]] /\ IsVp(m, n + 1)
        BY <1>2, <1>5, <1>10, <1>12, <2>2 DEF IsVp
    <2>5. Lookup(n + 1) = WordOf([m |-> m, d |-> n + 1, group |-> group])
        <3>1. WordAt(vptr[v[n + 1]] + slotsStrides[m][n + 1]) =
                  WordOf([m |-> m, d |-> n + 1, group |-> group])
            BY <1>5, <1>14, <2>4, LookupFacts DEF IsRegular
        <3> QED
            BY <1>2, <2>4, <3>1 DEF Lookup
    <2>6. ArityOf(m) # 1 /\ n + 1 # 1
        BY <1>5, <1>12
    <2>7. Lookup(n + 1) = Index(group)
        BY <2>5, <2>6 DEF WordOf
    <2>8. slotsStrides[m][ArityOf(m) + n] = stride
        BY <1>5, ReadyFacts DEF LayoutInv, TablesInv
    <2>9. add = group * stride
        BY <2>7, <2>8 DEF As, Index
    <2>10. s = o.dispatch + group * stride
        BY <1>6, <2>3, <2>9
    <2>11. b[n + 1] = b[n] + group * stride /\ b[n] \in Nat /\ b[n + 1] \in Nat
        <3>1. n \in 0 .. ArityOf(m) /\ n + 1 \in 0 .. ArityOf(m)
            BY <1>5, <1>9
        <3> QED
            BY <1>5, <2>1, <3>1 DEF Adds
    <2>12. tableAt[m] \in Nat
        BY <1>5 DEF LayoutInv, WrittenInv
    <2>13. group * stride \in Int
        <3>1. group \in 0 .. (Len(GroupsIn(m, n + 1)) - 1)
            BY <2>4, GroupFacts DEF SlotsInv
        <3>2. PICK R : IsLayout(R, StridesOf(m), Sizes(m), ArityOf(m))
            BY <1>5, CellFacts DEF SlotsInv
        <3>3. stride = StridesOf(m)[n + 1]
            BY <1>12 DEF StridesOf
        <3>4. stride \in Nat
            BY <1>12, <3>2, <3>3 DEF IsLayout
        <3> HIDE DEF group, stride
        <3> QED
            BY <3>1, <3>4
    <2> DEFINE p == group * stride
    <2> HIDE DEF p, m, n, v
    <2>14. /\ s = o.dispatch + p /\ o.dispatch = tableAt[m] - 1 + b[n]
           /\ b[n + 1] = b[n] + p /\ p \in Int
        BY <2>1, <2>10, <2>11, <2>13 DEF p
    <2>15. s = tableAt[m] - 1 + b[n + 1]
        BY <2>11, <2>12, <2>14
    <2> QED
        BY <2>1, <2>15
<1>15. ASSUME IsRegular(m), n + 1 = ArityOf(m)
       PROVE  r = Function(m, CellFor(m, o.args))
    <2>1. PICK b : Adds(b, m, v) /\ s = tableAt[m] - 1 + b[n + 1]
        BY <1>14, <1>15
    <2> DEFINE k == b[ArityOf(m)]
    <2>2. k \in 1 .. Cells(m) /\ k = CellNumber(StridesOf(m), PlacesOf(m, v))
        BY <2>1 DEF Adds
    <2>3. CellFor(m, o.args) = k
        BY <2>2 DEF CellFor, StridesOf, PlacesOf
    <2>4. ArityOf(m) > 1 /\ m <= written
        BY <1>5, <1>9, ReadyFacts
    <2>5. tableAt[m] + k - 1 \in DOMAIN data /\ data[tableAt[m] + k - 1] = Function(m, k)
        BY <1>5, <2>2, <2>4 DEF LayoutInv, TablesInv
    <2>6. s = tableAt[m] - 1 + k
        BY <1>15, <2>1
    <2>7. tableAt[m] \in Nat /\ k \in Int
        <3>1. Cells(m) \in Nat
            BY <1>5, CellFacts DEF SlotsInv
        <3> QED
            BY <1>5, <2>2, <3>1 DEF LayoutInv, WrittenInv
    <2> HIDE DEF k, m
    <2>8. s = tableAt[m] + k - 1
        BY <2>6, <2>7
    <2> QED
        BY <1>7, <2>3, <2>5, <2>8 DEF WordAt
<1> HIDE DEF m, n, v, sum
<1>16. CASE n + 1 = ArityOf(m)
    BY <1>5, <1>8, <1>15, <1>16 DEF CallOK
<1>17. CASE n + 1 # ArityOf(m)
    <2>1. /\ c = [method |-> c.method, args |-> c.args, pos |-> c.pos,
                  virtualArg |-> c.virtualArg, dispatch |-> c.dispatch, step |-> c.step,
                  result |-> c.result]
          /\ c.method = m /\ c.args = o.args /\ c.pos = o.pos + 1 /\ c.step = "next"
          /\ c.virtualArg = n + 1 /\ c.dispatch = s
        BY <1>8, <1>17
    <2>2. /\ c.method \in Method /\ ArgsFor(c.method, c.args)
          /\ c.pos \in DOMAIN Params(c.method)
          /\ c.virtualArg \in 1 .. (ArityOf(c.method) - 1)
          /\ IsFirst(c.method, c.pos - c.virtualArg)
        <3>1. c.pos - c.virtualArg = o.pos - n
            BY <1>12, <1>13, <1>17, <2>1
        <3> QED
            BY <1>5, <1>13, <1>17, <2>1, <3>1
    <2>3. IsRegular(c.method) =>
              \E b : /\ Adds(b, c.method, VirtualIn(c.args))
                     /\ c.dispatch = tableAt[c.method] - 1 + b[c.virtualArg]
        BY <1>14, <2>1 DEF v
    <2> QED
        BY <1>5, <2>1, <2>2, <2>3 DEF CallOK
<1> QED
    BY <1>16, <1>17

LEMMA CallInvStep ==
    ASSUME SlotsInv, LayoutInv, CallInv, [Next]_vars
    PROVE  CallInv'
<1>1. CASE AssignSlots \/ WriteMethod \/ WriteClass
    <2>1. call' = call
        BY <1>1 DEF AssignSlots, WriteMethod, WriteClass
    <2>2. call = NoCall
        <3> SUFFICES ASSUME call # NoCall
                     PROVE  FALSE
            OBVIOUS
        <3>1. Ready /\ call.method \in Method
            BY UnderWay
        <3>2. phase = "done"
            BY <3>1, ReadyFacts
        <3>3. NumMethods \in Nat /\ NumClasses \in Nat
            BY MethodFacts, NumClassesAssumption DEF SlotsInv
        <3>4. CASE AssignSlots
            BY <3>2, <3>4, SlotsFacts DEF AssignSlots
        <3>5. CASE WriteMethod
            BY <3>1, <3>3, <3>5 DEF WriteMethod, Ready
        <3>6. CASE WriteClass
            BY <3>1, <3>3, <3>6 DEF WriteClass, Ready
        <3> QED
            BY <1>1, <3>4, <3>5, <3>6
    <2> QED
        BY <2>1, <2>2 DEF CallInv, NoCall
<1>2. CASE CallStep \/ UNCHANGED vars
    <2>1. UNCHANGED <<inputs, slotVars, written, outputs>>
        BY <1>2, CallStepChanges DEF vars
    <2>2. ASSUME NEW c, c = call'
          PROVE  c = NoCall \/ CallOK(c)
        <3>1. CASE Call
            BY <2>2, <3>1, CallStarts
        <3>2. CASE SkipToFirst
            BY <2>2, <3>2, CallSkips
        <3>3. CASE ResolveUni
            BY <2>2, <3>3, CallResolvesUni
        <3>4. CASE ResolveMultiFirst
            BY <2>2, <3>4, CallResolvesFirst
        <3>5. CASE ResolveMultiNext
            BY <2>2, <3>5, CallResolvesNext
        <3>6. CASE Return
            BY <2>2, <3>6 DEF Return
        <3>7. CASE UNCHANGED vars
            BY <2>2, <3>7 DEF vars, CallInv
        <3> QED
            BY <1>2, <3>1, <3>2, <3>3, <3>4, <3>5, <3>6, <3>7 DEF CallStep
    <2>3. ASSUME NEW c, c = call'
          PROVE  c = NoCall \/ CallOK(c)'
        BY <2>1, <2>2, <2>3, SameCall
    <2>4. NoCall' = NoCall
        BY DEF NoCall
    <2> QED
        BY <2>3, <2>4 DEF CallInv
<1> QED
    BY <1>1, <1>2 DEF Next, CallStep

-----------------------------------------------------------------------------
(* The theorems *)

Inv ==
    /\ SlotsInv
    /\ LayoutInv
    /\ SizeInv
    /\ CallInv

LEMMA InitInv == Init => Inv
<1> SUFFICES ASSUME Init
             PROVE  Inv
    OBVIOUS
<1>1. SlotsInv /\ LayoutInv
    BY StartLayout
<1>2. data = <<>> /\ phase # "done" /\ call = NoCall
    BY DEF Init, Slots!Start
<1>3. SizeInv /\ CallInv
    BY <1>2 DEF SizeInv, CallInv
<1> QED
    BY <1>1, <1>3 DEF Inv

LEMMA NextInv == Inv /\ [Next]_vars => Inv'
BY LayoutInvStep, SizeInvStep, CallInvStep DEF Inv

\* Everything holds all the time: from the slots, to the words in the vector, to
\* what a call has read of them.
THEOREM CallsInvariant == Spec => []Inv
BY InitInv, NextInv, PTL DEF Spec

\* The variables have their types, and a call never goes beyond the parameters
\* of its method.
THEOREM TypesInvariant == Spec => []TypeOK
<1>1. Inv => TypeOK
    <2> SUFFICES ASSUME Inv
                 PROVE  TypeOK
        OBVIOUS
    <2>1. Slots!TypeOK
        BY SlotsFacts DEF Inv
    <2>2. call # NoCall => call.pos \in DOMAIN Params(call.method)
        BY DEF Inv, CallInv, CallOK
    <2> QED
        BY <2>1, <2>2 DEF Inv, LayoutInv, WrittenInv, TypeOK
<1> QED
    BY <1>1, CallsInvariant, PTL

\* build_dispatch_tables never writes outside of a v-table, for any lattice, and
\* whether or not indirect bases are lost.
THEOREM EntriesStayInside == Spec => []EntriesInsideVtables
<1>1. Inv => EntriesInsideVtables
    BY SlotsFacts DEF Inv, EntriesInsideVtables
<1> QED
    BY <1>1, CallsInvariant, PTL

\* write_global_data never writes past the size it has computed beforehand.
THEOREM DataFits == Spec => []FitsInDispatchData
<1>1. Inv => FitsInDispatchData
    BY SizeBound DEF Inv
<1> QED
    BY <1>1, CallsInvariant, PTL

\* A call of a method whose virtual parameters are contiguous ends up in the
\* cell for the groups of its arguments, if no base was lost: for all numbers
\* of classes, methods, parameters and overriders.
THEOREM CallsGetTheirCell == Spec => []ContiguousCallsGetTheirCell
<1>1. Inv => ContiguousCallsGetTheirCell
    <2> SUFFICES ASSUME Inv, InCall("resolved"), IsRegular(call.method)
                 PROVE  GetsItsCell
        BY DEF ContiguousCallsGetTheirCell, IsRegular
    <2>1. call # NoCall /\ call.step = "resolved"
        BY DEF InCall
    <2>2. CallOK(call)
        BY <2>1, UnderWay DEF Inv
    <2> QED
        BY <2>1, <2>2 DEF CallOK, GetsItsCell
<1> QED
    BY <1>1, CallsInvariant, PTL
=============================================================================
