-------------------------- MODULE RegistrarsProofs --------------------------
(****************************************************************************)
(* The intrusive lists are right whatever classes, methods, overriders and  *)
(* units a program has, and in whatever order they come and go.             *)
(*                                                                          *)
(* The links of a list are those of a sequence of nodes, its chain; the     *)
(* chains of two lists have no node in common, and a node on none has no    *)
(* link: Chains.  Every call of a list turns its chain into that of the     *)
(* sequence push_back, remove or clear promise.  What the iterators find is *)
(* the chain: At is a recursive function, and the lemma ChainAt compares it *)
(* with the chain at the least place where they would differ.               *)
(****************************************************************************)
EXTENDS Registrars, FiniteSetTheorems, SequenceTheorems, WellFoundedInduction,
        TLAPS

On(s) == { s[i] : i \in 1 .. Len(s) }

\* The links from first[l] on are those of the sequence s.
Chain(l, s) ==
    /\ s \in Seq(Node)
    /\ \A i, j \in 1 .. Len(s) : i # j => s[i] # s[j]
    /\ IF Len(s) = 0 THEN first[l] = Null
       ELSE first[l] = s[1] /\ prev[s[1]] = s[Len(s)] /\ next[s[Len(s)]] = Null
    /\ \A i \in 1 .. Len(s) - 1 : next[s[i]] = s[i + 1] /\ prev[s[i + 1]] = s[i]

Chains(c) ==
    /\ c \in [List -> Seq(Node)]
    /\ \A l \in List : Chain(l, c[l])
    /\ \A l, m \in List : l # m => On(c[l]) \cap On(c[m]) = {}
    /\ \A n \in Node : (\A l \in List : n \notin On(c[l])) =>
          prev[n] = Null /\ next[n] = Null

Walks == [l \in List |-> Walk(l)]

LinkTypes ==
    /\ first \in [List -> Pointer]
    /\ prev \in [Node -> Pointer]
    /\ next \in [Node -> Pointer]

ListInv == LinkTypes /\ Chains(Walks)
-----------------------------------------------------------------------------
(* What the iterators find *)

Below == { ss \in Nat \X Nat : ss[1] < ss[2] }

LEMMA BelowIsWellFounded == IsWellFoundedOn(Below, Nat)
BY NatLessThanWellFounded, Zenon DEF OpToRel, Below

LEMMA LeastMember ==
    ASSUME NEW S, S \subseteq Nat, S # {}
    PROVE  \E x \in S : \A y \in S : x <= y
<1>1. PICK x \in S : \A y \in S : ~ (<<y, x>> \in Below)
    BY WFMin, BelowIsWellFounded
<1>2. ASSUME NEW y \in S
      PROVE  x <= y
    <2>1. <<y, x>> \in Nat \X Nat /\ <<y, x>>[1] = y /\ <<y, x>>[2] = x
        OBVIOUS
    <2>2. ~ (y < x)
        BY <1>1, <2>1, Zenon DEF Below
    <2> QED
        BY <2>2
<1> QED
    BY <1>2

\* A chain is no longer than there are nodes.
LEMMA ChainIsShort ==
    ASSUME NEW l, NEW s, Chain(l, s)
    PROVE  /\ Cardinality(Node) \in Nat /\ Len(s) \in 0 .. Cardinality(Node)
           /\ s \in Seq(Node) /\ \A k \in 1 .. Len(s) : s[k] \in Node /\ s[k] # Null
<1>1. /\ s \in Seq(Node) /\ Len(s) \in Nat /\ DOMAIN s = 1 .. Len(s)
      /\ \A k \in 1 .. Len(s) : s[k] \in Node /\ s[k] # Null
    BY NullAssumption DEF Chain
<1>2. s \in Injection(1 .. Len(s), Node)
    <2>1. s \in [1 .. Len(s) -> Node]
        BY <1>1
    <2> QED
        BY <2>1 DEF Chain, Injection, IsInjective
<1>3. Cardinality(Node) \in Nat
    BY NodeAssumption, FS_CardinalityType
<1>4. Cardinality(1 .. Len(s)) <= Cardinality(Node)
    BY <1>2, NodeAssumption, FS_Injection
<1>5. Cardinality(1 .. Len(s)) = Len(s)
    BY <1>1, FS_Interval
<1> QED
    BY <1>1, <1>3, <1>4, <1>5

LEMMA ChainAt ==
    ASSUME NEW l \in List, NEW s, Chain(l, s)
    PROVE  At(l) = [k \in 1 .. (Cardinality(Node) + 1) |->
                       IF k <= Len(s) THEN s[k] ELSE Null]
<1> DEFINE N == Cardinality(Node)
           f == [k \in 1 .. (N + 1) |-> IF k <= Len(s) THEN s[k] ELSE Null]
           Rest(g, k) == IF k = 1 THEN first[l]
                         ELSE LET before == g[k - 1]
                              IN  IF before = Null THEN Null ELSE next[before]
           IsAt(g) == g = [k \in 1 .. (N + 1) |-> Rest(g, k)]
<1>1. N \in Nat /\ Len(s) \in 0 .. N /\ \A k \in 1 .. Len(s) : s[k] # Null
    BY ChainIsShort
<1>2. ASSUME NEW k \in 1 .. (N + 1)
      PROVE  f[k] = Rest(f, k)
    <2>1. f[k] = IF k <= Len(s) THEN s[k] ELSE Null
        OBVIOUS
    <2>2. CASE k = 1
        BY <1>1, <2>1, <2>2 DEF Chain
    <2>3. CASE k # 1
        <3>1. k - 1 \in 1 .. (N + 1)
            BY <1>1, <2>3
        <3>2. f[k - 1] = IF k - 1 <= Len(s) THEN s[k - 1] ELSE Null
            BY <3>1
        <3> HIDE DEF f
        <3>3. CASE k <= Len(s)
            <4>1. k - 1 \in 1 .. Len(s) - 1 /\ k - 1 \in 1 .. Len(s) /\ (k - 1) + 1 = k
                BY <1>1, <2>3, <3>3
            <4>2. next[s[k - 1]] = s[k]
                BY <4>1 DEF Chain
            <4> QED
                BY <1>1, <2>1, <2>3, <3>2, <3>3, <4>1, <4>2
        <3>4. CASE k = Len(s) + 1
            <4>1. Len(s) \in 1 .. Len(s) /\ k - 1 = Len(s) /\ ~ (k <= Len(s))
                BY <1>1, <2>3, <3>4
            <4>2. next[s[Len(s)]] = Null
                BY <4>1 DEF Chain
            <4> QED
                BY <1>1, <2>1, <2>3, <3>2, <4>1, <4>2
        <3>5. CASE k > Len(s) + 1
            <4>1. ~ (k <= Len(s)) /\ ~ (k - 1 <= Len(s))
                BY <1>1, <3>5
            <4> QED
                BY <2>1, <2>3, <3>2, <4>1
        <3> QED
            BY <1>1, <3>3, <3>4, <3>5
    <2> QED
        BY <2>2, <2>3
<1>3. IsAt(f)
    BY <1>2
<1>4. At(l) = CHOOSE g : IsAt(g)
    BY DEF At
<1> HIDE DEF IsAt
<1>5. IsAt(At(l))
    BY <1>3, <1>4
<1>6. At(l) = [k \in 1 .. (N + 1) |-> Rest(At(l), k)]
    BY <1>5 DEF IsAt
<1> HIDE DEF Rest, f
<1>7. \A k \in 1 .. (N + 1) : At(l)[k] = f[k]
    <2> DEFINE S == { k \in 1 .. (N + 1) : At(l)[k] # f[k] }
    <2>1. SUFFICES ASSUME S # {} PROVE FALSE
        OBVIOUS
    <2>2. S \subseteq Nat
        BY <1>1
    <2>3. PICK k \in S : \A j \in S : k <= j
        <3> HIDE DEF S
        <3> QED
            BY <2>1, <2>2, LeastMember
    <2>4. k \in 1 .. (N + 1) /\ At(l)[k] # f[k]
        BY <2>3
    <2>5. At(l)[k] = Rest(At(l), k) /\ f[k] = Rest(f, k)
        BY <1>2, <1>6, <2>4
    <2>6. k # 1
        BY <2>4, <2>5 DEF Rest
    <2>7. k - 1 \in 1 .. (N + 1) /\ ~ (k <= k - 1)
        BY <1>1, <2>4, <2>6
    <2>8. At(l)[k - 1] = f[k - 1]
        BY <2>3, <2>7
    <2> QED
        BY <2>4, <2>5, <2>6, <2>8 DEF Rest
<1>8. At(l) = [k \in 1 .. (N + 1) |-> At(l)[k]]
    BY <1>6
<1> QED
    BY <1>7, <1>8 DEF f

\* Iterating over a list visits the nodes of its chain, in order.
LEMMA ChainIsWalk ==
    ASSUME NEW l \in List, NEW s, Chain(l, s)
    PROVE  Walk(l) = s /\ Listed(l) = On(s)
<1> DEFINE N == Cardinality(Node)
           Length(k) == /\ At(l)[k + 1] = Null
                        /\ \A j \in 1 .. k : At(l)[j] # Null
<1>1. /\ N \in Nat /\ Len(s) \in 0 .. N
      /\ s \in Seq(Node) /\ \A k \in 1 .. Len(s) : s[k] # Null
    BY ChainIsShort
<1>2. /\ DOMAIN At(l) = 1 .. (N + 1)
      /\ \A k \in 1 .. (N + 1) : At(l)[k] = IF k <= Len(s) THEN s[k] ELSE Null
    BY ChainAt
<1>3. Length(Len(s))
    <2>1. Len(s) + 1 \in 1 .. (N + 1) /\ 1 .. Len(s) \subseteq 1 .. (N + 1)
        BY <1>1
    <2> QED
        BY <1>1, <1>2, <2>1
<1>4. ASSUME NEW k \in 0 .. N, Length(k)
      PROVE  k = Len(s)
    <2>1. CASE k < Len(s)
        <3>1. k + 1 \in 1 .. Len(s) /\ k + 1 \in 1 .. (N + 1)
            BY <1>1, <2>1
        <3> QED
            BY <1>1, <1>2, <1>4, <3>1
    <2>2. CASE k > Len(s)
        <3>1. Len(s) + 1 \in 1 .. k /\ Len(s) + 1 \in 1 .. (N + 1) /\ ~ (Len(s) + 1 <= Len(s))
            BY <1>1, <2>2
        <3> QED
            BY <1>2, <1>4, <3>1
    <2> QED
        BY <1>1, <2>1, <2>2
<1>5. (CHOOSE k \in 0 .. N : Length(k)) = Len(s)
    <2> HIDE DEF Length
    <2> QED
        BY <1>1, <1>3, <1>4
<1>6. Walk(l) = [k \in 1 .. Len(s) |-> At(l)[k]]
    BY <1>5 DEF Walk
<1>7. Walk(l) = s
    <2>1. \A k \in 1 .. Len(s) : At(l)[k] = s[k]
        BY <1>1, <1>2
    <2>2. s = [k \in 1 .. Len(s) |-> s[k]]
        BY <1>1
    <2> QED
        BY <1>6, <2>1, <2>2
<1>8. Listed(l) = On(s)
    <2>1. Listed(l) = { At(l)[k] : k \in 1 .. (N + 1) } \ {Null}
        BY <1>2 DEF Listed
    <2>2. \A k \in 1 .. Len(s) : k \in 1 .. (N + 1) /\ At(l)[k] = s[k]
        BY <1>1, <1>2
    <2>3. \A k \in 1 .. (N + 1) : k \in 1 .. Len(s) \/ At(l)[k] = Null
        BY <1>1, <1>2
    <2> QED
        BY <1>1, <2>1, <2>2, <2>3 DEF On
<1> QED
    BY <1>7, <1>8

LEMMA ChainsAreWalks ==
    \A c : Chains(c) => Walks = c /\ \A l \in List : Listed(l) = On(c[l])
<1> SUFFICES ASSUME NEW c, Chains(c)
             PROVE  Walks = c /\ \A l \in List : Listed(l) = On(c[l])
    OBVIOUS
<1>1. c \in [List -> Seq(Node)] /\ \A l \in List : Chain(l, c[l])
    BY DEF Chains
<1>2. \A l \in List : Walk(l) = c[l] /\ Listed(l) = On(c[l])
    BY <1>1, ChainIsWalk
<1> QED
    BY <1>1, <1>2 DEF Walks

LEMMA ChainsAreWalksNext ==
    (\A c : Chains(c) => Walks = c /\ \A l \in List : Listed(l) = On(c[l]))'
BY ChainsAreWalks, PTL

-----------------------------------------------------------------------------
(* What the calls of a list do to its links *)

\* The links that a call on list l, with chain s, leaves alone.
OtherLinks(l, s, n) ==
    /\ \A m \in List : m # l => first'[m] = first[m]
    /\ \A x \in Node : x # n /\ x \notin On(s) => prev'[x] = prev[x] /\ next'[x] = next[x]

LEMMA Appended ==
    ASSUME NEW s \in Seq(Node), NEW n \in Node
    PROVE  LET t == Append(s, n)
           IN  /\ t \in Seq(Node) /\ Len(t) = Len(s) + 1 /\ Len(s) \in Nat
               /\ t[Len(s) + 1] = n
               /\ \A i \in 1 .. Len(s) : t[i] = s[i]
BY AppendProperties

LEMMA RemovedAt ==
    ASSUME NEW S, NEW s \in Seq(S), NEW i \in 1 .. Len(s)
    PROVE  LET t == SubSeq(s, 1, i - 1) \o SubSeq(s, i + 1, Len(s))
           IN  /\ t \in Seq(S) /\ Len(t) = Len(s) - 1 /\ Len(s) \in Nat
               /\ \A j \in 1 .. Len(s) - 1 : t[j] = IF j < i THEN s[j] ELSE s[j + 1]
<1> DEFINE a == SubSeq(s, 1, i - 1)
           b == SubSeq(s, i + 1, Len(s))
<1>1. Len(s) \in Nat /\ i \in Nat /\ \A k \in 1 .. Len(s) : s[k] \in S
    OBVIOUS
<1>2. /\ a \in Seq(S) /\ Len(a) = i - 1
      /\ \A k \in 1 .. i - 1 : a[k] = s[k]
    <2>1. \A k \in 1 .. i - 1 : k \in 1 .. Len(s) /\ 1 + k - 1 = k
        BY <1>1
    <2>2. /\ a \in Seq(S)
          /\ Len(a) = IF 1 <= i - 1 THEN (i - 1) - 1 + 1 ELSE 0
          /\ \A k \in 1 .. (i - 1) - 1 + 1 : a[k] = s[1 + k - 1]
        BY <1>1, <2>1, SubSeqProperties
    <2> QED
        BY <1>1, <2>1, <2>2
<1>3. /\ b \in Seq(S) /\ Len(b) = Len(s) - i
      /\ \A k \in 1 .. Len(s) - i : b[k] = s[i + k]
    <2>1. \A k \in i + 1 .. Len(s) : k \in 1 .. Len(s)
        BY <1>1
    <2>2. /\ b \in Seq(S)
          /\ Len(b) = IF i + 1 <= Len(s) THEN Len(s) - (i + 1) + 1 ELSE 0
          /\ \A k \in 1 .. Len(s) - (i + 1) + 1 : b[k] = s[(i + 1) + k - 1]
        BY <1>1, <2>1, SubSeqProperties
    <2>3. \A k \in 1 .. Len(s) - i : k \in 1 .. Len(s) - (i + 1) + 1 /\ (i + 1) + k - 1 = i + k
        BY <1>1
    <2> QED
        BY <1>1, <2>2, <2>3
<1> HIDE DEF a, b
<1>4. /\ a \o b \in Seq(S) /\ Len(a \o b) = Len(a) + Len(b)
      /\ \A j \in 1 .. Len(a) + Len(b) :
            (a \o b)[j] = IF j <= Len(a) THEN a[j] ELSE b[j - Len(a)]
    BY <1>2, <1>3, ConcatProperties
<1>5. ASSUME NEW j \in 1 .. Len(s) - 1
      PROVE  (a \o b)[j] = IF j < i THEN s[j] ELSE s[j + 1]
    <2>1. (a \o b)[j] = IF j <= i - 1 THEN a[j] ELSE b[j - (i - 1)]
        BY <1>1, <1>2, <1>3, <1>4
    <2>2. CASE j < i
        BY <1>1, <1>2, <2>1, <2>2
    <2>3. CASE ~ (j < i)
        <3>1. j - (i - 1) \in 1 .. Len(s) - i /\ i + (j - (i - 1)) = j + 1 /\ ~ (j <= i - 1)
            BY <1>1, <2>3
        <3> QED
            BY <1>3, <2>1, <2>3, <3>1
    <2> QED
        BY <2>2, <2>3
<1>6. /\ a \o b \in Seq(S) /\ Len(a \o b) = Len(s) - 1 /\ Len(s) \in Nat
      /\ \A j \in 1 .. Len(s) - 1 : (a \o b)[j] = IF j < i THEN s[j] ELSE s[j + 1]
    BY <1>1, <1>2, <1>3, <1>4, <1>5
<1> QED
    BY <1>6, Zenon DEF a, b

LEMMA RemovedNodes ==
    ASSUME NEW S, NEW s \in Seq(S), NEW i \in 1 .. Len(s),
           \A j, k \in 1 .. Len(s) : j # k => s[j] # s[k]
    PROVE  LET t == SubSeq(s, 1, i - 1) \o SubSeq(s, i + 1, Len(s))
           IN  /\ On(t) = On(s) \ {s[i]}
               /\ \A j, k \in 1 .. Len(t) : j # k => t[j] # t[k]
<1> DEFINE t == SubSeq(s, 1, i - 1) \o SubSeq(s, i + 1, Len(s))
           at(j) == IF j < i THEN j ELSE j + 1
<1>a. i \in Nat /\ Len(s) \in Nat /\ i \in 1 .. Len(s)
    OBVIOUS
<1>b. /\ t \in Seq(S) /\ Len(t) = Len(s) - 1
      /\ \A j \in 1 .. Len(s) - 1 : t[j] = IF j < i THEN s[j] ELSE s[j + 1]
    BY RemovedAt
<1> HIDE DEF t
<1>1. /\ t \in Seq(S) /\ Len(t) = Len(s) - 1 /\ Len(s) \in Nat /\ i \in 1 .. Len(s)
      /\ i \in Nat /\ \A j \in 1 .. Len(s) - 1 : t[j] = IF j < i THEN s[j] ELSE s[j + 1]
    BY <1>a, <1>b
<1>2. ASSUME NEW j \in 1 .. Len(t)
      PROVE  at(j) \in 1 .. Len(s) /\ at(j) # i /\ t[j] = s[at(j)]
    <2>1. j \in 1 .. Len(s) - 1 /\ j \in Nat
        BY <1>1
    <2>2. CASE j < i
        BY <1>1, <2>1, <2>2
    <2>3. CASE ~ (j < i)
        <3>1. at(j) = j + 1 /\ j + 1 \in 1 .. Len(s) /\ j + 1 # i
            BY <1>1, <2>1, <2>3
        <3> QED
            BY <1>1, <2>1, <2>3, <3>1
    <2> QED
        BY <2>2, <2>3
<1>3. ASSUME NEW j \in 1 .. Len(t), NEW k \in 1 .. Len(t), j # k
      PROVE  at(j) # at(k)
    <2>1. j \in Nat /\ k \in Nat
        BY <1>1
    <2> QED
        BY <1>1, <1>3, <2>1
<1>4. ASSUME NEW k \in 1 .. Len(s), k # i
      PROVE  \E j \in 1 .. Len(t) : t[j] = s[k]
    <2>1. CASE k < i
        <3>1. k \in 1 .. Len(t) /\ t[k] = s[k]
            BY <1>1, <2>1
        <3> QED
            BY <3>1
    <2>2. CASE k > i
        <3>1. k - 1 \in 1 .. Len(t) /\ ~ (k - 1 < i) /\ (k - 1) + 1 = k
            BY <1>1, <2>2
        <3> QED
            BY <1>1, <3>1
    <2> QED
        BY <1>1, <1>4, <2>1, <2>2
<1> HIDE DEF at
<1>5. \A j, k \in 1 .. Len(t) : j # k => t[j] # t[k]
    BY <1>2, <1>3
<1>6. ASSUME NEW x \in On(t)
      PROVE  x \in On(s) /\ x # s[i]
    <2>1. PICK j \in 1 .. Len(t) : x = t[j]
        BY DEF On
    <2> QED
        BY <1>1, <1>2, <2>1 DEF On
<1>7. ASSUME NEW x \in On(s), x # s[i]
      PROVE  x \in On(t)
    <2>1. PICK k \in 1 .. Len(s) : x = s[k]
        BY DEF On
    <2>2. PICK j \in 1 .. Len(t) : t[j] = s[k]
        BY <1>4, <1>7, <2>1
    <2> QED
        BY <2>1, <2>2 DEF On
<1>8. On(t) = On(s) \ {s[i]}
    BY <1>6, <1>7
<1> QED
    BY <1>5, <1>8, Zenon DEF t

\* push_back makes the node the last of the chain.
LEMMA Pushed ==
    ASSUME LinkTypes, NEW l \in List, NEW s, Chain(l, s),
           NEW n \in Node, n \notin On(s), next[n] = Null, PushBack(l, n)
    PROVE  /\ LinkTypes' /\ OtherLinks(l, s, n)
           /\ Chain(l, Append(s, n))'
<1> DEFINE t == Append(s, n)
<1>1. /\ s \in Seq(Node) /\ Len(s) \in Nat
      /\ \A k \in 1 .. Len(s) : s[k] \in Node /\ s[k] # Null /\ s[k] # n
      /\ \A i, j \in 1 .. Len(s) : i # j => s[i] # s[j]
    <2>1. s \in Seq(Node) /\ \A k \in 1 .. Len(s) : s[k] \in Node /\ s[k] # Null
        BY ChainIsShort
    <2>2. \A i, j \in 1 .. Len(s) : i # j => s[i] # s[j]
        BY DEF Chain
    <2> QED
        BY <2>1, <2>2 DEF On
<1>2. /\ t \in Seq(Node) /\ Len(t) = Len(s) + 1
      /\ t[Len(s) + 1] = n
      /\ \A i \in 1 .. Len(s) : t[i] = s[i]
    BY <1>1, Appended
<1> HIDE DEF t
<1>3. \A i, j \in 1 .. Len(t) : i # j => t[i] # t[j]
    <2>1. \A i \in 1 .. Len(t) : i \in 1 .. Len(s) \/ i = Len(s) + 1
        BY <1>1, <1>2
    <2> QED
        BY <1>1, <1>2, <2>1
<1>4. CASE PushFirst(l, n)
    <2>1. first[l] = Null /\ first' = [first EXCEPT ![l] = n]
          /\ prev' = [prev EXCEPT ![n] = n] /\ next' = next
        BY <1>4 DEF PushFirst
    <2>2. Len(s) = 0
        <3>1. 1 \in 1 .. Len(s) \/ Len(s) = 0
            BY <1>1
        <3> QED
            BY <1>1, <2>1, <3>1 DEF Chain
    <2>3. LinkTypes' /\ OtherLinks(l, s, n)
        BY <2>1 DEF LinkTypes, OtherLinks, Pointer
    <2>4. Chain(l, t)'
        <3>1. Len(t) = 1 /\ t[1] = n
            BY <1>2, <2>2
        <3>2. first'[l] = n /\ prev'[n] = n /\ next'[n] = Null
            BY <2>1 DEF LinkTypes
        <3>3. \A i \in 1 .. Len(t) - 1 : FALSE
            BY <3>1
        <3> QED
            BY <1>2, <1>3, <3>1, <3>2, <3>3 DEF Chain
    <2> QED
        BY <2>3, <2>4 DEF t
<1>5. CASE PushLast(l, n)
    <2> DEFINE z == s[Len(s)]
    <2>1. Len(s) # 0
        BY <1>5 DEF PushLast, Chain
    <2>2. 1 \in 1 .. Len(s) /\ Len(s) \in 1 .. Len(s)
        BY <1>1, <2>1
    <2>3. first[l] = s[1] /\ prev[s[1]] = z /\ z \in Node /\ s[1] \in Node /\ n # z /\ n # s[1]
        BY <1>1, <2>1, <2>2 DEF Chain
    <2>4. /\ next' = [next EXCEPT ![z] = n]
          /\ prev' = [prev EXCEPT ![n] = z, ![s[1]] = n]
          /\ first' = first
        BY <1>5, <2>3 DEF PushLast
    <2>5. z \in On(s) /\ s[1] \in On(s)
        BY <2>2 DEF On
    <2>6. LinkTypes'
        BY <2>3, <2>4 DEF LinkTypes, Pointer
    <2>7. OtherLinks(l, s, n)
        BY <2>4, <2>5 DEF LinkTypes, OtherLinks
    <2>8. /\ first'[l] = s[1] /\ prev'[s[1]] = n /\ prev'[n] = z
          /\ next'[z] = n /\ next'[n] = Null
          /\ \A x \in Node : x # n /\ x # s[1] => prev'[x] = prev[x]
          /\ \A x \in Node : x # z => next'[x] = next[x]
        BY <2>3, <2>4 DEF LinkTypes
    <2>9. ASSUME NEW i \in 1 .. Len(t) - 1
          PROVE  next'[t[i]] = t[i + 1] /\ prev'[t[i + 1]] = t[i]
        <3>1. CASE i = Len(s)
            BY <1>2, <2>2, <2>8, <3>1
        <3>2. CASE i # Len(s)
            <4>1. i \in 1 .. Len(s) - 1 /\ i \in 1 .. Len(s) /\ i + 1 \in 1 .. Len(s) /\ i + 1 # 1
                BY <1>1, <1>2, <3>2
            <4>2. next[s[i]] = s[i + 1] /\ prev[s[i + 1]] = s[i]
                BY <4>1 DEF Chain
            <4>3. s[i] # z /\ s[i + 1] # s[1] /\ s[i + 1] # n /\ s[i] \in Node /\ s[i + 1] \in Node
                BY <1>1, <2>2, <3>2, <4>1
            <4>4. next'[s[i]] = s[i + 1] /\ prev'[s[i + 1]] = s[i]
                BY <2>8, <4>2, <4>3
            <4> QED
                BY <1>2, <4>1, <4>4
        <3> QED
            BY <3>1, <3>2
    <2>10. Chain(l, t)'
        <3>1. Len(t) # 0 /\ t[1] = s[1] /\ t[Len(t)] = n
            BY <1>1, <1>2, <2>2
        <3> QED
            BY <1>2, <1>3, <2>8, <2>9, <3>1 DEF Chain
    <2> QED
        BY <2>6, <2>7, <2>10 DEF t
<1> QED
    BY <1>4, <1>5 DEF PushBack

\* remove takes the node out of the chain, wherever it is, and clears its links.
LEMMA Removed ==
    ASSUME LinkTypes, NEW l \in List, NEW s, Chain(l, s),
           NEW i \in 1 .. Len(s), NEW n, n = s[i], Remove(l, n)
    PROVE  /\ LinkTypes' /\ OtherLinks(l, s, n)
           /\ Chain(l, SubSeq(s, 1, i - 1) \o SubSeq(s, i + 1, Len(s)))'
           /\ prev'[n] = Null /\ next'[n] = Null
<1> DEFINE t == SubSeq(s, 1, i - 1) \o SubSeq(s, i + 1, Len(s))
           z == Len(s)
<1>1. /\ s \in Seq(Node) /\ z \in Nat
      /\ \A k \in 1 .. z : s[k] \in Node /\ s[k] # Null
      /\ \A k, j \in 1 .. z : k # j => s[k] # s[j]
    <2>1. \A k, j \in 1 .. z : k # j => s[k] # s[j]
        BY DEF Chain
    <2> QED
        BY <2>1, ChainIsShort
<1>2. /\ t \in Seq(Node) /\ Len(t) = z - 1
      /\ \A j \in 1 .. z - 1 : t[j] = IF j < i THEN s[j] ELSE s[j + 1]
    BY <1>1, RemovedAt
<1>3. /\ z # 0 /\ 1 \in 1 .. z /\ z \in 1 .. z
      /\ n \in Node /\ s[1] \in Node /\ s[z] \in Node
    BY <1>1
<1>4. /\ first[l] = s[1] /\ prev[s[1]] = s[z] /\ next[s[z]] = Null
      /\ \A k \in 1 .. z - 1 : next[s[k]] = s[k + 1] /\ prev[s[k + 1]] = s[k]
    BY <1>3 DEF Chain
<1> HIDE DEF t, z
<1>5. \A j, k \in 1 .. Len(t) : j # k => t[j] # t[k]
    <2> SUFFICES ASSUME NEW j \in 1 .. Len(t), NEW k \in 1 .. Len(t), j # k
                 PROVE  t[j] # t[k]
        OBVIOUS
    <2> DEFINE at(m) == IF m < i THEN m ELSE m + 1
    <2>1. j \in 1 .. z - 1 /\ k \in 1 .. z - 1
        BY <1>2
    <2>2. at(j) \in 1 .. z /\ at(k) \in 1 .. z /\ at(j) # at(k)
        BY <1>1, <2>1 DEF z
    <2>3. t[j] = s[at(j)] /\ t[k] = s[at(k)]
        BY <1>2, <2>1
    <2> HIDE DEF at
    <2> QED
        BY <1>1, <2>2, <2>3
\* The links of the chain that is left.
<1>6. ASSUME z = 1
      PROVE  LinkTypes' /\ OtherLinks(l, s, n) /\ Chain(l, t)'
             /\ prev'[n] = Null /\ next'[n] = Null
    <2>1. n = s[1] /\ n = s[z] /\ Len(t) = 0
        BY <1>2, <1>6 DEF z
    <2>2. /\ first' = [first EXCEPT ![l] = Null]
          /\ prev' = [prev EXCEPT ![n] = Null]
          /\ next' = [next EXCEPT ![n] = Null]
        BY <1>4, <2>1 DEF Remove, RemoveLast, RemoveFirst, RemoveInner, IsInner
    <2>3. LinkTypes' /\ OtherLinks(l, s, n) /\ prev'[n] = Null /\ next'[n] = Null
        BY <1>3, <2>2 DEF LinkTypes, OtherLinks, Pointer
    <2>4. first'[l] = Null
        BY <2>2 DEF LinkTypes
    <2>5. \A k \in 1 .. Len(t) - 1 : FALSE
        BY <2>1
    <2> QED
        BY <1>2, <1>5, <2>1, <2>3, <2>4, <2>5 DEF Chain
<1>7. ASSUME z # 1, i = z
      PROVE  LinkTypes' /\ OtherLinks(l, s, n) /\ Chain(l, t)'
             /\ prev'[n] = Null /\ next'[n] = Null
    <2> DEFINE y == s[z - 1]
    <2>1. /\ z - 1 \in 1 .. z - 1 /\ z - 1 \in 1 .. z /\ (z - 1) + 1 = z
          /\ n = s[z] /\ n # s[1]
        BY <1>1, <1>3, <1>7
    <2>2. prev[n] = y /\ y \in Node /\ y # n
        BY <1>1, <1>3, <1>4, <2>1
    <2>3. /\ first' = first
          /\ prev' = [prev EXCEPT ![n] = Null, ![s[1]] = y]
          /\ next' = [next EXCEPT ![n] = Null, ![y] = Null]
        BY <1>4, <2>1, <2>2 DEF Remove, RemoveLast, RemoveFirst, RemoveInner, IsInner
    <2>4. s[1] \in On(s) /\ y \in On(s)
        BY <1>3, <2>1 DEF On, z
    <2>5. LinkTypes' /\ OtherLinks(l, s, n)
        BY <1>3, <2>2, <2>3, <2>4 DEF LinkTypes, OtherLinks, Pointer
    <2>6. /\ first'[l] = s[1] /\ prev'[s[1]] = y /\ next'[y] = Null
          /\ prev'[n] = Null /\ next'[n] = Null
          /\ \A x \in Node : x # n /\ x # s[1] => prev'[x] = prev[x]
          /\ \A x \in Node : x # n /\ x # y => next'[x] = next[x]
        BY <1>3, <1>4, <2>1, <2>2, <2>3 DEF LinkTypes
    <2>7. \A j \in 1 .. z - 1 : t[j] = s[j]
        BY <1>1, <1>2, <1>7
    <2>8. ASSUME NEW k \in 1 .. Len(t) - 1
          PROVE  next'[t[k]] = t[k + 1] /\ prev'[t[k + 1]] = t[k]
        <3>1. /\ k \in 1 .. z - 1 /\ k + 1 \in 1 .. z - 1 /\ k \in 1 .. z /\ k + 1 \in 1 .. z
              /\ k # z - 1 /\ k + 1 # 1 /\ k # z /\ k + 1 # z
            BY <1>1, <1>2
        <3>2. /\ s[k] \in Node /\ s[k + 1] \in Node
              /\ s[k] # n /\ s[k] # y /\ s[k + 1] # n /\ s[k + 1] # s[1]
            BY <1>1, <1>3, <2>1, <3>1
        <3> QED
            BY <1>4, <2>6, <2>7, <3>1, <3>2
    <2>9. Len(t) # 0 /\ t[1] = s[1] /\ t[Len(t)] = y
        BY <1>1, <1>2, <1>3, <1>7, <2>1, <2>7
    <2> QED
        BY <1>2, <1>5, <2>5, <2>6, <2>8, <2>9 DEF Chain
<1>8. ASSUME z # 1, i = 1
      PROVE  LinkTypes' /\ OtherLinks(l, s, n) /\ Chain(l, t)'
             /\ prev'[n] = Null /\ next'[n] = Null
    <2> DEFINE y == s[2]
    <2>1. /\ 1 \in 1 .. z - 1 /\ 2 \in 1 .. z /\ 1 + 1 = 2
          /\ n = s[1] /\ n # s[z]
        BY <1>1, <1>3, <1>8
    <2>2. prev[n] = s[z] /\ next[n] = y /\ y \in Node /\ y # n
        BY <1>1, <1>3, <1>4, <2>1
    <2>3. /\ first' = [first EXCEPT ![l] = y]
          /\ prev' = [prev EXCEPT ![n] = Null, ![y] = s[z]]
          /\ next' = [next EXCEPT ![n] = Null]
        BY <1>4, <2>1, <2>2 DEF Remove, RemoveLast, RemoveFirst, RemoveInner, IsInner
    <2>4. y \in On(s)
        BY <1>3, <2>1 DEF On, z
    <2>5. LinkTypes' /\ OtherLinks(l, s, n)
        BY <1>3, <2>2, <2>3, <2>4 DEF LinkTypes, OtherLinks, Pointer
    <2>6. /\ first'[l] = y /\ prev'[y] = s[z]
          /\ prev'[n] = Null /\ next'[n] = Null
          /\ \A x \in Node : x # n /\ x # y => prev'[x] = prev[x]
          /\ \A x \in Node : x # n => next'[x] = next[x]
        BY <1>3, <2>2, <2>3 DEF LinkTypes
    <2>7. \A j \in 1 .. z - 1 : t[j] = s[j + 1]
        BY <1>1, <1>2, <1>8
    <2>8. ASSUME NEW k \in 1 .. Len(t) - 1
          PROVE  next'[t[k]] = t[k + 1] /\ prev'[t[k + 1]] = t[k]
        <3>1. /\ k \in 1 .. z - 1 /\ k + 1 \in 1 .. z - 1 /\ k + 1 \in 1 .. z
              /\ (k + 1) + 1 \in 1 .. z
              /\ k + 1 # 1 /\ (k + 1) + 1 # 1 /\ (k + 1) + 1 # 2
            BY <1>1, <1>2
        <3>2. /\ s[k + 1] \in Node /\ s[(k + 1) + 1] \in Node
              /\ s[k + 1] # n /\ s[(k + 1) + 1] # n /\ s[(k + 1) + 1] # y
            BY <1>1, <1>3, <2>1, <3>1
        <3> QED
            BY <1>4, <2>6, <2>7, <3>1, <3>2
    <2>9. Len(t) # 0 /\ t[1] = y /\ t[Len(t)] = s[z]
        <3>1. 1 \in 1 .. z - 1 /\ z - 1 \in 1 .. z - 1 /\ 1 + 1 = 2 /\ (z - 1) + 1 = z
            BY <1>1, <1>3, <1>8
        <3> QED
            BY <1>2, <2>7, <3>1
    <2>10. next'[s[z]] = Null
        BY <1>3, <1>4, <2>1, <2>6
    <2> QED
        BY <1>2, <1>5, <2>5, <2>6, <2>8, <2>9, <2>10 DEF Chain
<1>9. ASSUME i # z, i # 1
      PROVE  LinkTypes' /\ OtherLinks(l, s, n) /\ Chain(l, t)'
             /\ prev'[n] = Null /\ next'[n] = Null
    <2> DEFINE x0 == s[i - 1]
               y0 == s[i + 1]
    <2>1. /\ i - 1 \in 1 .. z - 1 /\ i - 1 \in 1 .. z /\ (i - 1) + 1 = i
          /\ i \in 1 .. z - 1 /\ i \in 1 .. z /\ i + 1 \in 1 .. z /\ i + 1 # 1
          /\ i - 1 # z /\ i - 1 # i + 1 /\ i - 1 # i /\ i + 1 # i
        BY <1>1, <1>9 DEF z
    <2>2. /\ prev[n] = x0 /\ next[n] = y0 /\ x0 \in Node /\ y0 \in Node
          /\ x0 # n /\ y0 # n /\ y0 # s[1] /\ x0 # s[z] /\ n # s[1] /\ n # s[z]
        BY <1>1, <1>3, <1>4, <1>9, <2>1
    <2>3. /\ first' = first
          /\ prev' = [prev EXCEPT ![n] = Null, ![y0] = x0]
          /\ next' = [next EXCEPT ![n] = Null, ![x0] = y0]
        BY <1>4, <2>2 DEF Remove, RemoveLast, RemoveFirst, RemoveInner, IsInner
    <2>4. x0 \in On(s) /\ y0 \in On(s)
        BY <2>1 DEF On, z
    <2>5. LinkTypes' /\ OtherLinks(l, s, n)
        BY <1>3, <2>2, <2>3, <2>4 DEF LinkTypes, OtherLinks, Pointer
    <2>6. /\ first'[l] = s[1] /\ prev'[y0] = x0 /\ next'[x0] = y0
          /\ prev'[n] = Null /\ next'[n] = Null
          /\ \A x \in Node : x # n /\ x # y0 => prev'[x] = prev[x]
          /\ \A x \in Node : x # n /\ x # x0 => next'[x] = next[x]
        BY <1>3, <1>4, <2>2, <2>3 DEF LinkTypes
    <2>7. ASSUME NEW k \in 1 .. Len(t) - 1
          PROVE  next'[t[k]] = t[k + 1] /\ prev'[t[k + 1]] = t[k]
        <3>1. k \in 1 .. z - 1 /\ k + 1 \in 1 .. z - 1
            BY <1>1, <1>2
        <3>2. CASE k = i - 1
            <4>1. t[k] = x0 /\ t[k + 1] = y0
                BY <1>1, <1>2, <3>1, <3>2
            <4> QED
                BY <2>6, <4>1
        <3>3. CASE k < i - 1
            <4>1. t[k] = s[k] /\ t[k + 1] = s[k + 1]
                BY <1>1, <1>2, <2>1, <3>1, <3>3
            <4>2. /\ k \in 1 .. z /\ k + 1 \in 1 .. z /\ k # i /\ k + 1 # i
                  /\ k # i - 1 /\ k + 1 # i + 1
                BY <1>1, <3>1, <3>3
            <4>3. /\ s[k] \in Node /\ s[k + 1] \in Node
                  /\ s[k] # n /\ s[k] # x0 /\ s[k + 1] # n /\ s[k + 1] # y0
                BY <1>1, <2>1, <4>2
            <4> QED
                BY <1>4, <2>6, <3>1, <4>1, <4>3
        <3>4. CASE k > i - 1
            <4>1. t[k] = s[k + 1] /\ t[k + 1] = s[(k + 1) + 1]
                BY <1>1, <1>2, <2>1, <3>1, <3>4
            <4>2. /\ k + 1 \in 1 .. z /\ (k + 1) + 1 \in 1 .. z /\ k + 1 # i /\ (k + 1) + 1 # i
                  /\ k + 1 # i - 1 /\ (k + 1) + 1 # i + 1
                BY <1>1, <3>1, <3>4
            <4>3. /\ s[k + 1] \in Node /\ s[(k + 1) + 1] \in Node
                  /\ s[k + 1] # n /\ s[k + 1] # x0
                  /\ s[(k + 1) + 1] # n /\ s[(k + 1) + 1] # y0
                BY <1>1, <2>1, <4>2
            <4> QED
                BY <1>4, <2>6, <3>1, <4>1, <4>3
        <3> QED
            BY <2>1, <3>1, <3>2, <3>3, <3>4
    <2>8. Len(t) # 0 /\ t[1] = s[1] /\ t[Len(t)] = s[z]
        <3>1. /\ 1 \in 1 .. z - 1 /\ z - 1 \in 1 .. z - 1 /\ 1 < i /\ ~ (z - 1 < i)
              /\ (z - 1) + 1 = z /\ z - 1 # 0
            BY <1>1, <1>3, <1>9, <2>1 DEF z
        <3> QED
            BY <1>2, <3>1
    <2>9. prev'[s[1]] = s[z] /\ next'[s[z]] = Null
        BY <1>3, <1>4, <2>2, <2>6
    <2> QED
        BY <1>2, <1>5, <2>5, <2>6, <2>7, <2>8, <2>9 DEF Chain
<1>10. z = 1 => i = z
    BY DEF z
<1> QED
    BY <1>6, <1>7, <1>8, <1>9, <1>10 DEF t

\* clear unlinks the nodes of the chain.
LEMMA Cleared ==
    ASSUME LinkTypes, NEW l \in List, NEW s, Chain(l, s), Clear(l)
    PROVE  /\ LinkTypes'
           /\ \A m \in List : m # l => first'[m] = first[m]
           /\ \A x \in Node : IF x \in On(s) THEN prev'[x] = Null /\ next'[x] = Null
                              ELSE prev'[x] = prev[x] /\ next'[x] = next[x]
           /\ Chain(l, <<>>)'
<1>1. Listed(l) = On(s)
    BY ChainIsWalk
<1>2. /\ first' = [first EXCEPT ![l] = Null]
      /\ prev' = [n \in Node |-> IF n \in On(s) THEN Null ELSE prev[n]]
      /\ next' = [n \in Node |-> IF n \in On(s) THEN Null ELSE next[n]]
    BY <1>1 DEF Clear
<1>3. LinkTypes'
    BY <1>2 DEF LinkTypes, Pointer
<1>4. first'[l] = Null /\ \A m \in List : m # l => first'[m] = first[m]
    BY <1>2 DEF LinkTypes
<1>5. Chain(l, <<>>)'
    BY <1>4 DEF Chain
<1> QED
    BY <1>2, <1>3, <1>4, <1>5

\* A call on a list that leaves the links of the others' nodes alone, and those
\* of the nodes that it takes off null, changes only that list's chain.
LEMMA Rechained ==
    ASSUME NEW c, Chains(c), NEW l \in List, NEW t, Chain(l, t)',
           \A m \in List : m # l => first'[m] = first[m],
           \A x \in Node : x \notin On(c[l]) /\ x \notin On(t) =>
               prev'[x] = prev[x] /\ next'[x] = next[x],
           \A x \in On(c[l]) : x \notin On(t) => prev'[x] = Null /\ next'[x] = Null,
           \A m \in List : m # l => On(c[m]) \cap On(t) = {}
    PROVE  Chains([c EXCEPT ![l] = t])'
<1> DEFINE d == [c EXCEPT ![l] = t]
<1>1. c \in [List -> Seq(Node)] /\ t \in Seq(Node)
    BY DEF Chains, Chain
<1>2. /\ d \in [List -> Seq(Node)] /\ d[l] = t
      /\ \A m \in List : m # l => d[m] = c[m]
    BY <1>1
<1> HIDE DEF d
<1>3. ASSUME NEW m \in List, m # l
      PROVE  Chain(m, c[m])'
    <2> DEFINE s == c[m]
    <2>1. Chain(m, s) /\ first'[m] = first[m]
        BY <1>3 DEF Chains
    <2>2. s \in Seq(Node) /\ Len(s) \in Nat /\ \A k \in 1 .. Len(s) : s[k] \in Node
        BY <2>1, ChainIsShort
    <2>3. On(s) \cap On(c[l]) = {} /\ On(s) \cap On(t) = {}
        BY <1>3 DEF Chains
    <2> HIDE DEF s
    <2>4. \A k \in 1 .. Len(s) : prev'[s[k]] = prev[s[k]] /\ next'[s[k]] = next[s[k]]
        BY <2>2, <2>3 DEF On
    <2>5. IF Len(s) = 0 THEN first'[m] = Null
          ELSE first'[m] = s[1] /\ prev'[s[1]] = s[Len(s)] /\ next'[s[Len(s)]] = Null
        <3>1. Len(s) # 0 => 1 \in 1 .. Len(s) /\ Len(s) \in 1 .. Len(s)
            BY <2>2
        <3> QED
            BY <2>1, <2>4, <3>1 DEF Chain
    <2>6. \A k \in 1 .. Len(s) - 1 : next'[s[k]] = s[k + 1] /\ prev'[s[k + 1]] = s[k]
        <3>1. \A k \in 1 .. Len(s) - 1 : k \in 1 .. Len(s) /\ k + 1 \in 1 .. Len(s)
            BY <2>2
        <3> QED
            BY <2>1, <2>4, <3>1 DEF Chain
    <2>7. \A j, k \in 1 .. Len(s) : j # k => s[j] # s[k]
        BY <2>1 DEF Chain
    <2>8. Chain(m, s)'
        BY <2>2, <2>5, <2>6, <2>7 DEF Chain
    <2> QED
        BY <2>8 DEF s
<1>4. ASSUME NEW m \in List
      PROVE  Chain(m, d[m])'
    BY <1>2, <1>3, <1>4
<1>5. \A j, m \in List : j # m => On(d[j]) \cap On(d[m]) = {}
    <2>1. \A j, m \in List : j # m => On(c[j]) \cap On(c[m]) = {}
        BY DEF Chains
    <2> QED
        BY <1>2, <2>1
<1>6. ASSUME NEW n \in Node, \A m \in List : n \notin On(d[m])
      PROVE  prev'[n] = Null /\ next'[n] = Null
    <2>1. n \notin On(t)
        BY <1>2, <1>6
    <2>2. CASE n \in On(c[l])
        BY <2>1, <2>2
    <2>3. CASE n \notin On(c[l])
        <3>1. \A m \in List : n \notin On(c[m])
            BY <1>2, <1>6, <2>3
        <3> QED
            BY <2>1, <2>3, <3>1 DEF Chains
    <2> QED
        BY <2>2, <2>3
<1>7. Chains(d)'
    BY <1>2, <1>4, <1>5, <1>6 DEF Chains
<1> QED
    BY <1>7 DEF d

LEMMA ChainsInv ==
    ASSUME NEW d, LinkTypes', Chains(d)'
    PROVE  ListInv' /\ Walks' = d /\ \A m \in List : Listed(m)' = On(d[m])
<1>1. Walks' = d /\ \A m \in List : Listed(m)' = On(d[m])
    BY ChainsAreWalksNext
<1> QED
    BY <1>1 DEF ListInv

\* The calls, as the iterators see them.
LEMMA PushBackAppends ==
    ASSUME ListInv, NEW c, c = Walks, NEW l \in List, NEW n \in Node,
           \A m \in List : n \notin Listed(m), PushBack(l, n)
    PROVE  /\ ListInv' /\ Walks' = [c EXCEPT ![l] = Append(c[l], n)]
           /\ Listed(l)' = Listed(l) \cup {n}
           /\ \A m \in List : m # l => Listed(m)' = Listed(m)
<1> DEFINE s == c[l]
           t == Append(s, n)
           d == [c EXCEPT ![l] = t]
<1>1. LinkTypes /\ Chains(c) /\ Chain(l, s) /\ c \in [List -> Seq(Node)]
    BY DEF ListInv, Chains
<1>2. \A m \in List : Listed(m) = On(c[m]) /\ n \notin On(c[m])
    BY <1>1, ChainsAreWalks
<1>3. next[n] = Null
    BY <1>1, <1>2 DEF Chains
<1>4. LinkTypes' /\ OtherLinks(l, s, n) /\ Chain(l, t)'
    BY <1>1, <1>2, <1>3, Pushed
<1>5. On(t) = On(s) \cup {n}
    <2>1. /\ t \in Seq(Node) /\ Len(t) = Len(s) + 1 /\ Len(s) \in Nat
          /\ t[Len(s) + 1] = n /\ \A i \in 1 .. Len(s) : t[i] = s[i]
        BY <1>1, Appended
    <2> HIDE DEF s, t
    <2>2. 1 .. Len(t) = (1 .. Len(s)) \cup {Len(s) + 1}
        BY <2>1
    <2> QED
        BY <2>1, <2>2 DEF On
<1> HIDE DEF s, t
<1>6. Chains(d)'
    <2>1. \A m \in List : m # l => On(c[m]) \cap On(c[l]) = {}
        BY <1>1 DEF Chains
    <2>2. \A m \in List : m # l => On(c[m]) \cap On(t) = {}
        BY <1>2, <1>5, <2>1 DEF s
    <2>3. /\ \A x \in Node : x \notin On(c[l]) /\ x \notin On(t) =>
                prev'[x] = prev[x] /\ next'[x] = next[x]
          /\ \A m \in List : m # l => first'[m] = first[m]
        BY <1>4, <1>5 DEF OtherLinks, s
    <2>4. \A x \in On(c[l]) : x \in On(t)
        BY <1>5 DEF s
    <2> QED
        BY <1>1, <1>4, <2>2, <2>3, <2>4, Rechained
<1>7. d[l] = t /\ \A m \in List : m # l => d[m] = c[m]
    BY <1>1
<1> HIDE DEF d
<1>8. ListInv' /\ Walks' = d /\ \A m \in List : Listed(m)' = On(d[m])
    BY <1>4, <1>6, ChainsInv
<1>9. Walks' = [c EXCEPT ![l] = Append(c[l], n)]
    BY <1>8, Zenon DEF d, t, s
<1> QED
    BY <1>2, <1>5, <1>7, <1>8, <1>9 DEF s

LEMMA RemoveTakesOff ==
    ASSUME ListInv, NEW c, c = Walks, NEW l \in List, NEW i \in 1 .. Len(c[l]),
           NEW n, n = c[l][i], Remove(l, n)
    PROVE  /\ ListInv'
           /\ Walks' = [c EXCEPT ![l] = SubSeq(c[l], 1, i - 1)
                                        \o SubSeq(c[l], i + 1, Len(c[l]))]
           /\ Listed(l)' = Listed(l) \ {n}
           /\ \A m \in List : m # l => Listed(m)' = Listed(m)
<1> DEFINE s == c[l]
           t == SubSeq(s, 1, i - 1) \o SubSeq(s, i + 1, Len(s))
           d == [c EXCEPT ![l] = t]
<1>1. LinkTypes /\ Chains(c) /\ Chain(l, s) /\ c \in [List -> Seq(Node)]
    BY DEF ListInv, Chains
<1>2. \A m \in List : Listed(m) = On(c[m])
    BY <1>1, ChainsAreWalks
<1>3. /\ i \in 1 .. Len(s) /\ n = s[i] /\ n \in On(s) /\ s \in Seq(Node)
      /\ \A j, k \in 1 .. Len(s) : j # k => s[j] # s[k]
    BY <1>1 DEF On, Chain
<1> HIDE DEF s
<1>4. LinkTypes' /\ OtherLinks(l, s, n) /\ Chain(l, t)' /\ prev'[n] = Null /\ next'[n] = Null
    BY <1>1, <1>3, Removed
<1>5. On(t) = On(s) \ {n}
    BY <1>3, RemovedNodes
<1> HIDE DEF t
<1>6. Chains(d)'
    <2>1. \A m \in List : m # l => On(c[m]) \cap On(c[l]) = {}
        BY <1>1 DEF Chains
    <2>2. \A m \in List : m # l => On(c[m]) \cap On(t) = {}
        BY <1>5, <2>1 DEF s
    <2>3. /\ \A x \in Node : x \notin On(c[l]) /\ x \notin On(t) =>
                prev'[x] = prev[x] /\ next'[x] = next[x]
          /\ \A m \in List : m # l => first'[m] = first[m]
        BY <1>3, <1>4 DEF OtherLinks, s
    <2>4. \A x \in On(c[l]) : x \notin On(t) => prev'[x] = Null /\ next'[x] = Null
        BY <1>4, <1>5 DEF s
    <2> QED
        BY <1>1, <1>4, <2>2, <2>3, <2>4, Rechained
<1>7. d[l] = t /\ \A m \in List : m # l => d[m] = c[m]
    BY <1>1
<1> HIDE DEF d
<1>8. ListInv' /\ Walks' = d /\ \A m \in List : Listed(m)' = On(d[m])
    BY <1>4, <1>6, ChainsInv
<1>9. Walks' = [c EXCEPT ![l] = SubSeq(c[l], 1, i - 1) \o SubSeq(c[l], i + 1, Len(c[l]))]
    BY <1>8, Zenon DEF d, t, s
<1> QED
    BY <1>2, <1>5, <1>7, <1>8, <1>9 DEF s

LEMMA ClearEmpties ==
    ASSUME ListInv, NEW c, c = Walks, NEW l \in List, Clear(l)
    PROVE  /\ ListInv' /\ Walks' = [c EXCEPT ![l] = <<>>]
           /\ Listed(l)' = {}
           /\ \A m \in List : m # l => Listed(m)' = Listed(m)
<1> DEFINE d == [c EXCEPT ![l] = <<>>]
<1>1. LinkTypes /\ Chains(c) /\ Chain(l, c[l]) /\ c \in [List -> Seq(Node)]
    BY DEF ListInv, Chains
<1>2. \A m \in List : Listed(m) = On(c[m])
    BY <1>1, ChainsAreWalks
<1>3. /\ LinkTypes'
      /\ \A m \in List : m # l => first'[m] = first[m]
      /\ \A x \in Node : IF x \in On(c[l]) THEN prev'[x] = Null /\ next'[x] = Null
                         ELSE prev'[x] = prev[x] /\ next'[x] = next[x]
      /\ Chain(l, <<>>)'
    BY <1>1, Cleared
<1>4. On(<<>>) = {}
    BY DEF On
<1>5. On(c[l]) \subseteq Node
    BY <1>1 DEF On
<1>6. Chains(d)'
    BY <1>1, <1>3, <1>4, <1>5, Rechained
<1>7. d[l] = <<>> /\ \A m \in List : m # l => d[m] = c[m]
    BY <1>1
<1> HIDE DEF d
<1>8. ListInv' /\ Walks' = d /\ \A m \in List : Listed(m)' = On(d[m])
    BY <1>3, <1>6, ChainsInv
<1>9. Walks' = [c EXCEPT ![l] = <<>>]
    BY <1>8, Zenon DEF d
<1> QED
    BY <1>2, <1>4, <1>7, <1>8, <1>9

-----------------------------------------------------------------------------
(* The invariant of the program *)

\* A registrar is on its list exactly while it is alive, and on no other; a node
\* of the program's own is on no list but the program's own.
HomesInv ==
    /\ \A n \in Registrar : n \in Alive => n \in Listed(HomeOf(n))
    /\ \A l \in List : \A n \in Listed(l) :
          IF n \in Registrar THEN n \in Alive /\ l = HomeOf(n) ELSE l = own

BuiltInv ==
    /\ built \in Seq(Registrar)
    /\ \A i, j \in 1 .. Len(built) : i # j => built[i] # built[j]
    /\ method \in [Overrider -> Method \cup {Null}]
    /\ \A o \in Overrider : o \in Alive => method[o] = MethodOf[o]

\* The units in memory have the units they need; an object is alive only while
\* its unit is in memory, and all those of the other units than the one that is
\* loading or unloading are.
UnitInv ==
    /\ mapped \in SUBSET Unit /\ unit \in Unit
    /\ phase \in {"idle", "loading", "unloading", "exiting"}
    /\ \A u \in mapped : Needs[u] \subseteq mapped
    /\ \A n \in Registrar : n \in Alive => UnitOf[n] \in mapped
    /\ phase \in {"loading", "unloading"} => unit \in mapped
    /\ phase = "unloading" => \A u \in mapped : unit \notin Needs[u]
    /\ phase # "exiting" => \A n \in Registrar :
          UnitOf[n] \in mapped /\ (phase # "idle" => UnitOf[n] # unit) => n \in Alive

RegistrarsInv == ListInv /\ HomesInv /\ BuiltInv /\ UnitInv
-----------------------------------------------------------------------------
(* Every step keeps the invariant *)

LEMMA Homes ==
    /\ \A n \in Registrar : HomeOf(n) \in List /\ HomeOf(n) # own /\ n \in Node
    /\ \A n \in ClassInfo : HomeOf(n) = classes
    /\ \A n \in Method : HomeOf(n) = methods
    /\ \A n \in Overrider : HomeOf(n) = MethodOf[n]
<1>1. \A n \in ClassInfo : HomeOf(n) = classes
    BY ObjectsAssumption DEF HomeOf
<1>2. \A n \in Method : HomeOf(n) = methods
    BY ObjectsAssumption DEF HomeOf
<1>3. \A n \in Overrider : HomeOf(n) = MethodOf[n]
    BY ObjectsAssumption DEF HomeOf
<1>4. \A o \in Overrider : MethodOf[o] \in Method
    BY UnitsAssumption
<1>5. \A m \in Method : m \in Node /\ m # own
    BY ListsAssumption, ObjectsAssumption DEF Registrar
<1>6. ASSUME NEW n \in Registrar
      PROVE  HomeOf(n) \in List /\ HomeOf(n) # own /\ n \in Node
    <2>1. n \in Node
        BY ListsAssumption
    <2> QED
        BY <1>1, <1>2, <1>3, <1>4, <1>5, <2>1, ListsAssumption, ObjectsAssumption
           DEF Registrar
<1> QED
    BY <1>1, <1>2, <1>3, <1>6

LEMMA AliveIsOn ==
    ASSUME BuiltInv
    PROVE  Alive = On(built) /\ DOMAIN built = 1 .. Len(built) /\ Len(built) \in Nat
BY DEF BuiltInv, Alive, On

LEMMA ListsStay ==
    ASSUME ListInv, UNCHANGED listVars
    PROVE  ListInv' /\ Walks' = Walks /\ \A l \in List : Listed(l)' = Listed(l)
<1>1. PICK c : c = Walks
    OBVIOUS
<1>2. Chains(c) /\ LinkTypes
    BY <1>1 DEF ListInv
<1>3. Chains(c)' /\ LinkTypes'
    BY <1>2 DEF Chains, Chain, LinkTypes, listVars
<1>4. \A l \in List : Listed(l) = On(c[l])
    BY <1>2, ChainsAreWalks
<1>5. ListInv' /\ Walks' = c /\ \A l \in List : Listed(l)' = On(c[l])
    BY <1>3, ChainsInv
<1> QED
    BY <1>1, <1>4, <1>5

\* What the links of the nodes say of the lists.
LEMMA LinksOfLists ==
    ASSUME ListInv
    PROVE  /\ \A l \in List : Listed(l) \subseteq Node
           /\ \A l, m \in List : l # m => Listed(l) \cap Listed(m) = {}
           /\ \A l \in List : first[l] = Null <=> Listed(l) = {}
           /\ \A l \in List : first[l] # Null => prev[first[l]] \in Node
           /\ \A l \in List : \A n \in Listed(l) : prev[n] # Null
           /\ \A n \in Node : (\A l \in List : n \notin Listed(l)) =>
                 prev[n] = Null /\ next[n] = Null
<1>1. PICK c : c = Walks
    OBVIOUS
<1>2. Chains(c)
    BY <1>1 DEF ListInv
<1>3. \A l \in List : Listed(l) = On(c[l])
    BY <1>2, ChainsAreWalks
<1>4. ASSUME NEW l \in List
      PROVE  /\ On(c[l]) \subseteq Node
             /\ first[l] = Null <=> On(c[l]) = {}
             /\ first[l] # Null => prev[first[l]] \in Node
             /\ \A n \in On(c[l]) : prev[n] # Null
    <2> DEFINE s == c[l]
    <2>1. Chain(l, s)
        BY <1>2 DEF Chains
    <2> HIDE DEF s
    <2>2. /\ s \in Seq(Node) /\ Len(s) \in Nat
          /\ \A k \in 1 .. Len(s) : s[k] \in Node /\ s[k] # Null
        BY <2>1, ChainIsShort
    <2>3. CASE Len(s) = 0
        BY <2>1, <2>3 DEF Chain, On, s
    <2>4. CASE Len(s) # 0
        <3>1. 1 \in 1 .. Len(s) /\ Len(s) \in 1 .. Len(s)
            BY <2>2, <2>4
        <3>2. first[l] = s[1] /\ prev[s[1]] = s[Len(s)]
            BY <2>1, <2>4 DEF Chain
        <3>3. ASSUME NEW i \in 1 .. Len(s)
              PROVE  prev[s[i]] # Null
            <4>1. CASE i = 1
                BY <2>2, <3>1, <3>2, <4>1
            <4>2. CASE i # 1
                <5>1. i - 1 \in 1 .. Len(s) - 1 /\ i - 1 \in 1 .. Len(s) /\ (i - 1) + 1 = i
                    BY <2>2, <4>2
                <5>2. prev[s[i]] = s[i - 1]
                    BY <2>1, <5>1 DEF Chain
                <5> QED
                    BY <2>2, <5>1, <5>2
            <4> QED
                BY <4>1, <4>2
        <3>4. s[1] \in On(s) /\ On(s) \subseteq Node /\ \A n \in On(s) : prev[n] # Null
            BY <2>2, <3>1, <3>3 DEF On
        <3> QED
            BY <2>2, <3>1, <3>2, <3>4 DEF s
    <2> QED
        BY <2>3, <2>4
<1> QED
    BY <1>2, <1>3, <1>4 DEF Chains

\* Nothing that a unit's memory is cleared of was linked: none of its objects
\* is alive, and no other unit's object is on one of its lists.
LEMMA LoadKeepsLists ==
    ASSUME RegistrarsInv, NEW u \in Unit, Load(u)
    PROVE  UNCHANGED listVars /\ \A n \in ObjectsOf(u) : n \notin Alive
<1>1. \A n \in ObjectsOf(u) : n \notin Alive
    BY DEF RegistrarsInv, UnitInv, Load, ObjectsOf
<1>2. ASSUME NEW n \in ObjectsOf(u)
      PROVE  prev[n] = Null /\ next[n] = Null
    <2>1. n \in Registrar /\ n \in Node
        BY Homes DEF ObjectsOf
    <2>2. \A l \in List : n \notin Listed(l)
        BY <1>1, <2>1 DEF RegistrarsInv, HomesInv
    <2> QED
        BY <2>1, <2>2, LinksOfLists DEF RegistrarsInv
<1>3. ASSUME NEW l \in List, l \in ObjectsOf(u)
      PROVE  first[l] = Null
    <2>1. l \in Method /\ UnitOf[l] = u
        BY <1>3, ListsAssumption, ObjectsAssumption DEF ObjectsOf
    <2>2. ASSUME NEW n \in Listed(l)
          PROVE  FALSE
        <3>1. n \in Registrar /\ n \in Alive /\ HomeOf(n) = l
            BY <2>1, <2>2, ObjectsAssumption, ListsAssumption DEF RegistrarsInv, HomesInv, Registrar
        <3>2. n \in Overrider /\ MethodOf[n] = l
            BY <2>1, <3>1, Homes, ListsAssumption, ObjectsAssumption DEF Registrar
        <3>3. UnitOf[n] \in mapped /\ Needs[UnitOf[n]] \subseteq mapped
            BY <3>1 DEF RegistrarsInv, UnitInv
        <3>4. u \in Needs[UnitOf[n]] \cup {UnitOf[n]}
            BY <2>1, <3>2, UnitsAssumption
        <3> QED
            BY <3>3, <3>4 DEF Load
    <2> QED
        BY <2>2, LinksOfLists DEF RegistrarsInv
<1>4. /\ first' = [l \in List |-> first[l]]
      /\ prev' = [n \in Node |-> prev[n]]
      /\ next' = [n \in Node |-> next[n]]
    BY <1>2, <1>3 DEF Load
<1>5. first' = first /\ prev' = prev /\ next' = next
    BY <1>4 DEF RegistrarsInv, ListInv, LinkTypes
<1> QED
    BY <1>1, <1>5 DEF listVars

LEMMA InitIsEmpty ==
    ASSUME Init
    PROVE  Chains([l \in List |-> <<>>])
<1>1. \A l \in List : Chain(l, <<>>)
    BY DEF Init, ListInit, Chain
<1>2. On(<<>>) = {}
    BY DEF On
<1> QED
    BY <1>1, <1>2 DEF Init, ListInit, Chains

LEMMA InitKeeps ==
    ASSUME Init
    PROVE  RegistrarsInv
<1> DEFINE c == [l \in List |-> <<>>]
<1>1. LinkTypes
    BY DEF Init, ListInit, LinkTypes, Pointer
<1>3. On(<<>>) = {}
    BY DEF On
<1>4. Chains(c)
    BY InitIsEmpty
<1>5. Walks = c /\ \A l \in List : Listed(l) = On(c[l])
    BY <1>4, ChainsAreWalks
<1>6. ListInv
    BY <1>1, <1>4, <1>5 DEF ListInv
<1>7. Alive = {} /\ \A l \in List : Listed(l) = {}
    BY <1>3, <1>5 DEF Init, Alive
<1>8. HomesInv
    BY <1>7 DEF HomesInv
<1>9. BuiltInv
    BY <1>7 DEF Init, BuiltInv
<1>10. UnitInv
    BY <1>7, UnitsAssumption DEF Init, UnitInv
<1> QED
    BY <1>6, <1>8, <1>9, <1>10 DEF RegistrarsInv

LEMMA HomesStay ==
    ASSUME HomesInv, Alive' = Alive, \A l \in List : Listed(l)' = Listed(l)
    PROVE  HomesInv'
<1>1. \A x \in Registrar : HomeOf(x)' = HomeOf(x) /\ HomeOf(x) \in List
    BY Homes DEF HomeOf
<1>2. ASSUME NEW x \in Registrar, x \in Alive'
      PROVE  x \in Listed(HomeOf(x))'
    <2>1. PICK m \in List : m = HomeOf(x)
        BY <1>1
    <2>2. x \in Listed(m)'
        BY <1>2, <2>1 DEF HomesInv
    <2> QED
        BY <1>1, <2>1, <2>2
<1>3. ASSUME NEW m \in List, NEW x, x \in Listed(m)'
      PROVE  IF x \in Registrar THEN x \in Alive' /\ m = HomeOf(x) ELSE m = own
    BY <1>3 DEF HomesInv
<1> QED
    BY <1>1, <1>2, <1>3 DEF HomesInv

\* The calls that change no list and make or destroy no object.
LEMMA UnitsKeep ==
    ASSUME RegistrarsInv, NEW u \in Unit,
           Load(u) \/ Unload(u) \/ Loaded \/ Unloaded \/ Exit
    PROVE  RegistrarsInv'
<1>1. UNCHANGED listVars /\ built' = built
    BY LoadKeepsLists DEF Load, Unload, Loaded, Unloaded, Exit
<1>2. ListInv' /\ (\A l \in List : Listed(l)' = Listed(l)) /\ Alive' = Alive
    <2>1. Alive' = Alive
        BY <1>1 DEF Alive
    <2> QED
        BY <1>1, <2>1, ListsStay DEF RegistrarsInv
<1>3. HomesInv'
    BY <1>2, HomesStay DEF RegistrarsInv
<1>4. BuiltInv'
    <2>1. CASE Load(u)
        <3>1. method' = [o \in Overrider |-> IF o \in ObjectsOf(u) THEN Null ELSE method[o]]
            BY <2>1 DEF Load
        <3>2. \A o \in Overrider : o \in Alive => o \notin ObjectsOf(u)
            BY <2>1, LoadKeepsLists
        <3> QED
            BY <1>1, <1>2, <3>1, <3>2 DEF RegistrarsInv, BuiltInv
    <2>2. CASE ~ Load(u)
        <3>1. method' = method
            BY <2>2 DEF Unload, Loaded, Unloaded, Exit
        <3> QED
            BY <1>1, <1>2, <3>1 DEF RegistrarsInv, BuiltInv
    <2> QED
        BY <2>1, <2>2
<1>5. UnitInv'
    <2> USE <1>2 DEF RegistrarsInv, UnitInv
    <2>1. CASE Load(u)
        BY <2>1 DEF Load
    <2>2. CASE Unload(u)
        BY <2>2 DEF Unload
    <2>3. CASE Loaded
        BY <2>3 DEF Loaded, ObjectsOf
    <2>4. CASE Unloaded
        BY <2>4 DEF Unloaded, ObjectsOf
    <2>5. CASE Exit
        BY <2>5 DEF Exit
    <2> QED
        BY <2>1, <2>2, <2>3, <2>4, <2>5
<1> QED
    BY <1>2, <1>3, <1>4, <1>5 DEF RegistrarsInv

LEMMA ConstructKeeps ==
    ASSUME RegistrarsInv, NEW n \in Registrar, Construct(n)
    PROVE  RegistrarsInv' /\ n \notin Alive /\ PushBack(HomeOf(n), n)
<1>1. PICK c : c = Walks
    OBVIOUS
<1>2. PICK l \in List : l = HomeOf(n)
    BY Homes
<1>3. /\ MayConstruct(n) /\ PushBack(l, n)
      /\ \A o \in Overrider : method'[o] = IF o = n THEN MethodOf[o] ELSE method[o]
      /\ method' \in [Overrider -> Method \cup {Null}]
    <2> USE DEF RegistrarsInv, BuiltInv
    <2>1. CASE UseClass(n)
        BY <1>2, <2>1, Homes, ObjectsAssumption DEF UseClass
    <2>2. CASE MethodCtor(n)
        BY <1>2, <2>2, Homes, ObjectsAssumption DEF MethodCtor
    <2>3. CASE OverrideImpl(n)
        BY <1>2, <2>3, Homes, UnitsAssumption DEF OverrideImpl
    <2> QED
        BY <2>1, <2>2, <2>3 DEF Construct
<1>4. /\ phase = "loading" /\ UnitOf[n] = unit /\ n \notin Alive
      /\ built' = Append(built, n) /\ UNCHANGED <<mapped, phase, unit>>
    BY <1>3 DEF MayConstruct, ObjectsOf
<1>5. n \in Node /\ \A m \in List : n \notin Listed(m)
    BY <1>4, Homes DEF RegistrarsInv, HomesInv
<1>6. /\ ListInv' /\ Listed(l)' = Listed(l) \cup {n}
      /\ \A m \in List : m # l => Listed(m)' = Listed(m)
    BY <1>1, <1>3, <1>5, PushBackAppends DEF RegistrarsInv
<1>7. BuiltInv' /\ Alive' = Alive \cup {n}
    <2>1. /\ built \in Seq(Registrar) /\ Len(built) \in Nat /\ DOMAIN built = 1 .. Len(built)
          /\ \A i \in 1 .. Len(built) : built[i] \in Alive
        BY DEF RegistrarsInv, BuiltInv, Alive
    <2>2. /\ built' \in Seq(Registrar) /\ Len(built') = Len(built) + 1
          /\ built'[Len(built) + 1] = n
          /\ \A i \in 1 .. Len(built) : built'[i] = built[i]
        BY <1>4, <2>1, AppendProperties
    <2>3. DOMAIN built' = (1 .. Len(built)) \cup {Len(built) + 1}
          /\ 1 .. Len(built') = (1 .. Len(built)) \cup {Len(built) + 1}
        BY <2>1, <2>2
    <2>4. Alive' = Alive \cup {n}
        BY <2>1, <2>2, <2>3 DEF Alive
    <2>5. \A i, j \in 1 .. Len(built') : i # j => built'[i] # built'[j]
        BY <1>4, <2>1, <2>2, <2>3 DEF RegistrarsInv, BuiltInv
    <2>6. \A o \in Overrider : o \in Alive' => method'[o] = MethodOf[o]
        BY <1>3, <2>4 DEF RegistrarsInv, BuiltInv
    <2> QED
        BY <1>3, <2>2, <2>4, <2>5, <2>6 DEF BuiltInv
<1>8. HomesInv'
    <2>1. \A x \in Registrar : HomeOf(x)' = HomeOf(x) /\ HomeOf(x) \in List
        BY Homes DEF HomeOf
    <2>2. ASSUME NEW x \in Registrar, x \in Alive'
          PROVE  x \in Listed(HomeOf(x))'
        <3>1. PICK m \in List : m = HomeOf(x)
            BY <2>1
        <3>2. x \in Listed(m) \/ (x = n /\ m = l)
            BY <1>2, <1>7, <2>2, <3>1 DEF RegistrarsInv, HomesInv
        <3>3. x \in Listed(m)'
            BY <1>6, <3>2
        <3> QED
            BY <2>1, <3>1, <3>3
    <2>3. ASSUME NEW m \in List, NEW x, x \in Listed(m)'
          PROVE  IF x \in Registrar THEN x \in Alive' /\ m = HomeOf(x) ELSE m = own
        <3>1. x \in Listed(m) \/ (x = n /\ m = l)
            BY <1>6, <2>3
        <3> QED
            BY <1>2, <1>7, <3>1 DEF RegistrarsInv, HomesInv
    <2> QED
        BY <2>1, <2>2, <2>3 DEF HomesInv
<1>9. UnitInv'
    BY <1>4, <1>7 DEF RegistrarsInv, UnitInv
<1> QED
    BY <1>2, <1>3, <1>4, <1>6, <1>7, <1>8, <1>9 DEF RegistrarsInv

LEMMA DestroyKeeps ==
    ASSUME RegistrarsInv, NEW n \in Registrar, Destroy(n)
    PROVE  /\ RegistrarsInv' /\ n \in Alive
           /\ n \in Listed(HomeOf(n)) /\ Remove(HomeOf(n), n)
<1>1. PICK c : c = Walks
    OBVIOUS
<1>2. PICK l \in List : l = HomeOf(n)
    BY Homes
<1>3. MayDestroy(n)
    BY DEF Destroy, ForgetClass, MethodDtor, OverriderDtor
<1>4. /\ phase \in {"unloading", "exiting"}
      /\ UNCHANGED <<method, mapped, phase, unit>>
    BY <1>3 DEF MayDestroy
<1>5. PICK i \in DOMAIN built :
          /\ built[i] = n
          /\ phase = "unloading" => UnitOf[n] = unit
          /\ built' = SubSeq(built, 1, i - 1) \o SubSeq(built, i + 1, Len(built))
    BY <1>3 DEF MayDestroy, Seqs!RemoveAt
<1>6. n \in Alive
    BY <1>5 DEF Alive
<1>7. Remove(l, n)
    <2>1. CASE ForgetClass(n)
        BY <1>2, <2>1, Homes DEF ForgetClass
    <2>2. CASE MethodDtor(n)
        BY <1>2, <2>2, Homes DEF MethodDtor
    <2>3. CASE OverriderDtor(n)
        <3>1. method[n] = MethodOf[n] /\ l = MethodOf[n]
            BY <1>2, <1>6, <2>3, Homes DEF OverriderDtor, RegistrarsInv, BuiltInv
        <3> QED
            BY <2>3, <3>1 DEF OverriderDtor
    <2> QED
        BY <2>1, <2>2, <2>3 DEF Destroy
<1>8. n \in Listed(l)
    BY <1>2, <1>6 DEF RegistrarsInv, HomesInv
<1>9. /\ ListInv' /\ Listed(l)' = Listed(l) \ {n}
      /\ \A m \in List : m # l => Listed(m)' = Listed(m)
    <2>1. PICK k \in 1 .. Len(c[l]) : n = c[l][k]
        <3>1. Listed(l) = On(c[l])
            BY <1>1, ChainsAreWalks DEF RegistrarsInv, ListInv
        <3> QED
            BY <1>8, <3>1 DEF On
    <2> QED
        BY <1>1, <1>7, <2>1, RemoveTakesOff DEF RegistrarsInv
<1>10. BuiltInv' /\ Alive' = Alive \ {n}
    <2>1. /\ built \in Seq(Registrar) /\ Alive = On(built) /\ i \in 1 .. Len(built)
          /\ \A j, k \in 1 .. Len(built) : j # k => built[j] # built[k]
        BY AliveIsOn DEF RegistrarsInv, BuiltInv
    <2>2. PICK s \in Seq(Registrar) : s = built
        BY <2>1
    <2> DEFINE t == SubSeq(s, 1, i - 1) \o SubSeq(s, i + 1, Len(s))
    <2>3. i \in 1 .. Len(s) /\ s[i] = n /\ built' = t
        BY <1>5, <2>1, <2>2
    <2>4. t \in Seq(Registrar)
        BY <2>2, <2>3, RemovedAt
    <2>5. On(t) = On(s) \ {n} /\ \A j, k \in 1 .. Len(t) : j # k => t[j] # t[k]
        <3>1. \A j, k \in 1 .. Len(s) : j # k => s[j] # s[k]
            BY <2>1, <2>2
        <3>2. i \in 1 .. Len(s) /\ s \in Seq(Registrar)
            BY <2>2, <2>3
        <3>3. On(t) = On(s) \ {s[i]} /\ \A j, k \in 1 .. Len(t) : j # k => t[j] # t[k]
            BY <3>1, <3>2, RemovedNodes
        <3> QED
            BY <2>3, <3>3
    <2> HIDE DEF t
    <2>6. Alive' = On(t)
        BY <2>3, <2>4 DEF Alive, On
    <2>7. Alive' = Alive \ {n}
        BY <2>1, <2>2, <2>5, <2>6
    <2>8. method' \in [Overrider -> Method \cup {Null}]
          /\ \A o \in Overrider : o \in Alive' => method'[o] = MethodOf[o]
        BY <1>4, <2>7 DEF RegistrarsInv, BuiltInv
    <2> QED
        BY <2>3, <2>4, <2>5, <2>7, <2>8 DEF BuiltInv
<1>11. HomesInv'
    <2>1. \A x \in Registrar : HomeOf(x)' = HomeOf(x) /\ HomeOf(x) \in List
        BY Homes DEF HomeOf
    <2>2. ASSUME NEW x \in Registrar, x \in Alive'
          PROVE  x \in Listed(HomeOf(x))'
        <3>1. PICK m \in List : m = HomeOf(x)
            BY <2>1
        <3>2. x \in Listed(m) /\ x # n
            BY <1>10, <2>2, <3>1 DEF RegistrarsInv, HomesInv
        <3>3. x \in Listed(m)'
            BY <1>9, <3>2
        <3> QED
            BY <2>1, <3>1, <3>3
    <2>3. ASSUME NEW m \in List, NEW x, x \in Listed(m)'
          PROVE  IF x \in Registrar THEN x \in Alive' /\ m = HomeOf(x) ELSE m = own
        <3>1. x \in Listed(m) /\ (m = l => x # n)
            BY <1>9, <2>3
        <3> QED
            BY <1>2, <1>10, <3>1 DEF RegistrarsInv, HomesInv
    <2> QED
        BY <2>1, <2>2, <2>3 DEF HomesInv
<1>12. UnitInv'
    BY <1>4, <1>5, <1>10 DEF RegistrarsInv, UnitInv
<1> QED
    BY <1>2, <1>6, <1>7, <1>8, <1>9, <1>10, <1>11, <1>12 DEF RegistrarsInv

LEMMA OwnListKeeps ==
    ASSUME RegistrarsInv, UseOwnList
    PROVE  RegistrarsInv'
<1>1. PICK c : c = Walks
    OBVIOUS
<1>2. UNCHANGED <<method, mapped, built, phase, unit>>
    BY DEF UseOwnList
<1>3. own \in List /\ Listed(own) = On(c[own])
    BY <1>1, ChainsAreWalks, ListsAssumption DEF RegistrarsInv, ListInv
<1> DEFINE Kept == /\ ListInv'
                   /\ \A m \in List : m # own => Listed(m)' = Listed(m)
                   /\ \A x : x \in Listed(own)' => x \in Listed(own) \/ x \in Own
<1>4. Kept
    <2>1. CASE Clear(own)
        BY <1>1, <1>3, <2>1, ClearEmpties DEF RegistrarsInv
    <2>2. ASSUME NEW n \in Own \ Listed(own), PushBack(own, n)
          PROVE  Kept
        <3>1. n \in Node /\ n \notin Registrar
            BY ListsAssumption, ObjectsAssumption
        <3>2. \A m \in List : n \notin Listed(m)
            BY <3>1 DEF RegistrarsInv, HomesInv
        <3> QED
            BY <1>1, <1>3, <2>2, <3>1, <3>2, PushBackAppends DEF RegistrarsInv
    <2>3. ASSUME NEW n \in Listed(own), Remove(own, n)
          PROVE  Kept
        <3>1. PICK k \in 1 .. Len(c[own]) : n = c[own][k]
            BY <1>3 DEF On
        <3> QED
            BY <1>1, <1>3, <2>3, <3>1, RemoveTakesOff DEF RegistrarsInv
    <2> QED
        BY <2>1, <2>2, <2>3 DEF UseOwnList
<1>5. Alive' = Alive
    BY <1>2 DEF Alive
<1>6. HomesInv'
    <2>1. \A x \in Registrar : HomeOf(x)' = HomeOf(x) /\ HomeOf(x) \in List /\ HomeOf(x) # own
        BY Homes DEF HomeOf
    <2>2. ASSUME NEW x \in Registrar, x \in Alive'
          PROVE  x \in Listed(HomeOf(x))'
        <3>1. PICK m \in List : m = HomeOf(x)
            BY <2>1
        <3>2. x \in Listed(m)'
            BY <1>4, <1>5, <2>1, <2>2, <3>1 DEF RegistrarsInv, HomesInv
        <3> QED
            BY <2>1, <3>1, <3>2
    <2>3. ASSUME NEW m \in List, NEW x, x \in Listed(m)'
          PROVE  IF x \in Registrar THEN x \in Alive' /\ m = HomeOf(x) ELSE m = own
        <3>1. x \in Listed(m) \/ (x \in Own /\ m = own)
            BY <1>4, <2>3
        <3> QED
            BY <1>5, <3>1, ObjectsAssumption DEF RegistrarsInv, HomesInv
    <2> QED
        BY <2>1, <2>2, <2>3 DEF HomesInv
<1>7. BuiltInv' /\ UnitInv'
    BY <1>2, <1>5 DEF RegistrarsInv, BuiltInv, UnitInv
<1> QED
    BY <1>4, <1>6, <1>7 DEF RegistrarsInv

LEMMA NextKeeps ==
    ASSUME RegistrarsInv, [Next]_vars
    PROVE  RegistrarsInv'
<1>1. CASE UNCHANGED vars
    <2>1. ListInv' /\ \A l \in List : Listed(l)' = Listed(l)
        BY <1>1, ListsStay DEF RegistrarsInv, vars
    <2>2. Alive' = Alive
        BY <1>1 DEF vars, Alive
    <2>3. HomesInv'
        BY <2>1, <2>2, HomesStay DEF RegistrarsInv
    <2> QED
        BY <1>1, <2>1, <2>2, <2>3 DEF vars, RegistrarsInv, BuiltInv, UnitInv
<1>2. ASSUME NEW u \in Unit, Load(u) \/ Unload(u)
      PROVE  RegistrarsInv'
    BY <1>2, UnitsKeep
<1>3. CASE Loaded \/ Unloaded \/ Exit
    BY <1>3, UnitsKeep, UnitsAssumption
<1>4. ASSUME NEW n \in Registrar, Construct(n) \/ Destroy(n)
      PROVE  RegistrarsInv'
    BY <1>4, ConstructKeeps, DestroyKeeps
<1>5. CASE UseOwnList
    BY <1>5, OwnListKeeps
<1> QED
    BY <1>1, <1>2, <1>3, <1>4, <1>5 DEF Next

-----------------------------------------------------------------------------
(* The lists keep their promise *)

Emptied(c, l) == [c EXCEPT ![l] = <<>>]
Longer(c, l, n) == [c EXCEPT ![l] = Append(c[l], n)]
Shorter(c, l, i) ==
    [c EXCEPT ![l] = SubSeq(c[l], 1, i - 1) \o SubSeq(c[l], i + 1, Len(c[l]))]

\* What one call makes of the sequences c.
OneCall(c, d) ==
    \E l \in List :
        \/ d = Emptied(c, l)
        \/ \E n \in Node : (\A m \in List : n \notin On(c[m])) /\ d = Longer(c, l, n)
        \/ \E i \in 1 .. Len(c[l]) : d = Shorter(c, l, i)

LEMMA PushIsOneCall ==
    ASSUME ListInv, NEW c, c = Walks, NEW l \in List, NEW n \in Node,
           \A m \in List : n \notin Listed(m), PushBack(l, n)
    PROVE  OneCall(c, Walks')
<1>1. \A m \in List : n \notin On(c[m])
    BY ChainsAreWalks DEF ListInv
<1>2. Walks' = Longer(c, l, n)
    BY PushBackAppends DEF Longer
<1> QED
    BY <1>1, <1>2 DEF OneCall

LEMMA RemoveIsOneCall ==
    ASSUME ListInv, NEW c, c = Walks, NEW l \in List, NEW n \in Listed(l), Remove(l, n)
    PROVE  OneCall(c, Walks')
<1>1. PICK i \in 1 .. Len(c[l]) : n = c[l][i]
    <2>1. Listed(l) = On(c[l])
        BY ChainsAreWalks DEF ListInv
    <2> QED
        BY <2>1 DEF On
<1>2. Walks' = Shorter(c, l, i)
    BY <1>1, RemoveTakesOff DEF Shorter
<1> QED
    BY <1>2 DEF OneCall

LEMMA StepIsOneCall ==
    ASSUME RegistrarsInv, [Next]_vars, NEW c, c = Walks
    PROVE  Walks' = c \/ OneCall(c, Walks')
<1>1. CASE UNCHANGED vars
    BY <1>1, ListsStay DEF RegistrarsInv, vars
<1>2. ASSUME NEW u \in Unit, Load(u) \/ Unload(u) \/ Loaded \/ Unloaded \/ Exit
      PROVE  Walks' = c
    <2>1. UNCHANGED listVars
        BY <1>2, LoadKeepsLists DEF Unload, Loaded, Unloaded, Exit
    <2> QED
        BY <2>1, ListsStay DEF RegistrarsInv
<1>3. ASSUME NEW n \in Registrar, Construct(n)
      PROVE  OneCall(c, Walks')
    <2>1. PICK l \in List : l = HomeOf(n)
        BY Homes
    <2>2. n \notin Alive /\ PushBack(l, n)
        BY <1>3, <2>1, ConstructKeeps
    <2>3. n \in Node /\ \A m \in List : n \notin Listed(m)
        BY <2>2, Homes DEF RegistrarsInv, HomesInv
    <2> QED
        BY <2>2, <2>3, PushIsOneCall DEF RegistrarsInv
<1>4. ASSUME NEW n \in Registrar, Destroy(n)
      PROVE  OneCall(c, Walks')
    <2>1. PICK l \in List : l = HomeOf(n)
        BY Homes
    <2>2. n \in Listed(l) /\ Remove(l, n)
        BY <1>4, <2>1, DestroyKeeps
    <2> QED
        BY <2>2, RemoveIsOneCall DEF RegistrarsInv
<1>5. CASE UseOwnList
    <2>1. own \in List
        BY ListsAssumption
    <2>2. CASE Clear(own)
        <3>1. Walks' = Emptied(c, own)
            BY <2>1, <2>2, ClearEmpties DEF RegistrarsInv, Emptied
        <3> QED
            BY <2>1, <3>1 DEF OneCall
    <2>3. ASSUME NEW n \in Own \ Listed(own), PushBack(own, n)
          PROVE  OneCall(c, Walks')
        <3>1. n \in Node /\ n \notin Registrar
            BY ListsAssumption, ObjectsAssumption
        <3>2. \A m \in List : n \notin Listed(m)
            BY <3>1 DEF RegistrarsInv, HomesInv
        <3> QED
            BY <2>1, <2>3, <3>1, <3>2, PushIsOneCall DEF RegistrarsInv
    <2>4. ASSUME NEW n \in Listed(own), Remove(own, n)
          PROVE  OneCall(c, Walks')
        BY <2>1, <2>4, RemoveIsOneCall DEF RegistrarsInv
    <2> QED
        BY <1>5, <2>2, <2>3, <2>4 DEF UseOwnList
<1> QED
    BY <1>1, <1>2, <1>3, <1>4, <1>5, UnitsAssumption DEF Next

\* One call on the sequences is a step of Registrations.
LEMMA OneCallIsAStep ==
    ASSUME ListInv, NEW c, c = Walks, OneCall(c, Walks')
    PROVE  Abstract!Next
<1>1. PICK d : d = Walks'
    OBVIOUS
<1>2. c \in [List -> Seq(Node)]
    BY DEF ListInv, Chains
<1>3. PICK l \in List :
        \/ d = Emptied(c, l)
        \/ \E n \in Node : (\A m \in List : n \notin On(c[m])) /\ d = Longer(c, l, n)
        \/ \E i \in 1 .. Len(c[l]) : d = Shorter(c, l, i)
    BY <1>1 DEF OneCall
<1>4. d = [c EXCEPT ![l] = d[l]]
    BY <1>2, <1>3 DEF Emptied, Longer, Shorter
<1>5. \/ d[l] = <<>>
      \/ \E n \in Node \ Abstract!OnSomeList : d[l] = Append(c[l], n)
      \/ \E i \in DOMAIN c[l] : d[l] = Seqs!RemoveAt(c[l], i)
    <2>1. CASE d = Emptied(c, l)
        BY <1>2, <2>1 DEF Emptied
    <2>2. ASSUME NEW n \in Node, \A m \in List : n \notin On(c[m]), d = Longer(c, l, n)
          PROVE  n \notin Abstract!OnSomeList /\ d[l] = Append(c[l], n)
        <3>1. d[l] = Append(c[l], n)
            BY <1>2, <2>2 DEF Longer
        <3>2. \A m \in List : DOMAIN c[m] = 1 .. Len(c[m])
            BY <1>2
        <3>3. n \notin UNION { { c[m][i] : i \in DOMAIN c[m] } : m \in List }
            BY <2>2, <3>2 DEF On
        <3>4. Abstract!OnSomeList = UNION { { c[m][i] : i \in DOMAIN c[m] } : m \in List }
            BY DEF Abstract!OnSomeList, Walks
        <3> QED
            BY <3>1, <3>3, <3>4
    <2>3. ASSUME NEW i \in 1 .. Len(c[l]), d = Shorter(c, l, i)
          PROVE  i \in DOMAIN c[l] /\ d[l] = Seqs!RemoveAt(c[l], i)
        <3> DEFINE t == SubSeq(c[l], 1, i - 1) \o SubSeq(c[l], i + 1, Len(c[l]))
        <3>1. d = [c EXCEPT ![l] = t]
            BY <2>3, Zenon DEF Shorter
        <3>2. Seqs!RemoveAt(c[l], i) = t
            BY DEF Seqs!RemoveAt
        <3>3. c[l] \in Seq(Node)
            BY <1>2
        <3> HIDE DEF t
        <3>4. d[l] = t
            BY <1>2, <3>1
        <3>5. i \in DOMAIN c[l]
            BY <3>3
        <3> QED
            BY <3>2, <3>4, <3>5
    <2> QED
        BY <1>3, <2>1, <2>2, <2>3
<1>6. [m \in List |-> Walk(m)] = c /\ [m \in List |-> Walk(m)]' = d
    BY <1>1 DEF Walks
<1>7. \A i : Abstract!Seqs!RemoveAt(c[l], i) = Seqs!RemoveAt(c[l], i)
    BY DEF Abstract!Seqs!RemoveAt, Seqs!RemoveAt
<1>8. Abstract!Clear(l) \/ Abstract!PushBack(l) \/ Abstract!Remove(l)
    BY <1>5, <1>6, <1>7 DEF Abstract!Clear, Abstract!PushBack, Abstract!Remove
<1> QED
    BY <1>4, <1>6, <1>8 DEF Abstract!Next

-----------------------------------------------------------------------------
(* The theorems *)

LEMMA RegistrarsInvariant == Spec => []RegistrarsInv
<1>1. Init => RegistrarsInv
    BY InitKeeps
<1>2. RegistrarsInv /\ [Next]_vars => RegistrarsInv'
    BY NextKeeps
<1> QED
    BY <1>1, <1>2, PTL DEF Spec

\* The registrars and the lists have their types: a list that is not empty has
\* a link from its first node to its last one.
THEOREM RegistrarsHaveTypes == Spec => []TypeOK
<1>1. RegistrarsInv => TypeOK
    BY LinksOfLists
       DEF RegistrarsInv, ListInv, LinkTypes, BuiltInv, UnitInv, TypeOK, ListTypeOK
<1> QED
    BY <1>1, RegistrarsInvariant, PTL

\* A node has a predecessor exactly while it is on a list, and no link when it
\* is on none: whatever the calls on the lists and their order, the assertion of
\* push_back tells a node that is on a list from one that is not.
THEOREM LinksTellTheListed == Spec => []LinkedIffListed
<1>1. ASSUME RegistrarsInv
      PROVE  LinkedIffListed
    <2>1. \A n \in Node : n \in OnSomeList <=> \E l \in List : n \in Listed(l)
        BY DEF OnSomeList
    <2>2. ASSUME NEW n \in Node
          PROVE  /\ prev[n] # Null <=> n \in OnSomeList
                 /\ n \notin OnSomeList => next[n] = Null
        BY <1>1, <2>1, LinksOfLists DEF RegistrarsInv
    <2> QED
        BY <2>2 DEF LinkedIffListed
<1> QED
    BY <1>1, RegistrarsInvariant, PTL

\* A class, method or overrider is on its list from its constructor to its
\* destructor, and whenever initialize may be called the lists are what the
\* units in memory define: for all units, what they need and define, and the
\* orders in which their static objects come and go.
THEOREM ListsAreTheUnits == Spec => []RegisteredWhileAlive
<1>1. ASSUME RegistrarsInv
      PROVE  RegisteredWhileAlive
    <2>1. ASSUME NEW n \in Registrar
          PROVE  n \in Alive <=> n \in Listed(HomeOf(n))
        BY <1>1, Homes DEF RegistrarsInv, HomesInv
    <2>2. ASSUME phase = "idle", NEW n \in Registrar
          PROVE  n \in Alive <=> UnitOf[n] \in mapped
        BY <1>1, <2>2 DEF RegistrarsInv, UnitInv
    <2> QED
        BY <2>1, <2>2 DEF RegisteredWhileAlive
<1> QED
    BY <1>1, RegistrarsInvariant, PTL

\* The intrusive lists implement sequences of nodes: what the iterators of a
\* list find is what push_back, remove and clear make of it, and a call on one
\* list changes no other.
THEOREM ListsKeepTheirPromise == Spec => ImplementsList
<1>1. Init => Abstract!Init
    <2> SUFFICES ASSUME Init PROVE Abstract!Init
        OBVIOUS
    <2>1. Chains([l \in List |-> <<>>])
        BY InitIsEmpty
    <2> QED
        BY <2>1, ChainsAreWalks DEF Walks, Abstract!Init
<1>2. RegistrarsInv /\ [Next]_vars => [Abstract!Next]_([l \in List |-> Walk(l)])
    <2> SUFFICES ASSUME RegistrarsInv, [Next]_vars
                 PROVE  Walks' = Walks \/ Abstract!Next
        BY DEF Walks
    <2>1. PICK c : c = Walks
        OBVIOUS
    <2> QED
        BY <2>1, StepIsOneCall, OneCallIsAStep DEF RegistrarsInv
<1> QED
    BY <1>1, <1>2, RegistrarsInvariant, PTL DEF Spec, ImplementsList, Abstract!Spec
=============================================================================
