----------------------------- MODULE StaticList -----------------------------
(****************************************************************************)
(* detail::static_list: the intrusive lists that classes, methods and       *)
(* overriders register themselves on.  Lists and nodes are static objects,  *)
(* which are filled with zeros before any constructor runs.                 *)
(*                                                                          *)
(* The links form a circle backwards, through the first node to the last,   *)
(* and a chain forwards.                                                    *)
(****************************************************************************)
EXTENDS Integers, Sequences, FiniteSets

CONSTANTS Node, List, Null

ASSUME NullAssumption == Null \notin Node

\* Nodes are static objects of the program's code.
ASSUME NodeAssumption == IsFiniteSet(Node)

Pointer == Node \cup {Null}

VARIABLES
    first,          \* static_list::first of each list
    prev, next      \* static_link::prev_ptr, next_ptr of each node

listVars == <<first, prev, next>>

ListInit ==
    /\ first = [l \in List |-> Null]
    /\ prev = [n \in Node |-> Null]
    /\ next = [n \in Node |-> Null]

\* What the iterators go through from begin(): the node in place k, if any.
At(l) ==
    LET at[k \in 1 .. (Cardinality(Node) + 1)] ==
            IF k = 1 THEN first[l]
            ELSE LET before == at[k - 1]
                 IN  IF before = Null THEN Null ELSE next[before]
    IN  at

\* The nodes the iterators go through, up to end().
Walk(l) ==
    LET at == At(l)
        length == CHOOSE k \in 0 .. Cardinality(Node) :
            /\ at[k + 1] = Null
            /\ \A j \in 1 .. k : at[j] # Null
    IN  [k \in 1 .. length |-> at[k]]

Listed(l) == LET at == At(l) IN { at[k] : k \in DOMAIN at } \ {Null}

-----------------------------------------------------------------------------
(* The calls.  A node must be on no list when it is added to one, and on    *)
(* the list it is removed from: that is for the callers to see to.          *)

OnSomeList == UNION { Listed(l) : l \in List }

\* Mutant: the first node has no link to the last.
PushFirstOpen(l, n) ==
    /\ first[l] = Null
    /\ first' = [first EXCEPT ![l] = n]
    /\ UNCHANGED <<prev, next>>

PushFirst(l, n) ==
    /\ first[l] = Null
    /\ first' = [first EXCEPT ![l] = n]
    /\ prev' = [prev EXCEPT ![n] = n]
    /\ next' = next

PushLast(l, n) ==
    /\ first[l] # Null
    /\ LET last == prev[first[l]]
       IN  /\ next' = [next EXCEPT ![last] = n]
           /\ prev' = [prev EXCEPT ![n] = last, ![first[l]] = n]
    /\ first' = first

PushBack(l, n) == PushFirst(l, n) \/ PushLast(l, n)

RemoveLast(l, n) ==
    /\ n = prev[first[l]]
    /\ IF n = first[l]
       THEN /\ first' = [first EXCEPT ![l] = Null]
            /\ prev' = [prev EXCEPT ![n] = Null]
            /\ next' = [next EXCEPT ![n] = Null]
       ELSE /\ first' = first
            /\ prev' = [prev EXCEPT ![n] = Null, ![first[l]] = prev[n]]
            /\ next' = [next EXCEPT ![n] = Null, ![prev[n]] = Null]

RemoveFirst(l, n) ==
    /\ n # prev[first[l]] /\ n = first[l]
    /\ first' = [first EXCEPT ![l] = next[n]]
    /\ prev' = [prev EXCEPT ![n] = Null, ![next[n]] = prev[n]]
    /\ next' = [next EXCEPT ![n] = Null]

IsInner(l, n) == n # prev[first[l]] /\ n # first[l]

\* Mutant: the link back over the node is not made.
RemoveInnerForward(l, n) ==
    /\ IsInner(l, n)
    /\ next' = [next EXCEPT ![n] = Null, ![prev[n]] = next[n]]
    /\ prev' = [prev EXCEPT ![n] = Null]
    /\ first' = first

\* Mutant: the link of the node itself is left.
RemoveInnerLinked(l, n) ==
    /\ IsInner(l, n)
    /\ next' = [next EXCEPT ![prev[n]] = next[n]]
    /\ prev' = [prev EXCEPT ![n] = Null, ![next[n]] = prev[n]]
    /\ first' = first

RemoveInner(l, n) ==
    /\ IsInner(l, n)
    /\ next' = [next EXCEPT ![n] = Null, ![prev[n]] = next[n]]
    /\ prev' = [prev EXCEPT ![n] = Null, ![next[n]] = prev[n]]
    /\ first' = first

Remove(l, n) == RemoveLast(l, n) \/ RemoveFirst(l, n) \/ RemoveInner(l, n)

\* The loop of clear() goes along the chain and unlinks every node.
Clear(l) ==
    LET listed == Listed(l)
    IN  /\ first' = [first EXCEPT ![l] = Null]
        /\ prev' = [n \in Node |-> IF n \in listed THEN Null ELSE prev[n]]
        /\ next' = [n \in Node |-> IF n \in listed THEN Null ELSE next[n]]

-----------------------------------------------------------------------------
(* Properties *)

\* Every pointer is null or points to a node; where push_back and remove follow
\* the first node's link to the last one, there is one.
ListTypeOK ==
    /\ first \in [List -> Pointer]
    /\ prev \in [Node -> Pointer]
    /\ next \in [Node -> Pointer]
    /\ \A l \in List : first[l] # Null => prev[first[l]] \in Node

\* push_back asserts that the links of the node are null: that tells a node
\* that registers twice from one that left and comes back, in every case,
\* because a node has a predecessor exactly while it is on a list - be it
\* itself - and no link is left in a node that is not.
LinkedIffListed ==
    LET listed == OnSomeList
    IN  \A n \in Node : /\ prev[n] # Null <=> n \in listed
                        /\ n \notin listed => next[n] = Null

Abstract == INSTANCE Registrations WITH lists <- [l \in List |-> Walk(l)]

\* Seen through their iterators, the lists do what they promise: every node that
\* is on one is visited, once, in order of registration, and a call changes no
\* list but its own.
ImplementsList == Abstract!Spec
=============================================================================
