--------------------------- MODULE Registrations ---------------------------
(****************************************************************************)
(* What static_lists promise their users: each is the sequence of the nodes *)
(* that registered themselves on it and did not leave since, in order of    *)
(* registration; no node is on two lists.                                   *)
(****************************************************************************)
EXTENDS Integers, Sequences

Seqs == INSTANCE SequencesExt

CONSTANTS Node, List

VARIABLE lists

OnSomeList == UNION { { lists[l][i] : i \in DOMAIN lists[l] } : l \in List }

Init == lists = [l \in List |-> <<>>]

PushBack(l) ==
    \E n \in Node \ OnSomeList : lists'[l] = Append(lists[l], n)

Remove(l) ==
    \E i \in DOMAIN lists[l] : lists'[l] = Seqs!RemoveAt(lists[l], i)

Clear(l) == lists'[l] = <<>>

\* A call changes no list but its own.
Next ==
    \E l \in List :
        /\ lists' = [lists EXCEPT ![l] = lists'[l]]
        /\ Clear(l) \/ PushBack(l) \/ Remove(l)

Spec == Init /\ [][Next]_lists
=============================================================================
