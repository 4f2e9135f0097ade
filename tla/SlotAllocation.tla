--------------------------- MODULE SlotAllocation ---------------------------
(****************************************************************************)
(* What slot allocation promises the dispatch code, whatever the algorithm: *)
(* each virtual parameter of each method gets one v-table slot, once, and   *)
(* two parameters whose classes have a common derived class never share a   *)
(* slot, because that class needs an entry for both in its only v-table.    *)
(****************************************************************************)
EXTENDS Integers

CONSTANTS Class, Param

VARIABLES derived,  \* class -> the class and everything derived from it
          host,     \* virtual parameter -> class it is declared with
          slots     \* virtual parameter -> slot, or NotAssigned

NotAssigned == -1

Assigned(p) == slots[p] # NotAssigned

\* Both parameters have an entry in the v-table of some class.
Meet(p, q) == derived[host[p]] \cap derived[host[q]] # {}

Init == slots = [p \in Param |-> NotAssigned]

Allocate(p) ==
    /\ ~ Assigned(p)
    /\ slots'[p] \in Nat
    /\ \A q \in Param \ {p} : Assigned(q) /\ Meet(p, q) => slots[q] # slots'[p]
    /\ slots' = [slots EXCEPT ![p] = slots'[p]]
    /\ UNCHANGED <<derived, host>>

Next == \E p \in Param : Allocate(p)

Spec == Init /\ [][Next]_<<derived, host, slots>>
=============================================================================
