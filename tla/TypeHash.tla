------------------------------ MODULE TypeHash ------------------------------
(****************************************************************************)
(* Policies fast_perfect_hash and vptr_vector: from the type id of an       *)
(* object to the v-table pointer of its class.  initialize() looks for a    *)
(* multiplier that sends the type ids of the registered classes to          *)
(* different buckets, then puts the v-table pointers in a vector at these   *)
(* indexes.  It may be called again when classes have come or gone, and     *)
(* finalize() may be called in between.                                     *)
(****************************************************************************)
EXTENDS Integers, Sequences, FiniteSets

CONSTANTS
    Width,          \* number of bits of a type id
    Multipliers,    \* what the random engine may yield
    MaxAttempts,    \* attempts with one number of buckets, 100000 in the code
    Programs,       \* the sets of classes that may be registered
    MaxInits        \* bound on the number of calls of initialize()

ASSUME WidthAssumption == Width \in Nat \ {0}
ASSUME BoundsAssumption == MaxAttempts \in Nat \ {0} /\ MaxInits \in Nat

Word == 0 .. (2^Width - 1)

\* uintptr_max, the content of an empty bucket, and no object's address.
Empty == 2^Width - 1
TypeId == Word \ {Empty}

ASSUME MultipliersAssumption ==
    Multipliers \subseteq { w \in Word : w % 2 = 1 }

\* The type ids of all the classes, in the order of the two nested loops over
\* them.  Classes are numbered from one and have at least one type id each.
IsProgram(p) ==
    /\ p \in Seq([class : Nat \ {0}, id : TypeId])
    /\ \A i, j \in DOMAIN p : i # j => p[i].id # p[j].id

ASSUME ProgramsAssumption == \A p \in Programs : IsProgram(p)

MaxPasses == 4

\* Arithmetic that the provers are not familiar with.
ASSUME PowersAssumption ==
    \A m \in 0 .. Width :
        2^m \in Nat \ {0} /\ 2^m * 2^(Width - m) = 2^Width

ASSUME DoublingAssumption ==
    2^0 = 1 /\ \A m \in 0 .. Width : 2^(m + 1) = 2 * 2^m

VARIABLES
    stage,              \* where initialize() is, or how it ended
    inits,              \* how many times it was called
    types,              \* the program it was called for
    pass, attempts,     \* the two loop counters of the search
    M, mult,            \* logarithm of the number of buckets, multiplier
    minValue, maxValue, \* range of the hash values
    buckets,            \* fast_perfect_hash_control, if there are checks
    todo,               \* type ids the attempt under way has not come to
    vptrs               \* vptr_vector_vptrs

counters == <<inits, types>>
search == <<pass, attempts, M, mult>>
range == <<minValue, maxValue>>
vars == <<stage, counters, search, range, buckets, todo, vptrs>>

\* A v-table pointer is into the dispatch data of one call of initialize().
Null == [class |-> 0, init |-> 0]
VptrOf(class) == [class |-> class, init |-> inits]

NumberOfClasses(p) == Cardinality({ p[i].class : i \in DOMAIN p })

Init ==
    /\ stage = "idle"
    /\ inits = 0
    /\ types = <<>>
    /\ pass = 0
    /\ attempts = 0
    /\ M = 0
    /\ mult = 0
    /\ minValue = 0
    /\ maxValue = 0
    /\ buckets = <<>>
    /\ todo = <<>>
    /\ vptrs = <<>>

-----------------------------------------------------------------------------
(* fast_perfect_hash::initialize *)

\* The largest k such that 2^k is at most n.
Log2(n) == CHOOSE k \in 0 .. n : 2^k <= n /\ n < 2^(k + 1)

\* Mutant: one bit less.
InitialMTooSmall(p) ==
    LET size == (NumberOfClasses(p) * 5) \div 4
    IN  IF size <= 1 THEN 1 ELSE Log2(size)

\* The number of bits to start with: more buckets than classes.
InitialM(p) ==
    LET size == (NumberOfClasses(p) * 5) \div 4
    IN  IF size = 0 THEN 1 ELSE 1 + Log2(size)

\* There are fewer classes than a word has values, by far: shift is not negative
\* in the last pass either.
ASSUME RoomAssumption ==
    \A p \in Programs : InitialM(p) \in Nat /\ InitialM(p) + MaxPasses - 1 <= Width

\* The high M bits of the product, which overflows.
Hash(x) == ((x * mult) % 2^Width) \div 2^(Width - M)

AllEmpty(m) == [b \in 0 .. (2^m - 1) |-> Empty]

\* The head of the loop over passes.
StartPass(n, m) ==
    /\ pass' = n
    /\ attempts' = 0
    /\ M' = m
    /\ minValue' = 2^Width - 1
    /\ maxValue' = 0
    /\ buckets' = AllEmpty(m)

Initialize ==
    /\ stage \in {"idle", "ready"} /\ inits < MaxInits
    /\ stage' = "search"
    /\ inits' = inits + 1
    /\ \E p \in Programs :
          /\ types' = p
          /\ StartPass(0, InitialM(p))
    /\ UNCHANGED <<mult, todo, vptrs>>

\* Mutant: the attempts are not counted.
AttemptForever ==
    /\ stage = "search" /\ attempts < MaxAttempts
    /\ stage' = "scan"
    /\ mult' \in Multipliers
    /\ buckets' = AllEmpty(M)
    /\ todo' = types
    /\ UNCHANGED <<counters, pass, attempts, M, range, vptrs>>

\* The head of the loop over attempts.  The range of the values is not reset.
Attempt ==
    /\ stage = "search" /\ attempts < MaxAttempts
    /\ stage' = "scan"
    /\ attempts' = attempts + 1
    /\ mult' \in Multipliers
    /\ buckets' = AllEmpty(M)
    /\ todo' = types
    /\ UNCHANGED <<counters, pass, M, range, vptrs>>

Lower(x, y) == IF x < y THEN x ELSE y
Higher(x, y) == IF x < y THEN y ELSE x

\* The hash value of one type id is found, and its bucket taken.
Insert ==
    /\ stage = "scan" /\ todo # <<>>
    /\ LET id == Head(todo).id
           index == Hash(id)
       IN  /\ minValue' = Lower(minValue, index)
           /\ maxValue' = Higher(maxValue, index)
           /\ IF buckets[index] # Empty
              THEN /\ stage' = "search"
                   /\ UNCHANGED <<buckets, todo>>
              ELSE /\ buckets' = [buckets EXCEPT ![index] = id]
                   /\ todo' = Tail(todo)
                   /\ stage' = stage
    /\ UNCHANGED <<counters, search, vptrs>>

\* Mutant: one pass more.
IsPastLastPass == pass = MaxPasses

IsLastPass == pass + 1 = MaxPasses

\* The next pass has twice as many buckets; after the last one there is a
\* search_error, and the program ends.
NextPass ==
    /\ stage = "search" /\ attempts = MaxAttempts
    /\ IF IsLastPass
       THEN /\ stage' = "failed"
            /\ UNCHANGED <<pass, attempts, M, range, buckets>>
       ELSE /\ StartPass(pass + 1, M + 1)
            /\ stage' = stage
    /\ UNCHANGED <<counters, mult, todo, vptrs>>

-----------------------------------------------------------------------------
(* vptr_vector::initialize and finalize *)

\* Mutant: no room for the largest index.
SizeTooSmall == maxValue

VectorSize == maxValue + 1

\* The vector is resized, which keeps what it held, and filled.
StoreVptrs ==
    /\ stage = "scan" /\ todo = <<>>
    /\ stage' = "ready"
    /\ vptrs' = [i \in 0 .. (VectorSize - 1) |->
          IF \E n \in DOMAIN types : Hash(types[n].id) = i
          THEN VptrOf(types[CHOOSE n \in DOMAIN types : Hash(types[n].id) = i].class)
          ELSE IF i \in DOMAIN vptrs THEN vptrs[i] ELSE Null]
    /\ UNCHANGED <<counters, search, range, buckets, todo>>

\* The vector and the control table are cleared, the factors stay.
Finalize ==
    /\ stage = "ready"
    /\ stage' = "idle"
    /\ buckets' = <<>>
    /\ vptrs' = <<>>
    /\ UNCHANGED <<counters, search, range, todo>>

Compile == Attempt \/ Insert \/ NextPass \/ StoreVptrs

Next == Initialize \/ Compile \/ Finalize

\* initialize() is one sequential call; the program may never make it.
Spec == Init /\ [][Next]_vars /\ WF_vars(Compile)

-----------------------------------------------------------------------------
(* vptr_vector::dynamic_vptr: what a call finds for an object of type id x. *)

Garbage == [class |-> 0, init |-> -1]
MissingClass == [class |-> 0, init |-> -2]

VptrAt(i) == IF i \in DOMAIN vptrs THEN vptrs[i] ELSE Garbage

\* Mutant: the range is all that is checked.
InRange(index, x) == minValue <= index /\ index <= maxValue

\* fast_perfect_hash::check
IsKnown(index, x) ==
    /\ minValue <= index /\ index <= maxValue
    /\ buckets[index] = x

DynamicVptr(x) == VptrAt(Hash(x))
CheckedVptr(x) == IF IsKnown(Hash(x), x) THEN VptrAt(Hash(x)) ELSE MissingClass

-----------------------------------------------------------------------------
(* Properties *)

\* Each variable has the type its C++ counterpart has; every index is within
\* the buckets.
TypeOK ==
    /\ stage \in {"idle", "search", "scan", "ready", "failed"}
    /\ inits \in 0 .. MaxInits
    /\ types \in Programs \cup {<<>>}
    /\ pass \in 0 .. (MaxPasses - 1)
    /\ attempts \in 0 .. MaxAttempts
    /\ M \in 0 .. Width
    /\ mult \in Multipliers \cup {0}
    /\ minValue \in Word
    /\ maxValue \in Word
    /\ buckets \in {<<>>} \cup [0 .. (2^M - 1) -> Word]
    /\ \A i \in DOMAIN todo : todo[i].id \in TypeId
    /\ DOMAIN vptrs \in { 0 .. (n - 1) : n \in 0 .. 2^Width }

\* Without runtime checks, an object of a registered class gets the v-table
\* pointer of its own class, made by the last initialize(): no other class
\* shares its bucket, it is inside the vector, and nothing an earlier
\* initialize() left there is taken for it.
RegisteredAreFound ==
    stage = "ready" =>
        \A n \in DOMAIN types : DynamicVptr(types[n].id) = VptrOf(types[n].class)

\* With runtime checks, moreover, any other class is reported: although the
\* range of the values is that of all the attempts of a pass, although the
\* vector keeps pointers of classes that are gone, and although the control
\* table was used for other classes before.
ChecksAreExact ==
    stage = "ready" =>
        \A x \in TypeId :
            LET mine == { n \in DOMAIN types : types[n].id = x }
            IN  CheckedVptr(x) = IF mine = {} THEN MissingClass
                                 ELSE VptrOf(types[CHOOSE n \in mine : TRUE].class)

\* If each class has one type id, no pass is hopeless: there are more buckets
\* than type ids from the first one on.
RoomForAll ==
    stage \in {"search", "scan"} /\ NumberOfClasses(types) = Len(types) =>
        2^M > Len(types)

\* The search ends, with a hash function or with an error.
SearchEnds == stage = "search" ~> stage \in {"ready", "failed"}
=============================================================================
