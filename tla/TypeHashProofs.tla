--------------------------- MODULE TypeHashProofs ---------------------------
(****************************************************************************)
(* The perfect hash is perfect whatever the type ids, the multipliers drawn *)
(* and the number of attempts: each registered class is found, and with     *)
(* runtime checks nothing else is.  Of the arithmetic the proofs use only   *)
(* that a hash value is the index of a bucket.                              *)
(****************************************************************************)
EXTENDS TypeHash, FiniteSetTheorems, WellFoundedInduction, TLAPS

-----------------------------------------------------------------------------
(* Arithmetic *)

LEMMA QuotientBound ==
    ASSUME NEW y \in Nat, NEW d \in Nat \ {0}, NEW e \in Nat, y < e * d
    PROVE  y \div d \in 0 .. (e - 1)
<1> DEFINE q == y \div d
<1>1. q \in Nat /\ q * d <= y
  OBVIOUS
<1>2. q * d < e * d
  BY <1>1
<1>3. q < e
  BY <1>1, <1>2
<1> QED
  BY <1>1, <1>3

LEMMA Powers ==
    ASSUME NEW m \in 0 .. Width
    PROVE  /\ 2^m \in Nat \ {0} /\ 2^(Width - m) \in Nat \ {0}
           /\ 2^m * 2^(Width - m) = 2^Width
           /\ 2^m <= 2^Width
<1>1. /\ 2^m \in Nat \ {0} /\ 2^(Width - m) \in Nat \ {0}
      /\ 2^m * 2^(Width - m) = 2^Width
  BY PowersAssumption, WidthAssumption
<1>2. ASSUME NEW a \in Nat, NEW b \in Nat \ {0}
      PROVE  a <= a * b
  OBVIOUS
<1> QED
  BY <1>1, <1>2

\* The word with all bits set, and all the others.
LEMMA Words ==
    /\ 2^Width \in Nat \ {0}
    /\ Empty \in Word /\ TypeId \subseteq Word /\ Word \subseteq Nat
<1>1. 2^Width \in Nat \ {0}
  BY PowersAssumption, WidthAssumption
<1> QED
  BY <1>1 DEF Empty, TypeId, Word

\* A hash value is the index of a bucket.
LEMMA HashInTable ==
    ASSUME M \in 0 .. Width, mult \in Nat, NEW x \in Nat
    PROVE  Hash(x) \in 0 .. (2^M - 1)
<1> DEFINE y == (x * mult) % 2^Width
<1>1. 2^M \in Nat \ {0} /\ 2^(Width - M) \in Nat \ {0} /\ 2^Width \in Nat \ {0}
      /\ 2^M * 2^(Width - M) = 2^Width
  BY Powers, Words
<1>2. x * mult \in Nat
  OBVIOUS
<1>3. y \in Nat /\ y < 2^Width
  BY <1>1, <1>2
<1> QED
  BY <1>1, <1>3, QuotientBound DEF Hash

-----------------------------------------------------------------------------
(* Types *)

Entry == [class : Nat \ {0}, id : TypeId]

\* What ties M to the pass, and the type ids an attempt still has to come to.
LoopInv ==
    /\ stage \in {"search", "scan"} =>
          /\ types \in Programs
          /\ M = InitialM(types) + pass
          /\ buckets \in [0 .. (2^M - 1) -> Word]
    /\ todo \in Seq(Entry)

TypeInv == TypeOK /\ LoopInv

LEMMA ProgramsAreSequences == \A p \in Programs \cup {<<>>} : p \in Seq(Entry)
<1>1. \A p \in Programs : p \in Seq(Entry)
  BY ProgramsAssumption DEF IsProgram, Entry
<1>2. <<>> \in Seq(Entry)
  OBVIOUS
<1> QED
  BY <1>1, <1>2

LEMMA EntriesOf ==
    ASSUME NEW s \in Seq(Entry), NEW i \in DOMAIN s
    PROVE  s[i] \in Entry /\ s[i].id \in TypeId
<1>1. s[i] \in Entry
  OBVIOUS
<1> QED
  BY <1>1 DEF Entry

LEMMA TypesFacts ==
    ASSUME TypeInv
    PROVE  /\ types \in Seq(Entry)
           /\ M \in 0 .. Width /\ 2^M \in Nat \ {0} /\ 2^M <= 2^Width
           /\ mult \in Nat
           /\ minValue \in Nat /\ maxValue \in Nat
<1>1. mult \in Nat
  BY MultipliersAssumption, Words DEF TypeInv, TypeOK
<1>2. 2^M \in Nat \ {0} /\ 2^M <= 2^Width
  BY Powers DEF TypeInv, TypeOK
<1> QED
  BY <1>1, <1>2, ProgramsAreSequences, Words DEF TypeInv, TypeOK

\* The first pass has at least one bit, and the last one still fits a word.
LEMMA StartedPass ==
    ASSUME NEW p \in Programs, NEW n \in 0 .. (MaxPasses - 1)
    PROVE  InitialM(p) + n \in 0 .. Width
BY RoomAssumption, WidthAssumption DEF MaxPasses

LEMMA EmptyTable ==
    ASSUME NEW m \in 0 .. Width
    PROVE  AllEmpty(m) \in [0 .. (2^m - 1) -> Word]
BY Words DEF AllEmpty

\* An empty sequence and an empty vector.
LEMMA NoElement == DOMAIN <<>> \in { 0 .. (n - 1) : n \in 0 .. 2^Width }
<1>1. DOMAIN <<>> = 0 .. (0 - 1)
  OBVIOUS
<1> QED
  BY <1>1, Words

LEMMA InitTypes == Init => TypeInv
<1> SUFFICES ASSUME Init PROVE TypeInv
  OBVIOUS
<1>1. inits \in 0 .. MaxInits /\ attempts \in 0 .. MaxAttempts /\ M \in 0 .. Width
  BY BoundsAssumption, WidthAssumption DEF Init
<1>2. minValue \in Word /\ maxValue \in Word
  BY Words DEF Init, Word
<1>3. todo \in Seq(Entry) /\ \A i \in DOMAIN todo : todo[i].id \in TypeId
  BY DEF Init
<1>4. DOMAIN vptrs \in { 0 .. (n - 1) : n \in 0 .. 2^Width }
  BY NoElement DEF Init
<1>5. pass \in 0 .. (MaxPasses - 1)
  BY DEF Init, MaxPasses
<1> QED
  BY <1>1, <1>2, <1>3, <1>4, <1>5 DEF Init, TypeInv, TypeOK, LoopInv

LEMMA NextTypes == TypeInv /\ [Next]_vars => TypeInv'
<1> SUFFICES ASSUME TypeInv, [Next]_vars PROVE TypeInv'
  OBVIOUS
<1> USE DEF TypeInv
<1>0. /\ types \in Seq(Entry) /\ M \in 0 .. Width
      /\ 2^M \in Nat \ {0} /\ 2^M <= 2^Width /\ mult \in Nat
      /\ minValue \in Nat /\ maxValue \in Nat
  BY TypesFacts
<1>1. CASE Initialize
  <2> PICK p \in Programs : types' = p /\ StartPass(0, InitialM(p))
    BY <1>1 DEF Initialize
  <2>1. M' = InitialM(p) /\ M' \in 0 .. Width /\ M' = InitialM(p) + 0
    BY RoomAssumption, WidthAssumption DEF StartPass, MaxPasses
  <2>2. buckets' \in [0 .. (2^M' - 1) -> Word]
    BY <2>1, EmptyTable DEF StartPass
  <2>3. minValue' \in Word /\ maxValue' \in Word
    BY Words DEF StartPass, Word
  <2>4. inits' \in 0 .. MaxInits /\ attempts' \in 0 .. MaxAttempts /\ pass' = 0
    BY <1>1, BoundsAssumption DEF Initialize, StartPass, TypeOK
  <2>5. pass' \in 0 .. (MaxPasses - 1)
    BY <2>4 DEF MaxPasses
  <2>6. stage' = "search" /\ types' = p /\ mult' = mult /\ todo' = todo /\ vptrs' = vptrs
    BY <1>1 DEF Initialize
  <2>7. LoopInv'
    BY <2>1, <2>2, <2>4, <2>6 DEF LoopInv
  <2>8. TypeOK'
    BY <2>1, <2>2, <2>3, <2>4, <2>5, <2>6 DEF TypeOK
  <2> QED
    BY <2>7, <2>8
<1>2. CASE Attempt
  <2>1. buckets' \in [0 .. (2^M - 1) -> Word]
    BY <1>0, <1>2, EmptyTable DEF Attempt
  <2>2. todo' \in Seq(Entry) /\ \A i \in DOMAIN todo' : todo'[i].id \in TypeId
    BY <1>0, <1>2, EntriesOf DEF Attempt
  <2>3. attempts' \in 0 .. MaxAttempts /\ mult' \in Multipliers
    BY <1>2, BoundsAssumption DEF Attempt, TypeOK
  <2> QED
    BY <1>2, <2>1, <2>2, <2>3 DEF Attempt, TypeOK, LoopInv, counters, range
<1>3. CASE Insert
  <2> DEFINE id == Head(todo).id
             index == Hash(id)
  <2>1. todo \in Seq(Entry) /\ todo # <<>> /\ buckets \in [0 .. (2^M - 1) -> Word]
    BY <1>3 DEF Insert, LoopInv
  <2>2. id \in TypeId /\ id \in Word /\ id \in Nat
    <3>1. 1 \in DOMAIN todo /\ Head(todo) = todo[1]
      BY <2>1
    <3>2. id \in TypeId
      BY <2>1, <3>1, EntriesOf
    <3> QED
      BY <3>2, Words
  <2>3. index \in 0 .. (2^M - 1) /\ index \in Word
    <3>1. index \in 0 .. (2^M - 1)
      BY <1>0, <2>2, HashInTable
    <3> QED
      BY <1>0, <3>1, Words DEF Word
  <2>4. minValue' \in Word /\ maxValue' \in Word
    BY <1>3, <2>3 DEF Insert, Lower, Higher, TypeOK
  <2>5. buckets' \in [0 .. (2^M - 1) -> Word]
    BY <1>3, <2>1, <2>2, <2>3 DEF Insert
  <2>6. todo' \in Seq(Entry)
    BY <1>3, <2>1 DEF Insert
  <2>7. \A i \in DOMAIN todo' : todo'[i].id \in TypeId
    BY <2>6, EntriesOf
  <2>8. stage' \in {"search", "scan"} /\ stage = "scan"
    BY <1>3 DEF Insert
  <2> QED
    BY <1>3, <2>4, <2>5, <2>6, <2>7, <2>8
    DEF Insert, TypeOK, LoopInv, counters, search
<1>4. CASE NextPass
  <2>1. CASE IsLastPass
    BY <1>4, <2>1 DEF NextPass, TypeOK, LoopInv, counters, range
  <2>2. CASE ~ IsLastPass
    <3>1. StartPass(pass + 1, M + 1) /\ stage' = "search" /\ stage = "search"
      BY <1>4, <2>2 DEF NextPass
    <3>2. pass + 1 \in 0 .. (MaxPasses - 1)
      BY <2>2 DEF IsLastPass, TypeOK, MaxPasses
    <3>3. M = InitialM(types) + pass /\ types \in Programs
      BY <3>1 DEF LoopInv
    <3>4. InitialM(types) \in Nat
      BY <3>3, RoomAssumption
    <3>5. M + 1 = InitialM(types) + (pass + 1) /\ M + 1 \in 0 .. Width
      <4>1. M + 1 = InitialM(types) + (pass + 1)
        BY <3>3, <3>4 DEF TypeOK, MaxPasses
      <4>2. InitialM(types) + (pass + 1) \in 0 .. Width
        BY <3>2, <3>3, StartedPass
      <4> QED
        BY <4>1, <4>2
    <3>6. buckets' \in [0 .. (2^M' - 1) -> Word]
      BY <3>1, <3>5, EmptyTable DEF StartPass
    <3>7. minValue' \in Word /\ maxValue' \in Word
      BY <3>1, Words DEF StartPass, Word
    <3>8. types' = types /\ inits' = inits /\ mult' = mult /\ todo' = todo
          /\ vptrs' = vptrs /\ attempts' \in 0 .. MaxAttempts
      BY <1>4, <3>1, BoundsAssumption DEF NextPass, counters, StartPass
    <3> QED
      BY <3>1, <3>2, <3>3, <3>5, <3>6, <3>7, <3>8 DEF StartPass, TypeOK, LoopInv
  <2> QED
    BY <2>1, <2>2
<1>5. CASE StoreVptrs
  <2>1. DOMAIN vptrs' = 0 .. ((maxValue + 1) - 1)
    BY <1>5 DEF StoreVptrs, VectorSize
  <2>2. maxValue + 1 \in 0 .. 2^Width
    BY <1>0, Words DEF TypeOK, Word
  <2>3. DOMAIN vptrs' \in { 0 .. (n - 1) : n \in 0 .. 2^Width }
    BY <2>1, <2>2
  <2> QED
    BY <1>5, <2>3 DEF StoreVptrs, TypeOK, LoopInv, counters, search, range
<1>6. CASE Finalize
  <2>1. DOMAIN vptrs' \in { 0 .. (n - 1) : n \in 0 .. 2^Width }
    BY <1>6, NoElement DEF Finalize
  <2> QED
    BY <1>6, <2>1 DEF Finalize, TypeOK, LoopInv, counters, search, range
<1>7. CASE UNCHANGED vars
  BY <1>7 DEF vars, counters, search, range, TypeOK, LoopInv
<1> QED
  BY <1>1, <1>2, <1>3, <1>4, <1>5, <1>6, <1>7 DEF Next, Compile

\* Every variable of the search and of the vector of v-table pointers has its
\* type; in particular the hash of a registered class's type id is the index
\* of a bucket, in every attempt of every pass.
THEOREM TypeCorrectness == Spec => []TypeOK
<1>1. Init => TypeInv
  BY InitTypes
<1>2. TypeInv /\ [Next]_vars => TypeInv'
  BY NextTypes
<1>3. TypeInv => TypeOK
  BY DEF TypeInv
<1> QED
  BY <1>1, <1>2, <1>3, PTL DEF Spec

-----------------------------------------------------------------------------
(* Buckets *)

\* The first k type ids have buckets of their own, inside the range; there is
\* nothing else in the buckets.
Inserted(k) ==
    /\ \A n \in 1 .. k :
          /\ buckets[Hash(types[n].id)] = types[n].id
          /\ minValue <= Hash(types[n].id) /\ Hash(types[n].id) <= maxValue
    /\ \A b \in 0 .. (2^M - 1) :
          buckets[b] # Empty => \E n \in 1 .. k : buckets[b] = types[n].id

\* How many type ids the attempt has inserted.
Done == Len(types) - Len(todo)

ScanInv ==
    stage = "scan" =>
        /\ Len(todo) <= Len(types)
        /\ \A j \in 1 .. Len(todo) : todo[j] = types[Done + j]
        /\ Inserted(Done)

ReadyInv ==
    stage = "ready" =>
        /\ Inserted(Len(types))
        /\ buckets \in [0 .. (2^M - 1) -> Word]
        /\ \A n \in 1 .. Len(types) :
              /\ Hash(types[n].id) \in DOMAIN vptrs
              /\ vptrs[Hash(types[n].id)] = VptrOf(types[n].class)

Inv == TypeInv /\ ScanInv /\ ReadyInv

LEMMA HashOfType ==
    ASSUME TypeInv, NEW n \in 1 .. Len(types)
    PROVE  /\ n \in DOMAIN types
           /\ types[n].id \in TypeId /\ types[n].id # Empty
           /\ Hash(types[n].id) \in 0 .. (2^M - 1)
<1>1. types \in Seq(Entry) /\ M \in 0 .. Width /\ mult \in Nat
  BY TypesFacts
<1>2. n \in DOMAIN types
  BY <1>1
<1>3. types[n].id \in TypeId
  BY <1>1, <1>2, EntriesOf
<1>4. types[n].id \in Nat /\ types[n].id # Empty
  BY <1>3, Words DEF TypeId
<1> QED
  BY <1>1, <1>2, <1>3, <1>4, HashInTable

\* Type ids are told apart by the classes' positions.
LEMMA TypesDiffer ==
    ASSUME TypeInv, NEW m \in DOMAIN types, NEW n \in DOMAIN types,
           types[m].id = types[n].id
    PROVE  m = n
<1>1. CASE types \in Programs
  BY <1>1, ProgramsAssumption DEF IsProgram
<1>2. CASE types = <<>>
  BY <1>2
<1> QED
  BY <1>1, <1>2 DEF TypeInv, TypeOK

LEMMA AttemptKeeps == Inv /\ Attempt => ScanInv' /\ ReadyInv'
<1> SUFFICES ASSUME Inv, Attempt PROVE ScanInv' /\ ReadyInv'
  OBVIOUS
<1>1. types \in Seq(Entry) /\ types' = types /\ todo' = types /\ M' = M
      /\ stage' = "scan" /\ buckets' = AllEmpty(M)
  BY TypesFacts DEF Inv, Attempt, counters
<1>2. Done' = 0
  BY <1>1 DEF Done
<1>3. Inserted(0)'
  BY <1>1 DEF Inserted, AllEmpty
<1> QED
  BY <1>1, <1>2, <1>3 DEF ScanInv, ReadyInv

LEMMA InsertKeeps == Inv /\ Insert => ScanInv' /\ ReadyInv'
<1> SUFFICES ASSUME Inv, Insert PROVE ScanInv' /\ ReadyInv'
  OBVIOUS
<1> DEFINE id == Head(todo).id
           index == Hash(id)
<1>1. CASE buckets[index] # Empty
  BY <1>1 DEF Insert, ScanInv, ReadyInv
<1>2. CASE buckets[index] = Empty
  <2>1. /\ stage = "scan" /\ stage' = "scan" /\ todo # <<>> /\ todo' = Tail(todo)
        /\ buckets' = [buckets EXCEPT ![index] = id]
        /\ minValue' = Lower(minValue, index) /\ maxValue' = Higher(maxValue, index)
        /\ types' = types /\ M' = M /\ mult' = mult
    BY <1>2 DEF Insert, counters, search
  <2>2. /\ types \in Seq(Entry) /\ todo \in Seq(Entry) /\ M \in 0 .. Width
        /\ 2^M \in Nat \ {0} /\ mult \in Nat
        /\ minValue \in Nat /\ maxValue \in Nat
        /\ buckets \in [0 .. (2^M - 1) -> Word]
    BY <2>1, TypesFacts DEF Inv, TypeInv, LoopInv
  <2>3. /\ Len(todo) <= Len(types) /\ Inserted(Done)
        /\ \A j \in 1 .. Len(todo) : todo[j] = types[Done + j]
    BY <2>1 DEF Inv, ScanInv
  <2>4. /\ Done \in Nat /\ Done + 1 \in 1 .. Len(types)
        /\ Done' = Done + 1
        /\ Head(todo) = types[Done + 1]
    <3>1. Len(todo) \in Nat \ {0} /\ Len(types) \in Nat /\ Len(todo') = Len(todo) - 1
      BY <2>1, <2>2
    <3>2. Head(todo) = todo[1] /\ 1 \in 1 .. Len(todo)
      BY <2>1, <2>2
    <3> QED
      BY <2>1, <2>3, <3>1, <3>2 DEF Done
  <2>5. id = types[Done + 1].id /\ index \in 0 .. (2^M - 1) /\ id # Empty
    BY <2>4, HashOfType DEF Inv
  <2>6. \A x : Hash(x)' = Hash(x)
    BY <2>1 DEF Hash
  <2>7. \A j \in 1 .. Len(todo') : todo'[j] = types[Done' + j]
    <3> TAKE j \in 1 .. Len(todo')
    <3>1. todo'[j] = todo[j + 1] /\ j + 1 \in 1 .. Len(todo)
      BY <2>1, <2>2
    <3>2. todo[j + 1] = types[Done + (j + 1)]
      BY <2>3, <3>1
    <3> QED
      BY <2>4, <3>1, <3>2
  <2>8. minValue' <= minValue /\ minValue' <= index /\ maxValue <= maxValue'
        /\ index <= maxValue' /\ minValue' \in Nat /\ maxValue' \in Nat
    BY <2>1, <2>2, <2>5 DEF Lower, Higher
  <2>9. ASSUME NEW n \in 1 .. (Done + 1)
        PROVE  /\ buckets'[Hash(types[n].id)] = types[n].id
               /\ minValue' <= Hash(types[n].id) /\ Hash(types[n].id) <= maxValue'
    <3>1. CASE n = Done + 1
      BY <2>1, <2>2, <2>5, <2>8, <3>1
    <3>2. CASE n # Done + 1
      <4>1. n \in 1 .. Done /\ n \in 1 .. Len(types)
        BY <2>4, <3>2
      <4>2. Hash(types[n].id) \in 0 .. (2^M - 1) /\ types[n].id # Empty
        BY <4>1, HashOfType DEF Inv
      <4>3. /\ buckets[Hash(types[n].id)] = types[n].id
            /\ minValue <= Hash(types[n].id) /\ Hash(types[n].id) <= maxValue
        BY <2>3, <4>1 DEF Inserted
      <4>4. Hash(types[n].id) # index
        BY <1>2, <4>2, <4>3
      <4> QED
        BY <2>1, <2>2, <2>8, <4>2, <4>3, <4>4
    <3> QED
      BY <3>1, <3>2
  <2>10. ASSUME NEW b \in 0 .. (2^M - 1), buckets'[b] # Empty
         PROVE  \E n \in 1 .. (Done + 1) : buckets'[b] = types[n].id
    <3>1. CASE b = index
      BY <2>1, <2>2, <2>4, <2>5, <3>1
    <3>2. CASE b # index
      <4>1. buckets'[b] = buckets[b]
        BY <2>1, <2>2, <3>2
      <4>2. PICK n \in 1 .. Done : buckets[b] = types[n].id
        BY <2>3, <2>10, <4>1 DEF Inserted
      <4> QED
        BY <2>4, <4>1, <4>2
    <3> QED
      BY <3>1, <3>2
  <2>11. Inserted(Done)'
    BY <2>1, <2>4, <2>6, <2>9, <2>10 DEF Inserted
  <2>12. Len(todo') <= Len(types')
    BY <2>1, <2>2, <2>3
  <2> QED
    BY <2>1, <2>4, <2>7, <2>11, <2>12 DEF ScanInv, ReadyInv
<1> QED
  BY <1>1, <1>2

LEMMA StoreKeeps == Inv /\ StoreVptrs => ScanInv' /\ ReadyInv'
<1> SUFFICES ASSUME Inv, StoreVptrs PROVE ScanInv' /\ ReadyInv'
  OBVIOUS
<1>1. /\ stage = "scan" /\ stage' = "ready" /\ todo = <<>>
      /\ types' = types /\ inits' = inits /\ M' = M /\ mult' = mult
      /\ buckets' = buckets /\ minValue' = minValue /\ maxValue' = maxValue
  BY DEF StoreVptrs, counters, search, range
<1>2. /\ types \in Seq(Entry) /\ Len(types) \in Nat /\ maxValue \in Nat
      /\ buckets \in [0 .. (2^M - 1) -> Word]
  BY <1>1, TypesFacts DEF Inv, TypeInv, LoopInv
<1>3. Inserted(Len(types))
  BY <1>1, <1>2 DEF Inv, ScanInv, Done
<1>4. \A x : Hash(x)' = Hash(x) /\ VptrOf(x)' = VptrOf(x)
  BY <1>1 DEF Hash, VptrOf
<1>5. ASSUME NEW n \in 1 .. Len(types)
      PROVE  /\ Hash(types[n].id) \in DOMAIN vptrs'
             /\ vptrs'[Hash(types[n].id)] = VptrOf(types[n].class)
  <2> DEFINE i == Hash(types[n].id)
             m == CHOOSE k \in DOMAIN types : Hash(types[k].id) = i
  <2>1. n \in DOMAIN types /\ i \in 0 .. (2^M - 1) /\ i <= maxValue
    BY <1>3, HashOfType DEF Inv, Inserted
  <2>2. i \in 0 .. (VectorSize - 1)
    BY <1>2, <2>1, TypesFacts DEF Inv, VectorSize
  <2>3. m \in DOMAIN types /\ Hash(types[m].id) = i
    BY <2>1
  <2>4. m \in 1 .. Len(types)
    BY <1>2, <2>3
  <2>5. types[m].id = types[n].id
    BY <1>3, <2>3, <2>4 DEF Inserted
  <2>6. m = n
    BY <2>1, <2>3, <2>5, TypesDiffer DEF Inv
  <2>7. vptrs'[i] = VptrOf(types[m].class)
    BY <2>1, <2>2 DEF StoreVptrs
  <2>8. i \in DOMAIN vptrs'
    BY <2>2 DEF StoreVptrs
  <2> QED
    BY <2>6, <2>7, <2>8
<1>6. Inserted(Len(types))'
  BY <1>1, <1>3, <1>4 DEF Inserted
<1> QED
  BY <1>1, <1>2, <1>4, <1>5, <1>6 DEF ScanInv, ReadyInv

\* Each bucket has one type id in it, and the vector has the pointers of the
\* classes at the same places: the invariant behind both theorems.
THEOREM Invariance == Spec => []Inv
<1>1. Init => Inv
  BY InitTypes DEF Init, Inv, ScanInv, ReadyInv
<1>2. Inv /\ [Next]_vars => Inv'
  <2> SUFFICES ASSUME Inv, [Next]_vars PROVE ScanInv' /\ ReadyInv'
    BY NextTypes DEF Inv
  <2>1. CASE Attempt
    BY <2>1, AttemptKeeps
  <2>2. CASE Insert
    BY <2>2, InsertKeeps
  <2>3. CASE StoreVptrs
    BY <2>3, StoreKeeps
  <2>4. CASE Initialize \/ NextPass \/ Finalize
    <3>1. stage' \notin {"scan", "ready"}
      BY <2>4 DEF Initialize, NextPass, Finalize
    <3> QED
      BY <3>1 DEF ScanInv, ReadyInv
  <2>5. CASE UNCHANGED vars
    BY <2>5 DEF Inv, ScanInv, ReadyInv, Inserted, Done, Hash, VptrOf, vars,
                counters, search, range
  <2> QED
    BY <2>1, <2>2, <2>3, <2>4, <2>5 DEF Next, Compile
<1> QED
  BY <1>1, <1>2, PTL DEF Spec

\* Every registered class is found without runtime checks, however many
\* classes, type ids and earlier calls of initialize there were.
THEOREM RegisteredAlwaysFound == Spec => []RegisteredAreFound
<1>1. Inv => RegisteredAreFound
  <2> SUFFICES ASSUME Inv, stage = "ready", NEW n \in DOMAIN types
               PROVE  DynamicVptr(types[n].id) = VptrOf(types[n].class)
    BY DEF RegisteredAreFound
  <2>1. n \in 1 .. Len(types)
    BY TypesFacts DEF Inv
  <2> QED
    BY <2>1 DEF Inv, ReadyInv, DynamicVptr, VptrAt
<1> QED
  BY <1>1, Invariance, PTL

\* With runtime checks a class that is not registered is always reported, and
\* one that is registered never is.
THEOREM ChecksAlwaysExact == Spec => []ChecksAreExact
<1>1. Inv => ChecksAreExact
  <2> SUFFICES ASSUME Inv, stage = "ready", NEW x \in TypeId
               PROVE  LET mine == { n \in DOMAIN types : types[n].id = x }
                      IN  CheckedVptr(x) =
                            IF mine = {} THEN MissingClass
                            ELSE VptrOf(types[CHOOSE n \in mine : TRUE].class)
    BY DEF ChecksAreExact
  <2> DEFINE mine == { n \in DOMAIN types : types[n].id = x }
  <2>1. /\ types \in Seq(Entry) /\ M \in 0 .. Width /\ mult \in Nat
        /\ x \in Nat /\ x # Empty
        /\ Hash(x) \in 0 .. (2^M - 1)
    BY TypesFacts, HashInTable, Words DEF Inv, TypeId
  <2>2. CASE mine = {}
    <3>1. ~ IsKnown(Hash(x), x)
      <4> SUFFICES ASSUME buckets[Hash(x)] = x PROVE FALSE
        BY DEF IsKnown
      <4>1. PICK n \in 1 .. Len(types) : x = types[n].id
        BY <2>1 DEF Inv, ReadyInv, Inserted
      <4> QED
        BY <2>1, <2>2, <4>1
    <3> QED
      BY <2>2, <3>1 DEF CheckedVptr
  <2>3. CASE mine # {}
    <3> DEFINE n == CHOOSE k \in mine : TRUE
    <3>1. n \in DOMAIN types /\ types[n].id = x
      BY <2>3
    <3>2. n \in 1 .. Len(types)
      BY <2>1, <3>1
    <3>3. IsKnown(Hash(x), x) /\ VptrAt(Hash(x)) = VptrOf(types[n].class)
      BY <3>1, <3>2 DEF Inv, ReadyInv, Inserted, IsKnown, VptrAt
    <3> QED
      BY <2>3, <3>3 DEF CheckedVptr
  <2> QED
    BY <2>2, <2>3
<1> QED
  BY <1>1, Invariance, PTL

-----------------------------------------------------------------------------
(* Room for all *)

Below == { ss \in Nat \X Nat : ss[1] < ss[2] }

LEMMA BelowIsWellFounded == IsWellFoundedOn(Below, Nat)
BY NatLessThanWellFounded, Zenon DEF OpToRel, Below

LEMMA LeastMember ==
    ASSUME NEW S, S \subseteq Nat, S # {}
    PROVE  \E x \in S : \A y \in S : x <= y
<1>1. PICK x \in S : \A y \in S : ~ (<<y, x>> \in Below)
  BY WFMin, BelowIsWellFounded
<1>2. ASSUME NEW y \in S
      PROVE  x <= y
  <2>1. <<y, x>> \in Nat \X Nat /\ <<y, x>>[1] = y /\ <<y, x>>[2] = x
    OBVIOUS
  <2>2. ~ (y < x)
    BY <1>1, <2>1, Zenon DEF Below
  <2> QED
    BY <2>2
<1> QED
  BY <1>2

\* A power of two is greater than its exponent: there is no least exponent for
\* which it is not.
LEMMA PowerExceeds ==
    ASSUME NEW m \in 0 .. Width + 1
    PROVE  2^m \in Nat /\ m < 2^m
<1>1. Width \in Nat
  BY WidthAssumption
<1>2. \A k \in 0 .. Width : 2^k \in Nat /\ 2^(k + 1) = 2 * 2^k /\ 2^(k + 1) \in Nat
  BY PowersAssumption, DoublingAssumption
<1> DEFINE S == { k \in 0 .. Width + 1 : ~ (2^k \in Nat /\ k < 2^k) }
<1>3. ASSUME S # {} PROVE FALSE
  <2>1. S \subseteq Nat
    BY <1>1
  <2>2. PICK k \in S : \A j \in S : k <= j
    <3> HIDE DEF S
    <3> QED
      BY <1>3, <2>1, LeastMember
  <2>3. k \in 0 .. Width + 1 /\ ~ (2^k \in Nat /\ k < 2^k)
    BY <2>2
  <2>4. k # 0
    <3>1. 2^0 \in Nat /\ 0 < 2^0
      BY DoublingAssumption
    <3> QED
      BY <2>3, <3>1, Zenon
  <2>5. k - 1 \in 0 .. Width /\ (k - 1) + 1 = k /\ ~ (k <= k - 1)
    BY <1>1, <2>3, <2>4
  <2>6. k - 1 \notin S
    BY <2>2, <2>5
  <2>7. 2^(k - 1) \in Nat /\ k - 1 < 2^(k - 1)
    BY <1>1, <2>5, <2>6
  <2>8. 2^k = 2 * 2^(k - 1)
    BY <1>2, <2>5
  <2> QED
    BY <2>3, <2>5, <2>7, <2>8
<1> QED
  BY <1>3

\* There is a logarithm of each number that is below a power we know of.
LEMMA LogarithmFits ==
    ASSUME NEW n \in Nat, n # 0, n < 2 * 2^Width
    PROVE  Log2(n) \in Nat /\ n < 2^(Log2(n) + 1)
<1>1. Width \in Nat /\ \A k \in 0 .. Width : k + 1 \in 0 .. Width + 1 /\ k \in 0 .. Width + 1
  BY WidthAssumption
<1> DEFINE S == { k \in 0 .. Width : n < 2^(k + 1) }
<1>2. Width \in S
  BY <1>1, DoublingAssumption
<1>3. S # {} /\ S \subseteq Nat
  BY <1>1, <1>2
<1>4. PICK k \in S : \A j \in S : k <= j
  <2> HIDE DEF S
  <2> QED
    BY <1>3, LeastMember
<1>5. k \in 0 .. Width /\ k \in Nat /\ n < 2^(k + 1)
  BY <1>1, <1>4
<1>6. 2^k <= n
  <2>1. CASE k = 0
    BY <2>1, DoublingAssumption
  <2>2. CASE k # 0
    <3>1. k - 1 \in 0 .. Width /\ (k - 1) + 1 = k /\ ~ (k <= k - 1)
      BY <1>1, <1>5, <2>2
    <3>2. ~ (n < 2^k)
      BY <1>4, <3>1
    <3>3. 2^k \in Nat
      BY <1>1, <1>5, PowerExceeds
    <3> QED
      BY <3>2, <3>3
  <2> QED
    BY <2>1, <2>2
<1>7. k \in 0 .. n
  <2>1. 2^k \in Nat /\ k < 2^k
    BY <1>1, <1>5, PowerExceeds
  <2> QED
    BY <1>5, <1>6, <2>1
<1> DEFINE IsLog(j) == 2^j <= n /\ n < 2^(j + 1)
<1>8. IsLog(k)
  BY <1>5, <1>6
<1>9. Log2(n) = CHOOSE j \in 0 .. n : IsLog(j)
  BY DEF Log2
<1> HIDE DEF IsLog
<1>10. Log2(n) \in 0 .. n /\ IsLog(Log2(n))
  BY <1>7, <1>8, <1>9
<1> QED
  BY <1>10 DEF IsLog

\* A program has fewer type ids than there are words.
LEMMA TypeIdsFit ==
    ASSUME NEW p \in Programs
    PROVE  Len(p) \in Nat /\ Len(p) <= 2^Width
<1>1. p \in Seq(Entry) /\ Len(p) \in Nat /\ DOMAIN p = 1 .. Len(p)
  BY ProgramsAreSequences
<1>2. \A i, j \in 1 .. Len(p) : i # j => p[i].id # p[j].id
  BY <1>1, ProgramsAssumption DEF IsProgram
<1> DEFINE f == [i \in 1 .. Len(p) |-> p[i].id]
<1>3. f \in Injection(1 .. Len(p), Word)
  <2>1. f \in [1 .. Len(p) -> Word]
    BY <1>1, EntriesOf, Words
  <2> QED
    BY <1>2, <2>1 DEF Injection, IsInjective
<1>4. 2^Width \in Nat \ {0}
  BY Words
<1>5. IsFiniteSet(Word) /\ Cardinality(Word) = 2^Width
  <2>1. 0 \in Int /\ 2^Width - 1 \in Int /\ ~ (0 > 2^Width - 1)
    BY <1>4
  <2> QED
    BY <1>4, <2>1, FS_Interval DEF Word
<1>6. Cardinality(1 .. Len(p)) = Len(p)
  BY <1>1, FS_Interval
<1> QED
  BY <1>1, <1>3, <1>5, <1>6, FS_Injection

LEMMA MorePasses ==
    ASSUME NEW m \in Nat, NEW n \in 0 .. 3, m + n <= Width
    PROVE  2^m \in Nat /\ 2^(m + n) \in Nat /\ 2^m <= 2^(m + n)
<1>1. Width \in Nat
  BY WidthAssumption
<1>2. \A k \in 0 .. Width : 2^k \in Nat /\ 2^(k + 1) = 2 * 2^k
  BY PowersAssumption, DoublingAssumption
<1>3. \A k \in 0 .. Width : 2^k \in Nat /\ 2^k <= 2^(k + 1)
  BY <1>2
<1>4. CASE n = 0
  BY <1>1, <1>3, <1>4
<1>5. CASE n = 1
  <2>1. m \in 0 .. Width /\ m + 1 \in 0 .. Width
    BY <1>1, <1>5
  <2> QED
    BY <1>3, <1>5, <2>1
<1>6. CASE n = 2
  <2>1. m \in 0 .. Width /\ m + 1 \in 0 .. Width /\ m + 2 \in 0 .. Width
        /\ (m + 1) + 1 = m + 2
    BY <1>1, <1>6
  <2>2. 2^m <= 2^(m + 1) /\ 2^(m + 1) <= 2^(m + 2)
        /\ 2^m \in Nat /\ 2^(m + 1) \in Nat /\ 2^(m + 2) \in Nat
    BY <1>3, <2>1
  <2> QED
    BY <1>6, <2>2
<1>7. CASE n = 3
  <2>1. m \in 0 .. Width /\ m + 1 \in 0 .. Width /\ m + 2 \in 0 .. Width
        /\ m + 3 \in 0 .. Width /\ (m + 1) + 1 = m + 2 /\ (m + 2) + 1 = m + 3
    BY <1>1, <1>7
  <2>2. /\ 2^m <= 2^(m + 1) /\ 2^(m + 1) <= 2^(m + 2) /\ 2^(m + 2) <= 2^(m + 3)
        /\ 2^m \in Nat /\ 2^(m + 1) \in Nat /\ 2^(m + 2) \in Nat /\ 2^(m + 3) \in Nat
    BY <1>3, <2>1
  <2> QED
    BY <1>7, <2>2
<1> QED
  BY <1>4, <1>5, <1>6, <1>7

\* When each class has one type id, there are more buckets than type ids in
\* every pass of the search: the numbers that initialize starts from suffice,
\* whatever the number of classes.
THEOREM AlwaysRoomForAll == Spec => []RoomForAll
<1>1. Inv => RoomForAll
  <2> SUFFICES ASSUME Inv, stage \in {"search", "scan"}, NumberOfClasses(types) = Len(types)
               PROVE  2^M > Len(types)
    BY DEF RoomForAll
  <2> DEFINE n == Len(types)
             size == (n * 5) \div 4
             m == InitialM(types)
  <2>1. types \in Programs /\ M = m + pass /\ pass \in 0 .. 3
    BY DEF Inv, TypeInv, TypeOK, LoopInv, MaxPasses
  <2>2. n \in Nat /\ n <= 2^Width
    BY <2>1, TypeIdsFit
  <2>3. 2^Width \in Nat \ {0}
    BY Words
  <2>4. m \in Nat /\ m + 3 <= Width
    BY <2>1, RoomAssumption DEF MaxPasses
  <2>5. m = IF size = 0 THEN 1 ELSE 1 + Log2(size)
    BY DEF InitialM
  <2> HIDE DEF m
  <2>6. size \in Nat /\ n <= size /\ size < 2 * 2^Width
    BY <2>2, <2>3
  <2> HIDE DEF size, n
  <2>7. 2^m \in Nat /\ n < 2^m
    <3>1. m \in 0 .. Width + 1
      BY <2>4, WidthAssumption
    <3>2. 2^m \in Nat /\ m < 2^m
      BY <3>1, PowerExceeds
    <3>3. CASE size = 0
      BY <2>2, <2>4, <2>6, <3>2, <3>3
    <3>4. CASE size # 0
      <4>1. Log2(size) \in Nat /\ size < 2^(Log2(size) + 1)
        BY <2>6, <3>4, LogarithmFits
      <4>2. m = Log2(size) + 1
        BY <2>5, <3>4, <4>1
      <4> QED
        BY <2>2, <2>6, <3>2, <4>1, <4>2
    <3> QED
      BY <3>3, <3>4
  <2>8. m + pass <= Width
    BY <2>1, <2>4, WidthAssumption
  <2>9. 2^m <= 2^M /\ 2^M \in Nat
    BY <2>1, <2>4, <2>8, MorePasses
  <2> QED
    BY <2>2, <2>7, <2>9 DEF n
<1> QED
  BY <1>1, Invariance, PTL
=============================================================================
