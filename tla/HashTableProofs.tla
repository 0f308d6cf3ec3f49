-------------------------- MODULE HashTableProofs --------------------------
(***************************************************************************)
(* Proofs about HashTable, for any hash functions and any number of keys.  *)
(***************************************************************************)
EXTENDS HashBuckets, FiniteSetTheorems, SequenceTheorems, WellFoundedInduction, TLAPS

\* A partition has at most two values for each of its buckets, and a value
\* more takes at most one bucket more.
LEMMA PartitionSize ==
    ASSUME hash \in [Key -> Nat], NEW p \in PartitionType, p.buckets > 0
    PROVE  /\ Cardinality(p.values) \in Nat
           /\ IsFiniteSet(Occupied(p)) /\ Cardinality(Occupied(p)) \in 0..p.buckets
           /\ p.values # {} => Cardinality(Occupied(p)) > 0
           /\ Size(p) \in Int
<1>1. p.buckets \in Nat /\ p.values \subseteq Key /\ IsFiniteSet(p.values)
  BY DEF PartitionType
<1>2. Cardinality(p.values) \in Nat
  BY <1>1, FS_CardinalityType
<1>3. Occupied(p) \subseteq 0..(p.buckets - 1)
  <2> SUFFICES ASSUME NEW k \in p.values
               PROVE  hash[k] % p.buckets \in 0..(p.buckets - 1)
    BY DEF Occupied
  <2>1. hash[k] \in Nat
    BY <1>1
  <2> QED
    BY <1>1, <2>1
<1>4. IsFiniteSet(0..(p.buckets - 1)) /\ Cardinality(0..(p.buckets - 1)) = p.buckets
  <2> DEFINE b == p.buckets - 1
  <2>1. b \in Int /\ ~(0 > b) /\ b - 0 + 1 = p.buckets
    BY <1>1
  <2> HIDE DEF b
  <2>2. IsFiniteSet(0..b) /\ Cardinality(0..b) = p.buckets
    BY <2>1, FS_Interval
  <2> QED
    BY <2>2 DEF b
<1>5. IsFiniteSet(Occupied(p)) /\ Cardinality(Occupied(p)) <= p.buckets
  BY <1>3, <1>4, FS_Subset
<1>6. Cardinality(Occupied(p)) \in Nat
  BY <1>5, FS_CardinalityType
<1>7. p.values # {} => Occupied(p) # {}
  BY DEF Occupied
<1>8. p.values # {} => Cardinality(Occupied(p)) # 0
  BY <1>5, <1>7, FS_EmptySet
<1> QED
  BY <1>1, <1>2, <1>5, <1>6, <1>8 DEF Size

LEMMA WithType ==
    ASSUME NEW p \in PartitionType, NEW K \in SUBSET Key, IsFiniteSet(K)
    PROVE  /\ With(p, K) \in PartitionType
           /\ With(p, K).buckets = p.buckets
           /\ With(p, K).values = p.values \cup K
<1>1. p.values \subseteq Key /\ IsFiniteSet(p.values)
  BY DEF PartitionType
<1>2. IsFiniteSet(p.values \cup K)
  BY <1>1, FS_Union
<1> QED
  BY <1>1, <1>2 DEF With, PartitionType

LEMMA EmptyType ==
    ASSUME NEW n \in Nat
    PROVE  Empty(n) \in PartitionType
BY FS_EmptySet DEF Empty, PartitionType

\* Inserting a value takes at most one bucket.
LEMMA InsertSize ==
    ASSUME hash \in [Key -> Nat], NEW p \in PartitionType, p.buckets > 0, NEW k \in Key
    PROVE  Size(With(p, {k})) <= Size(p) + 1
<1> DEFINE q == With(p, {k})
<1>1. /\ q \in PartitionType /\ q.buckets = p.buckets
      /\ q.values = p.values \cup {k}
  <2>1. {k} \in SUBSET Key /\ IsFiniteSet({k})
    BY FS_Singleton
  <2> QED
    BY <2>1, WithType
<1>2. IsFiniteSet(p.values)
  BY DEF PartitionType
<1>3. Cardinality(q.values) <= Cardinality(p.values) + 1
  <2>1. Cardinality(p.values) \in Nat
    BY <1>2, FS_CardinalityType
  <2>2. Cardinality(p.values \cup {k}) =
            IF k \in p.values THEN Cardinality(p.values) ELSE Cardinality(p.values) + 1
    BY <1>2, FS_AddElement
  <2> QED
    BY <1>1, <2>1, <2>2
<1>4. Occupied(p) \subseteq Occupied(q)
  BY <1>1 DEF Occupied
<1>5. IsFiniteSet(Occupied(q)) /\ Cardinality(Occupied(q)) \in Nat /\ Cardinality(q.values) \in Nat
  BY <1>1, PartitionSize
<1>6. Cardinality(Occupied(p)) <= Cardinality(Occupied(q))
  BY <1>4, <1>5, FS_Subset
<1>7. Cardinality(Occupied(p)) \in Nat /\ Cardinality(p.values) \in Nat /\ p.buckets \in Nat
  BY PartitionSize DEF PartitionType
<1> QED
  BY <1>1, <1>3, <1>5, <1>6, <1>7 DEF Size

\* Two steps of growth make a table at least twice as large.
LEMMA GrowthEnough ==
    ASSUME NEW n \in Nat, n >= 2
    PROVE  /\ Grown(n) \in Nat /\ Grown(n) >= n
           /\ Grown(Grown(n)) >= 2 * n
BY DEF Grown

\* An empty partition has room: this is how the table grows for the first time.
LEMMA EmptyHasRoom ==
    ASSUME hash \in [Key -> Nat], NEW n \in Nat, n > 0
    PROVE  Size(Empty(n)) = n /\ HasRoom(Empty(n))
<1>1. Occupied(Empty(n)) = {}
  BY DEF Occupied, Empty
<1>2. Cardinality(Occupied(Empty(n))) = 0 /\ Cardinality(Empty(n).values) = 0
  BY <1>1, FS_EmptySet DEF Empty
<1>3. Size(Empty(n)) = n
  BY <1>2 DEF Size, Empty
<1> QED
  BY <1>3 DEF HasRoom, Capacity, Empty

\* Values as many as there are buckets have room, and one value more, wherever
\* they fall.
LEMMA FewHaveRoom ==
    ASSUME hash \in [Key -> Nat], NEW n \in Nat, n > 0,
           NEW K \in SUBSET Key, IsFiniteSet(K), Cardinality(K) <= n
    PROVE  HasRoom(With(Empty(n), K))
<1> DEFINE q == With(Empty(n), K)
<1>1. q \in PartitionType /\ q.buckets = n /\ q.values = K
  <2>1. Empty(n) \in PartitionType /\ Empty(n).buckets = n /\ Empty(n).values = {}
    BY EmptyType DEF Empty
  <2>2. /\ q \in PartitionType /\ q.buckets = Empty(n).buckets
        /\ q.values = Empty(n).values \cup K
    BY <2>1, WithType
  <2> QED
    BY <2>1, <2>2
<1> HIDE DEF q
<1>2. Cardinality(K) \in Nat /\ Cardinality(Occupied(q)) \in Nat
  BY <1>1, PartitionSize
<1>3. Cardinality(K) = 0 \/ Cardinality(Occupied(q)) > 0
  <2>1. CASE K = {}
    BY <2>1, FS_EmptySet
  <2>2. CASE K # {}
    BY <1>1, <2>2, PartitionSize
  <2> QED
    BY <2>1, <2>2
<1>4. Size(q) = n + Cardinality(K) - Cardinality(Occupied(q))
  BY <1>1 DEF Size
<1>5. Size(q) + 1 <= 2 * n
  BY <1>2, <1>3, <1>4
<1> QED
  BY <1>1, <1>5 DEF q, HasRoom, Capacity

\* What a partition holds, and one value more, has room in one of twice its
\* number of buckets.  So has each part of it, which is what the new partition
\* holds on the way.
LEMMA RehashHasRoom ==
    ASSUME hash \in [Key -> Nat], NEW p \in PartitionType, p.buckets > 0,
           Size(p) <= Capacity(p.buckets),
           NEW n \in Nat, n >= 2 * p.buckets,
           NEW K \in SUBSET p.values
    PROVE  HasRoom(With(Empty(n), K))
<1>1. p.buckets \in Nat /\ p.values \subseteq Key /\ IsFiniteSet(p.values)
  BY DEF PartitionType
<1>2. Cardinality(p.values) \in Nat /\ Cardinality(Occupied(p)) \in 0..p.buckets
  BY PartitionSize
<1>3. Cardinality(p.values) <= 2 * p.buckets
  BY <1>1, <1>2 DEF Size, Capacity
<1>4. IsFiniteSet(K) /\ Cardinality(K) <= Cardinality(p.values) /\ Cardinality(K) \in Nat
  BY <1>1, FS_Subset, FS_CardinalityType
<1>5. n > 0 /\ Cardinality(K) <= n /\ K \in SUBSET Key
  BY <1>1, <1>2, <1>3, <1>4
<1> QED
  BY <1>4, <1>5, FewHaveRoom

----------------------------------------------------------------------------
(* The inductive invariant.                                                *)

\* The hash function is one of those considered.
LEMMA HashType == TypeOK => hash \in [Key -> Nat]
BY HashesAssumption DEF TypeOK

\* What growing gives: the full table is the old insertion table, and the new
\* one has room for all that has to move.
LEMMA Growth ==
    ASSUME IInv
    PROVE  /\ Rehashed \in PartitionType
           /\ Rehashed.buckets = Grown(ins.buckets)
           /\ Rehashed.values = UNION {p.values : p \in full}
           /\ Grown(ins.buckets) >= InitialBuckets
           /\ HasRoom(Rehashed)
<1>1. hash \in [Key -> Nat]
  BY HashType DEF IInv
<1>2. ins \in PartitionType /\ ins.buckets \in Nat /\ ins.buckets >= InitialBuckets
  BY DEF IInv, TypeOK, SizesBounded, PartitionType
<1>3. ins.buckets >= 2
  BY <1>2, InitialBucketsAssumption
<1>4. Grown(ins.buckets) \in Nat /\ Grown(ins.buckets) >= InitialBuckets
  BY <1>2, <1>3, GrowthEnough, InitialBucketsAssumption
<1>5. Empty(Grown(ins.buckets)) \in PartitionType
      /\ Empty(Grown(ins.buckets)).buckets = Grown(ins.buckets)
      /\ Empty(Grown(ins.buckets)).values = {}
  BY <1>4, EmptyType DEF Empty
<1>6. CASE full = {}
  <2>1. UNION {p.values : p \in full} = {}
    BY <1>6
  <2>2. Rehashed = Empty(Grown(ins.buckets))
    BY <2>1 DEF Rehashed, With, Empty
  <2> QED
    BY <1>1, <1>4, <1>5, <2>1, <2>2, EmptyHasRoom, InitialBucketsAssumption
<1>7. CASE full # {}
  <2>1. PICK p \in PartitionType : full = {p}
    <3>1. PICK p \in full : TRUE
      BY <1>7
    <3> QED
      BY <3>1 DEF IInv, TypeOK
  <2>2. UNION {r.values : r \in full} = p.values
    BY <2>1
  <2>3. p.values \in SUBSET Key /\ IsFiniteSet(p.values) /\ p.buckets \in Nat
    BY DEF PartitionType
  <2>4. /\ p.buckets >= InitialBuckets /\ Size(p) <= Capacity(p.buckets)
        /\ ins.buckets = Grown(p.buckets)
    BY <2>1 DEF IInv, SizesBounded
  <2>5. p.buckets >= 2
    BY <2>3, <2>4, InitialBucketsAssumption
  <2>6. Grown(ins.buckets) >= 2 * p.buckets
    BY <2>3, <2>4, <2>5, GrowthEnough
  <2>7. Rehashed = With(Empty(Grown(ins.buckets)), p.values)
    BY <2>2 DEF Rehashed
  <2>8. HasRoom(Rehashed)
    <3>1. p.buckets > 0
      BY <2>3, <2>5
    <3>2. HasRoom(With(Empty(Grown(ins.buckets)), p.values))
      BY <1>1, <1>4, <2>4, <2>6, <3>1, RehashHasRoom
    <3> QED
      BY <2>7, <3>2
  <2>9. Rehashed \in PartitionType /\ Rehashed.buckets = Grown(ins.buckets)
        /\ Rehashed.values = p.values
    <3> DEFINE e == Empty(Grown(ins.buckets))
    <3>1. e \in PartitionType /\ e.buckets = Grown(ins.buckets) /\ e.values = {}
      BY <1>5
    <3> HIDE DEF e
    <3>2. /\ With(e, p.values) \in PartitionType
          /\ With(e, p.values).buckets = e.buckets
          /\ With(e, p.values).values = e.values \cup p.values
      BY <2>3, <3>1, WithType
    <3> QED
      BY <2>7, <3>1, <3>2 DEF e
  <2> QED
    BY <1>4, <2>2, <2>8, <2>9
<1> QED
  BY <1>6, <1>7

\* Looking a key up changes nothing.
LEMMA FindStep ==
    ASSUME IInv, NEW k \in Key, Find(k)
    PROVE  IInv'
<1>1. UNCHANGED << hash, full, ins, failed >> /\ found' \in BOOLEAN
  BY DEF Find, Lookup
<1>2. TypeOK'
  BY <1>1 DEF IInv, TypeOK
<1>3. SizesBounded'
  BY <1>1 DEF IInv, SizesBounded, Size, Occupied
<1> QED
  BY <1>1, <1>2, <1>3 DEF IInv, GrowthHasRoom

\* Inserting a key keeps the sizes within bounds, and does not abort.
LEMMA InsertStep ==
    ASSUME IInv, NEW k \in Key, Insert(k), hash' = hash, found' \in BOOLEAN
    PROVE  IInv'
<1>1. hash \in [Key -> Nat] /\ hash \in Hashes
  BY HashType DEF IInv, TypeOK
<1>2. ins \in PartitionType /\ ins.buckets \in Nat /\ ins.buckets >= InitialBuckets
  BY DEF IInv, TypeOK, SizesBounded, PartitionType
<1>3. \A p \in PartitionType : p.buckets > 0 /\ HasRoom(p) =>
        /\ With(p, {k}) \in PartitionType
        /\ With(p, {k}).buckets = p.buckets
        /\ Size(With(p, {k})) <= Capacity(p.buckets)
  <2> SUFFICES ASSUME NEW p \in PartitionType, p.buckets > 0, HasRoom(p)
               PROVE  /\ With(p, {k}) \in PartitionType
                      /\ With(p, {k}).buckets = p.buckets
                      /\ Size(With(p, {k})) <= Capacity(p.buckets)
    OBVIOUS
  <2>1. {k} \in SUBSET Key /\ IsFiniteSet({k})
    BY FS_Singleton
  <2>2. With(p, {k}) \in PartitionType /\ With(p, {k}).buckets = p.buckets
    BY <2>1, WithType
  <2>3. Size(p) \in Int /\ Size(With(p, {k})) \in Int
    BY <1>1, <2>2, PartitionSize
  <2>4. Size(With(p, {k})) <= Size(p) + 1
    BY <1>1, InsertSize
  <2>5. p.buckets \in Nat
    BY DEF PartitionType
  <2> QED
    BY <2>2, <2>3, <2>4, <2>5 DEF HasRoom, Capacity
<1>4. ins.buckets > 0
  BY <1>2, InitialBucketsAssumption
<1>5. \A p : Size(p)' = Size(p)
  BY DEF Size, Occupied
<1>6. CASE HasRoom(ins)
  <2>1. ins' = With(ins, {k}) /\ full' = full /\ failed' = failed
    BY <1>6 DEF Insert
  <2>2. /\ ins' \in PartitionType /\ ins'.buckets = ins.buckets
        /\ Size(ins') <= Capacity(ins.buckets)
    BY <1>2, <1>3, <1>4, <1>6, <2>1
  <2> QED
    BY <1>1, <1>5, <2>1, <2>2 DEF IInv, TypeOK, SizesBounded, GrowthHasRoom
<1>7. CASE ~HasRoom(ins)
  <2>1. /\ Rehashed \in PartitionType /\ Rehashed.buckets = Grown(ins.buckets)
        /\ Grown(ins.buckets) >= InitialBuckets /\ HasRoom(Rehashed)
    BY Growth
  <2>2. full' = {ins} /\ ins' = With(Rehashed, {k}) /\ failed' = failed
    BY <1>7, <2>1 DEF Insert
  <2>3. Rehashed.buckets > 0
    BY <2>1, InitialBucketsAssumption DEF PartitionType
  <2>4. /\ ins' \in PartitionType /\ ins'.buckets = Grown(ins.buckets)
        /\ Size(ins') <= Capacity(ins'.buckets)
    BY <1>3, <2>1, <2>2, <2>3
  <2>5. Size(ins) <= Capacity(ins.buckets)
    BY DEF IInv, SizesBounded
  <2> QED
    BY <1>1, <1>2, <1>5, <2>1, <2>2, <2>4, <2>5
       DEF IInv, TypeOK, SizesBounded, GrowthHasRoom
<1> QED
  BY <1>6, <1>7

LEMMA InternStep ==
    ASSUME IInv, NEW k \in Key, Intern(k)
    PROVE  IInv'
<1>1. hash' = hash /\ found' \in BOOLEAN
  BY DEF Intern, Lookup
<1>2. CASE Lookup(k)
  <2>1. UNCHANGED << full, ins, failed >>
    BY <1>2 DEF Intern
  <2> QED
    BY <1>1, <2>1 DEF IInv, TypeOK, SizesBounded, Size, Occupied, GrowthHasRoom
<1>3. CASE ~Lookup(k)
  BY <1>1, <1>3, InsertStep DEF Intern
<1> QED
  BY <1>2, <1>3

LEMMA InitIInv == Init => IInv
<1> SUFFICES ASSUME Init
             PROVE  IInv
  OBVIOUS
<1>1. InitialBuckets \in Nat /\ InitialBuckets >= 2 /\ hash \in [Key -> Nat]
  BY InitialBucketsAssumption, HashesAssumption DEF Init
<1>2. Empty(InitialBuckets) \in PartitionType
  BY <1>1, EmptyType
<1>3. Size(Empty(InitialBuckets)) = InitialBuckets
  BY <1>1, EmptyHasRoom
<1>4. TypeOK
  BY <1>2 DEF Init, TypeOK
<1>5. SizesBounded
  BY <1>1, <1>3 DEF Init, SizesBounded, Capacity, Empty
<1> QED
  BY <1>4, <1>5 DEF Init, IInv, GrowthHasRoom

LEMMA NextIInv ==
    ASSUME IInv, [Next]_vars
    PROVE  IInv'
<1>1. CASE UNCHANGED vars
  BY <1>1 DEF vars, IInv, TypeOK, SizesBounded, Size, Occupied, GrowthHasRoom
<1> QED
  BY <1>1, FindStep, InternStep DEF Next

\* The partitions keep within what they have reserved.
THEOREM Invariance == Spec => []IInv
BY InitIInv, NextIInv, PTL DEF Spec

\* Growing the table never aborts the process: a partition two steps larger has
\* room for whatever the old full table held.
THEOREM NeverAborts == Spec => []GrowthHasRoom
BY Invariance, PTL DEF IInv

----------------------------------------------------------------------------
(* HashTable implements InternTable.                                       *)

LEMMA InsertEnters ==
    ASSUME IInv, NEW k \in Key, Insert(k)
    PROVE  Stored' = Stored \cup {k}
<1>1. CASE HasRoom(ins)
  <2>1. ins' = With(ins, {k}) /\ full' = full
    BY <1>1 DEF Insert
  <2>2. ins'.values = ins.values \cup {k}
    BY <2>1 DEF With, IInv, TypeOK, PartitionType
  <2> QED
    BY <2>1, <2>2 DEF Stored
<1>2. CASE ~HasRoom(ins)
  <2>1. /\ Rehashed.values = UNION {p.values : p \in full} /\ HasRoom(Rehashed)
        /\ Rehashed \in PartitionType
    BY Growth
  <2>2. full' = {ins} /\ ins' = With(Rehashed, {k})
    BY <1>2, <2>1 DEF Insert
  <2>3. ins'.values = Rehashed.values \cup {k}
    BY <2>1, <2>2 DEF With, PartitionType
  <2>4. Stored' = ins.values \cup ins'.values
    BY <2>2 DEF Stored
  <2>5. Stored = Rehashed.values \cup ins.values
    BY <2>1 DEF Stored
  <2> QED
    BY <2>3, <2>4, <2>5
<1> QED
  BY <1>1, <1>2

\* Lookups answer as those of a set that only ever grows: growing loses nothing.
THEOREM Refinement == Spec => ImplementsInterning
<1>1. Init => Interning!InternInit
  BY DEF Init, Interning!InternInit, Stored, Empty
<1>2. IInv /\ [Next]_vars => [Interning!InternNext]_(Interning!internVars)
  <2> SUFFICES ASSUME IInv, [Next]_vars
               PROVE  [Interning!InternNext]_(Interning!internVars)
    OBVIOUS
  <2>1. ASSUME NEW k \in Key, Find(k)
        PROVE  Interning!Look(k)
    BY <2>1 DEF Find, Lookup, Stored, Interning!Look
  <2>2. ASSUME NEW k \in Key, Intern(k)
        PROVE  Interning!LookAndEnter(k)
    <3>1. CASE Lookup(k)
      BY <2>2, <3>1 DEF Intern, Lookup, Stored, Interning!LookAndEnter
    <3>2. CASE ~Lookup(k)
      BY <2>2, <3>2, InsertEnters DEF Intern, Lookup, Interning!LookAndEnter
    <3> QED
      BY <3>1, <3>2
  <2>3. CASE UNCHANGED vars
    BY <2>3 DEF vars, Stored, Interning!internVars
  <2> QED
    BY <2>1, <2>2, <2>3 DEF Next, Interning!InternNext
<1> QED
  BY <1>1, <1>2, Invariance, PTL DEF Spec, ImplementsInterning, Interning!InternSpec

----------------------------------------------------------------------------
(* Chains.  The next of every bucket is the newest of the buckets it has    *)
(* still to lead to: home is the hash bucket of each bucket's chain.        *)

\* A set of numbers that is not empty has a least one: this takes the place of
\* induction, here over the buckets of an array.
LEMMA Least ==
    ASSUME NEW S \in SUBSET Nat, S # {}
    PROVE  \E m \in S : \A i \in S : m <= i
<1>1. PICK m \in S : \A i \in S : ~ (<< i, m >> \in OpToRel(<, Nat))
  BY NatLessThanWellFounded, WFMin
<1>2. ASSUME NEW i \in S
      PROVE  m <= i
  <2>1. m \in Nat /\ i \in Nat
    OBVIOUS
  <2>2. << i, m >> \in Nat \X Nat /\ << i, m >>[1] = i /\ << i, m >>[2] = m
    BY <2>1
  <2>3. ~ (i < m)
    BY <1>1, <2>2 DEF OpToRel
  <2> QED BY <2>1, <2>3
<1> QED BY <1>2

Chains(hb, L, home, next) ==
    /\ \A i \in 1..hb : home[i] = i
    /\ \A i \in 1..L :
          \/ next[i] = 0
          \/ /\ next[i] \in (hb + 1)..L
             /\ home[next[i]] = home[i]
             /\ i > hb => next[i] < i
    /\ \A i \in 1..L : \A j \in (hb + 1)..L :
          home[j] = home[i] /\ (i > hb => j < i) => j <= next[i]

HasPredecessor(L, home, next, i) ==
    \E j \in 1..L :
        /\ next[j] = i /\ home[j] = home[i]
        /\ j > i \/ j = home[i]
        /\ \A x \in 1..L : next[x] = i => x = j

\* A bucket behind the hash buckets follows exactly one other, which is newer or
\* the head of its chain.
LEMMA ChainPredecessor ==
    ASSUME NEW hb \in Nat \ {0}, NEW L \in Nat, hb <= L,
           NEW home \in [1..L -> 1..hb], NEW next \in [1..L -> Nat],
           Chains(hb, L, home, next),
           NEW i \in (hb + 1)..L
    PROVE  HasPredecessor(L, home, next, i)
<1> DEFINE U == {j \in (hb + 1)..L : j > i /\ home[j] = home[i]}
<1>1. i \in 1..L /\ home[i] \in 1..hb /\ 1..hb \subseteq 1..L
  OBVIOUS
<1>2. PICK h \in 1..hb : h = home[i] /\ home[h] = h /\ h \in 1..L
  BY <1>1 DEF Chains
<1>3. PICK j \in 1..L : next[j] = i /\ home[j] = h /\ (j > i \/ j = h)
  <2>1. CASE U = {}
    <3>1. i <= next[h]
      BY <1>1, <1>2 DEF Chains
    <3>2. next[h] \in (hb + 1)..L /\ home[next[h]] = h
      <4>1. next[h] # 0
        BY <1>2, <3>1
      <4> QED BY <1>2, <4>1 DEF Chains
    <3>3. ~ (next[h] > i)
      <4> DEFINE n == next[h]
      <4>1. n \in (hb + 1)..L /\ home[n] = home[i]
        BY <1>2, <3>2
      <4> HIDE DEF n
      <4>2. ~ (n > i)
        BY <2>1, <4>1
      <4> QED BY <4>2 DEF n
    <3> QED BY <1>1, <1>2, <3>1, <3>2, <3>3
  <2>2. CASE U # {}
    <3>1. U \in SUBSET Nat
      OBVIOUS
    <3>2. PICK j \in U : \A x \in U : j <= x
      BY <2>2, <3>1, Least
    <3>3. j \in (hb + 1)..L /\ j > i /\ home[j] = h /\ j \in 1..L
      BY <1>2, <3>2
    <3>4. i <= next[j]
      BY <1>1, <1>2, <3>3 DEF Chains
    <3>5. next[j] \in (hb + 1)..L /\ home[next[j]] = h /\ next[j] < j
      BY <1>1, <1>2, <3>3, <3>4 DEF Chains
    <3>6. ~ (next[j] > i)
      <4> DEFINE n == next[j]
      <4>1. n \in (hb + 1)..L /\ home[n] = home[i] /\ ~ (j <= n)
        BY <1>2, <3>3, <3>5
      <4> HIDE DEF n
      <4>2. ~ (n > i)
        BY <3>2, <4>1
      <4> QED BY <4>2 DEF n
    <3> QED BY <1>1, <3>3, <3>4, <3>5, <3>6
  <2> QED BY <2>1, <2>2
<1>4. ASSUME NEW x \in 1..L, next[x] = i
      PROVE  x = j
  <2>1. home[x] = h
    <3>1. next[x] # 0
      BY <1>4
    <3>2. home[next[x]] = home[x]
      BY <3>1 DEF Chains
    <3> QED BY <1>2, <1>4, <3>2
  <2>2. x <= hb => x = h
    BY <2>1 DEF Chains
  <2>3. j <= hb => j = h
    BY <1>3 DEF Chains
  <2>4. ASSUME x > hb, j > hb => x < j
        PROVE  x <= i
    <3>1. x \in (hb + 1)..L /\ home[x] = home[j]
      BY <1>3, <2>1, <2>4
    <3>2. x <= next[j]
      BY <2>4, <3>1 DEF Chains
    <3> QED BY <1>3, <3>2
  <2>5. ASSUME j > hb, x > hb => j < x
        PROVE  j <= i
    <3>1. j \in (hb + 1)..L /\ home[j] = home[x]
      BY <1>3, <2>1, <2>5
    <3>2. j <= next[x]
      BY <2>5, <3>1 DEF Chains
    <3> QED BY <1>4, <3>2
  <2>6. ASSUME x > hb
        PROVE  x > i
    <3>1. next[x] # 0
      BY <1>4
    <3>2. x \in 1..L /\ next[x] < x
      BY <2>6, <3>1 DEF Chains
    <3> QED BY <1>4, <3>2
  <2>7. j > hb => j > i
    BY <1>2, <1>3
  <2> QED BY <1>3, <2>2, <2>3, <2>4, <2>5, <2>6, <2>7
<1> QED BY <1>2, <1>3, <1>4 DEF HasPredecessor

Pushed(L, h, home, next, home2, next2) ==
    /\ \A i \in 1..L : home2[i] = home[i] /\ next2[i] = IF i = h THEN L + 1 ELSE next[i]
    /\ home2[L + 1] = h
    /\ next2[L + 1] = next[h]

\* A new bucket that comes second in its chain keeps every chain in order.
LEMMA ChainPush ==
    ASSUME NEW hb \in Nat \ {0}, NEW L \in Nat, hb <= L,
           NEW home \in [1..L -> 1..hb], NEW next \in [1..L -> Nat],
           Chains(hb, L, home, next),
           NEW h \in 1..hb, NEW home2, NEW next2, Pushed(L, h, home, next, home2, next2)
    PROVE  Chains(hb, L + 1, home2, next2)
<1>0. /\ \A i \in 1..L : home2[i] = home[i] /\ next2[i] = IF i = h THEN L + 1 ELSE next[i]
      /\ home2[L + 1] = h /\ next2[L + 1] = next[h]
  BY DEF Pushed
<1>1. h \in 1..L /\ home[h] = h /\ home2[h] = h
  BY <1>0 DEF Chains
<1>2. \A i \in 1..hb : home2[i] = i
  BY <1>0 DEF Chains
<1>3. ASSUME NEW i \in 1..(L + 1)
      PROVE  /\ \/ next2[i] = 0
                \/ /\ next2[i] \in (hb + 1)..(L + 1)
                   /\ home2[next2[i]] = home2[i]
                   /\ i > hb => next2[i] < i
             /\ \A j \in (hb + 1)..(L + 1) :
                   home2[j] = home2[i] /\ (i > hb => j < i) => j <= next2[i]
  <2>1. CASE i = L + 1
    <3>1. next2[i] = next[h] /\ home2[i] = h
      BY <1>0, <2>1
    <3>2. next[h] = 0 \/ (next[h] \in (hb + 1)..L /\ home[next[h]] = h)
      BY <1>1 DEF Chains
    <3>3. \A n \in (hb + 1)..L : n \in 1..L /\ n < L + 1
      BY ONLY hb \in Nat \ {0}, L \in Nat
    <3>4. \A j \in (hb + 1)..L : home[j] = h => j <= next[h]
      BY <1>1 DEF Chains
    <3>5. \A j \in (hb + 1)..(L + 1) : j < L + 1 => j \in (hb + 1)..L /\ home2[j] = home[j]
      BY <1>0
    <3>6. \/ next2[i] = 0
          \/ next2[i] \in (hb + 1)..(L + 1) /\ home2[next2[i]] = home2[i] /\ next2[i] < i
      <4>1. CASE next[h] = 0
        BY <3>1, <4>1
      <4>2. CASE next[h] \in (hb + 1)..L /\ home[next[h]] = h
        <5>1. next[h] \in 1..L /\ next[h] < i /\ next[h] \in (hb + 1)..(L + 1)
          BY <2>1, <3>3, <4>2, SMTT(20)
        <5>2. home2[next[h]] = h
          BY <1>0, <4>2, <5>1
        <5> QED BY <3>1, <5>1, <5>2
      <4> QED BY <3>2, <4>1, <4>2
    <3>7. ASSUME NEW j \in (hb + 1)..(L + 1), home2[j] = home2[i], i > hb => j < i
          PROVE  j <= next2[i]
      <4>1. j < L + 1
        BY <2>1, <3>7
      <4>2. j \in (hb + 1)..L /\ home[j] = h
        BY <1>0, <3>1, <3>5, <3>7, <4>1
      <4> QED BY <3>1, <3>4, <4>2
    <3> QED BY <3>6, <3>7
  <2>2. CASE i = h
    BY <1>0, <1>1, <2>2
  <2>3. CASE i \in 1..L /\ i # h
    <3>1. next2[i] = next[i] /\ home2[i] = home[i]
      BY <1>0, <2>3
    <3>2. \/ next[i] = 0
          \/ next[i] \in (hb + 1)..L /\ home[next[i]] = home[i] /\ (i > hb => next[i] < i)
      BY <2>3 DEF Chains
    <3>3. \A j \in (hb + 1)..L : home[j] = home[i] /\ (i > hb => j < i) => j <= next[i]
      BY <2>3 DEF Chains
    <3>4. ~ (home2[L + 1] = home2[i] /\ (i > hb => L + 1 < i))
      BY <1>0, <2>3, <3>1 DEF Chains
    <3>5. ASSUME NEW j \in (hb + 1)..(L + 1), home2[j] = home2[i], i > hb => j < i
          PROVE  j <= next2[i]
      <4>1. j # L + 1
        BY <3>4, <3>5
      <4>2. j \in (hb + 1)..L
        BY <4>1
      <4>3. home[j] = home[i]
        BY <1>0, <3>1, <3>5, <4>2, SMTT(20)
      <4> QED BY <3>1, <3>3, <3>5, <4>2, <4>3
    <3>6. \/ next2[i] = 0
          \/ next2[i] \in (hb + 1)..(L + 1) /\ home2[next2[i]] = home2[i] /\ (i > hb => next2[i] < i)
      <4>1. CASE next[i] = 0
        BY <3>1, <4>1
      <4>2. CASE next[i] # 0
        <5>1. next[i] \in (hb + 1)..L /\ next[i] \in 1..L
          BY <3>2, <4>2
        <5>2. home2[next[i]] = home[next[i]]
          BY <1>0, <5>1
        <5>3. home[next[i]] = home[i] /\ (i > hb => next[i] < i)
          BY <3>2, <4>2
        <5>4. next2[i] \in (hb + 1)..(L + 1)
          BY <3>1, <5>1, SMTT(20)
        <5> QED BY <3>1, <5>2, <5>3, <5>4, SMTT(20)
      <4> QED BY <4>1, <4>2
    <3> QED BY <3>5, <3>6
  <2> QED BY <2>1, <2>2, <2>3
<1> QED BY <1>2, <1>3 DEF Chains

\* F: the buckets from which a walk along the chain meets a hit before it meets
\* a bucket that is not in use.
Walk(L, next, used, hits, F) ==
    \A i \in 0..L : i \in F <=> i # 0 /\ i \in used /\ (i \in hits \/ next[i] \in F)

Reached(hb, L, home, used, hits) ==
    {i \in 1..L : /\ i \in used
                  /\ \/ i \in hits
                     \/ \E j \in (hb + 1)..L :
                           j \in hits /\ home[j] = home[i] /\ (i > hb => j < i)}

LEMMA WalkExists ==
    ASSUME NEW hb \in Nat \ {0}, NEW L \in Nat, hb <= L,
           NEW home \in [1..L -> 1..hb], NEW next \in [1..L -> Nat],
           Chains(hb, L, home, next),
           NEW used, (hb + 1)..L \subseteq used, NEW hits
    PROVE  Walk(L, next, used, hits, Reached(hb, L, home, used, hits))
<1> DEFINE F == Reached(hb, L, home, used, hits)
<1>1. \A i \in 0..L : i \in F <=>
          /\ i # 0 /\ i \in used
          /\ \/ i \in hits
             \/ \E j \in (hb + 1)..L :
                   j \in hits /\ home[j] = home[i] /\ (i > hb => j < i)
  BY DEF Reached
<1> HIDE DEF F
<1> SUFFICES ASSUME NEW i \in 1..L, i \in used, i \notin hits
             PROVE  i \in F <=> next[i] \in F
  <2>1. 0 \notin F
    BY <1>1
  <2> QED BY <1>1, <2>1 DEF Walk, F
<1>2. CASE next[i] = 0
  <2>1. \A j \in (hb + 1)..L : ~ (home[j] = home[i] /\ (i > hb => j < i))
    BY <1>2 DEF Chains
  <2> QED BY <1>1, <1>2, <2>1
<1>3. CASE next[i] # 0
  <2>1. PICK n \in (hb + 1)..L : n = next[i] /\ home[n] = home[i] /\ (i > hb => n < i)
    BY <1>3 DEF Chains
  <2>2. \A j \in (hb + 1)..L : home[j] = home[i] /\ (i > hb => j < i) => j <= n
    BY <2>1 DEF Chains
  <2>3. n \in 0..L /\ n # 0 /\ n \in used /\ n > hb
    <3>1. n \in used
      OBVIOUS
    <3>2. n \in 0..L /\ n # 0 /\ n > hb
      OBVIOUS
    <3> QED BY <3>1, <3>2
  <2>4. n \in F <=> \/ n \in hits
                    \/ \E j \in (hb + 1)..L : j \in hits /\ home[j] = home[n] /\ j < n
    BY <1>1, <2>3
  <2>5. \A j \in (hb + 1)..L :
            home[j] = home[i] /\ (i > hb => j < i) <=> j = n \/ (home[j] = home[n] /\ j < n)
    <3> TAKE j \in (hb + 1)..L
    <3>1. CASE home[j] = home[i] /\ (i > hb => j < i)
      <4>1. j <= n
        BY <2>2, <3>1
      <4> QED BY <2>1, <3>1, <4>1
    <3>2. CASE ~ (home[j] = home[i] /\ (i > hb => j < i))
      <4>1. j # n
        BY <2>1, <3>2
      <4>2. ASSUME home[j] = home[n], j < n
            PROVE  FALSE
        <5>1. home[j] = home[i]
          BY <2>1, <4>2
        <5>2. i > hb => j < i
          BY <2>1, <4>2
        <5> QED BY <3>2, <5>1, <5>2
      <4> QED BY <3>2, <4>1, <4>2
    <3> QED BY <3>1, <3>2
  <2>6. i \in F <=> \E j \in (hb + 1)..L :
                        j \in hits /\ home[j] = home[i] /\ (i > hb => j < i)
    BY <1>1
  <2> QED BY <2>1, <2>4, <2>5, <2>6
<1> QED BY <1>2, <1>3

SameWalk(L, F, G) == \A i \in 0..L : i \in F <=> i \in G

\* A walk ends, since it leads to older buckets: what it meets is determined.
LEMMA WalkUnique ==
    ASSUME NEW hb \in Nat \ {0}, NEW L \in Nat, hb <= L,
           NEW home \in [1..L -> 1..hb], NEW next \in [1..L -> Nat],
           Chains(hb, L, home, next),
           NEW used, NEW hits,
           NEW F, Walk(L, next, used, hits, F),
           NEW G, Walk(L, next, used, hits, G)
    PROVE  SameWalk(L, F, G)
<1> DEFINE D == {i \in 0..L : ~ (i \in F <=> i \in G)}
           T == {i \in D : i = 0 \/ i > hb}
<1>1. T = {}
  <2> SUFFICES ASSUME T # {}
               PROVE  FALSE
    OBVIOUS
  <2>1. PICK m \in T : \A i \in T : m <= i
    <3>1. T \in SUBSET Nat
      OBVIOUS
    <3> QED BY <3>1, Least
  <2>2. m \in 0..L /\ m # 0 /\ m > hb
    BY <2>1 DEF Walk
  <2>3. next[m] \in 0..L /\ next[m] < m /\ (next[m] = 0 \/ next[m] > hb)
    BY <2>2 DEF Chains
  <2>4. next[m] \notin T
    <3>1. ~ (m <= next[m])
      BY <2>2, <2>3
    <3> HIDE DEF T
    <3> QED BY <2>1, <3>1
  <2>5. next[m] \in F <=> next[m] \in G
    BY <2>3, <2>4
  <2> QED BY <2>1, <2>2, <2>5 DEF Walk
<1>2. ASSUME NEW i \in 0..L
      PROVE  i \in F <=> i \in G
  <2>1. CASE i = 0 \/ i > hb
    BY <1>1, <2>1
  <2>2. CASE i \in 1..hb
    <3>1. next[i] \in 0..L /\ (next[i] = 0 \/ next[i] > hb)
      BY <2>2 DEF Chains
    <3>2. next[i] \in F <=> next[i] \in G
      BY <1>1, <3>1
    <3> QED BY <2>2, <3>2 DEF Walk
  <2> QED BY <2>1, <2>2
<1> QED BY <1>2 DEF SameWalk

----------------------------------------------------------------------------
(* HashBuckets: the array of a partition.                                  *)

LEMMA BucketTypes ==
    ASSUME hash \in [Key -> Nat], NEW p \in BucketPartition
    PROVE  /\ p.hash_buckets \in Nat \ {0}
           /\ p.buckets \in Seq(Bucket) /\ Len(p.buckets) \in Nat
           /\ DOMAIN p.buckets = 1..Len(p.buckets)
           /\ p.hash_buckets <= Len(p.buckets)
           /\ p.overflow = FALSE
           /\ \A i \in 1..Len(p.buckets) :
                  /\ p.buckets[i] \in Bucket
                  /\ p.buckets[i].value \in Key \cup {NoKey}
                  /\ p.buckets[i].next \in Nat
           /\ \A k \in Key : Index(p, k) \in 1..p.hash_buckets
<1>1. /\ p \in [hash_buckets : Nat \ {0}, buckets : Seq(Bucket), overflow : {FALSE}]
      /\ p.hash_buckets <= Len(p.buckets)
  BY DEF BucketPartition
<1>2. /\ p.hash_buckets \in Nat \ {0} /\ p.buckets \in Seq(Bucket)
      /\ p.overflow = FALSE
  BY <1>1
<1>3. Len(p.buckets) \in Nat /\ DOMAIN p.buckets = 1..Len(p.buckets)
  BY <1>2
<1>4. ASSUME NEW i \in 1..Len(p.buckets)
      PROVE  /\ p.buckets[i] \in Bucket
             /\ p.buckets[i].value \in Key \cup {NoKey}
             /\ p.buckets[i].next \in Nat
  <2>1. p.buckets[i] \in Bucket
    BY <1>2, ElementOfSeq
  <2> QED BY <2>1 DEF Bucket
<1>5. ASSUME NEW k \in Key
      PROVE  Index(p, k) \in 1..p.hash_buckets
  <2>1. hash[k] \in Nat
    OBVIOUS
  <2> QED BY <1>2, <2>1 DEF Index
<1> QED BY <1>1, <1>2, <1>3, <1>4, <1>5

\* What Partition::Insert does to the array.
LEMMA InsertArray ==
    ASSUME hash \in [Key -> Nat], NEW p \in BucketPartition, NEW k \in Key, ~ Overflows(p)
    PROVE  LET q == PartitionInsert(p, k)
               i == Index(p, k)
               L == Len(p.buckets)
           IN  /\ q \in BucketPartition /\ q.hash_buckets = p.hash_buckets
               /\ p.buckets[i].value = NoKey =>
                    /\ Len(q.buckets) = L
                    /\ \A j \in 1..L :
                          /\ q.buckets[j].value = IF j = i THEN k ELSE p.buckets[j].value
                          /\ q.buckets[j].next = p.buckets[j].next
               /\ p.buckets[i].value # NoKey =>
                    /\ Len(q.buckets) = L + 1
                    /\ \A j \in 1..L :
                          /\ q.buckets[j].value = p.buckets[j].value
                          /\ q.buckets[j].next = IF j = i THEN L + 1 ELSE p.buckets[j].next
                    /\ q.buckets[L + 1].value = k
                    /\ q.buckets[L + 1].next = p.buckets[i].next
<1> DEFINE q == PartitionInsert(p, k)
           i == Index(p, k)
           b == p.buckets
           L == Len(b)
<1>1. /\ b \in Seq(Bucket) /\ L \in Nat /\ p.hash_buckets \in Nat \ {0} /\ p.hash_buckets <= L
      /\ p.overflow = FALSE
      /\ i \in 1..L
      /\ \A j \in 1..L : b[j] \in Bucket
  <2>1. /\ b \in Seq(Bucket) /\ L \in Nat /\ p.hash_buckets \in Nat \ {0} /\ p.hash_buckets <= L
        /\ p.overflow = FALSE
        /\ i \in 1..p.hash_buckets
        /\ \A j \in 1..L : b[j] \in Bucket
    BY BucketTypes
  <2> HIDE DEF i, L
  <2>2. i \in 1..L
    BY <2>1
  <2> QED BY <2>1, <2>2 DEF i, L
<1>2. p \in [hash_buckets : Nat \ {0}, buckets : Seq(Bucket), overflow : {FALSE}]
  BY DEF BucketPartition
<1>3. \A s \in Seq(Bucket) : Len(s) >= L =>
          /\ [p EXCEPT !.buckets = s] \in BucketPartition
          /\ [p EXCEPT !.buckets = s].hash_buckets = p.hash_buckets
          /\ [p EXCEPT !.buckets = s].buckets = s
  <2> SUFFICES ASSUME NEW s \in Seq(Bucket), Len(s) >= L
               PROVE  /\ [p EXCEPT !.buckets = s] \in BucketPartition
                      /\ [p EXCEPT !.buckets = s].hash_buckets = p.hash_buckets
                      /\ [p EXCEPT !.buckets = s].buckets = s
    OBVIOUS
  <2> DEFINE r == [p EXCEPT !.buckets = s]
  <2>1. r \in [hash_buckets : Nat \ {0}, buckets : Seq(Bucket), overflow : {FALSE}]
        /\ r.hash_buckets = p.hash_buckets /\ r.buckets = s
    BY <1>2
  <2>2. Len(s) \in Nat
    OBVIOUS
  <2> HIDE DEF r
  <2>3. Len(r.buckets) >= r.hash_buckets
    BY <1>1, <2>1, <2>2
  <2> QED BY <2>1, <2>3 DEF r, BucketPartition
<1>4. CASE b[i].value = NoKey
  <2> DEFINE e == [b[i] EXCEPT !.value = k]
             s == [b EXCEPT ![i] = e]
  <2>1. q = [p EXCEPT !.buckets = s]
    BY <1>1, <1>4 DEF PartitionInsert
  <2>2. e \in Bucket /\ e.value = k /\ e.next = b[i].next
    BY <1>1 DEF Bucket
  <2> HIDE DEF e
  <2>3. s \in Seq(Bucket) /\ Len(s) = L /\ \A j \in 1..L : s[j] = IF j = i THEN e ELSE b[j]
    BY <1>1, <2>2, ExceptSeq, SMTT(20)
  <2> HIDE DEF s, q
  <2>4. q \in BucketPartition /\ q.hash_buckets = p.hash_buckets /\ q.buckets = s
    BY <1>1, <1>3, <2>1, <2>3
  <2> QED BY <1>1, <1>4, <2>2, <2>3, <2>4 DEF q
<1>5. CASE b[i].value # NoKey
  <2> DEFINE e == [b[i] EXCEPT !.next = L + 1]
             t == [b EXCEPT ![i] = e]
             n == [value |-> k, next |-> b[i].next]
             s == Append(t, n)
  <2>1. q = [p EXCEPT !.buckets = s]
    <3>1. q = [p EXCEPT !.buckets = Chained(p, i, k)]
      BY <1>1, <1>5 DEF PartitionInsert
    <3>2. Chained(p, i, k) = s
      BY Zenon DEF Chained, kInvalidIndex
    <3> QED BY <3>1, <3>2
  <2>2. /\ e \in Bucket /\ e.next = L + 1 /\ e.value = b[i].value
        /\ n \in Bucket /\ n.value = k /\ n.next = b[i].next
    <3>1. b[i] \in Bucket /\ L + 1 \in Nat
      BY <1>1
    <3>2. e \in Bucket /\ e.next = L + 1 /\ e.value = b[i].value
      BY <3>1 DEF Bucket
    <3>3. n \in Bucket
      BY <3>1 DEF Bucket
    <3> QED BY <3>2, <3>3
  <2> HIDE DEF e, n
  <2>3. t \in Seq(Bucket) /\ Len(t) = L /\ \A j \in 1..L : t[j] = IF j = i THEN e ELSE b[j]
    BY <1>1, <2>2, ExceptSeq, SMTT(20)
  <2> HIDE DEF t
  <2>4. /\ s \in Seq(Bucket) /\ Len(s) = L + 1 /\ s[L + 1] = n
        /\ \A j \in 1..L : s[j] = t[j]
    BY <2>2, <2>3, AppendProperties, SMTT(20)
  <2> HIDE DEF s, q
  <2>5. q \in BucketPartition /\ q.hash_buckets = p.hash_buckets /\ q.buckets = s
    BY <1>1, <1>3, <2>1, <2>4
  <2> QED BY <1>1, <1>5, <2>2, <2>3, <2>4, <2>5 DEF q
<1> QED BY <1>4, <1>5

HomeOf(p) == [i \in 1..Len(p.buckets) |-> Home(p, i)]
NextOf(p) == [i \in 1..Len(p.buckets) |-> p.buckets[i].next]

LEMMA HomeTypes ==
    ASSUME hash \in [Key -> Nat], NEW p \in BucketPartition, ValuesInPlace(p)
    PROVE  /\ HomeOf(p) \in [1..Len(p.buckets) -> 1..p.hash_buckets]
           /\ NextOf(p) \in [1..Len(p.buckets) -> Nat]
           /\ \A i \in 1..p.hash_buckets : Home(p, i) = i
           /\ \A i \in (p.hash_buckets + 1)..Len(p.buckets) :
                  /\ p.buckets[i].value \in Key
                  /\ Home(p, i) = Index(p, p.buckets[i].value)
                  /\ Home(p, i) \in 1..p.hash_buckets
                  /\ p.buckets[Home(p, i)].value # NoKey
<1> DEFINE b == p.buckets
           hb == p.hash_buckets
           L == Len(b)
<1>1. /\ hb \in Nat \ {0} /\ L \in Nat /\ hb <= L
      /\ \A i \in 1..L : b[i].value \in Key \cup {NoKey} /\ b[i].next \in Nat
      /\ \A k \in Key : Index(p, k) \in 1..hb
  BY BucketTypes
<1>2. \A i \in 1..hb : Home(p, i) = i
  BY <1>1 DEF Home
<1>3. ASSUME NEW i \in (hb + 1)..L
      PROVE  /\ b[i].value \in Key
             /\ Home(p, i) = Index(p, b[i].value)
             /\ Home(p, i) \in 1..hb
             /\ b[Home(p, i)].value # NoKey
  <2>1. b[i].value # NoKey /\ b[Home(p, i)].value # NoKey
    BY DEF ValuesInPlace, ChainBuckets
  <2>2. i \in 1..L /\ ~ (i <= hb)
    BY <1>1
  <2>3. Home(p, i) = Index(p, b[i].value)
    BY <2>2 DEF Home
  <2> QED BY <1>1, <2>1, <2>2, <2>3
<1>4. \A i \in 1..L : Home(p, i) \in 1..hb
  <2> SUFFICES ASSUME NEW i \in 1..L
               PROVE  Home(p, i) \in 1..hb
    OBVIOUS
  <2>1. i \in 1..hb \/ i \in (hb + 1)..L
    BY <1>1
  <2> QED BY <1>2, <1>3, <2>1
<1>5. HomeOf(p) \in [1..L -> 1..hb] /\ NextOf(p) \in [1..L -> Nat]
  BY <1>1, <1>4 DEF HomeOf, NextOf
<1> QED BY <1>2, <1>3, <1>5

\* NextIsNewest, in terms of the chains.
LEMMA NextChains ==
    ASSUME hash \in [Key -> Nat], NEW p \in BucketPartition, ValuesInPlace(p)
    PROVE  NextIsNewest(p) <=> Chains(p.hash_buckets, Len(p.buckets), HomeOf(p), NextOf(p))
<1> DEFINE hb == p.hash_buckets
           L == Len(p.buckets)
           home == HomeOf(p)
           next == NextOf(p)
<1>1. /\ hb \in Nat \ {0} /\ L \in Nat /\ hb <= L /\ DOMAIN p.buckets = 1..L
  BY BucketTypes
<1>2. /\ home \in [1..L -> 1..hb] /\ next \in [1..L -> Nat]
      /\ \A i \in 1..hb : Home(p, i) = i
  BY HomeTypes
<1>3. /\ \A i \in 1..L : home[i] = Home(p, i) /\ next[i] = p.buckets[i].next
  BY DEF HomeOf, NextOf
<1>4. \A i \in 1..hb : home[i] = i
  BY <1>1, <1>2, <1>3
<1>5. ASSUME NEW i \in 1..L
      PROVE  /\ 0 \notin Behind(p, i)
             /\ \A j : j \in Behind(p, i) <=>
                  j \in (hb + 1)..L /\ home[j] = home[i] /\ (i > hb => j < i)
  <2>1. \A j \in (hb + 1)..L : j \in 1..L
    BY <1>1
  <2>2. 0 \notin (hb + 1)..L
    BY <1>1
  <2> QED BY <1>3, <2>1, <2>2 DEF Behind, ChainBuckets
<1> HIDE DEF home, next, L, hb
<1>6. NextIsNewest(p) <=>
        \A i \in 1..L : /\ next[i] \in Behind(p, i) \/ next[i] = 0
                        /\ \A j \in Behind(p, i) : j <= next[i]
  BY <1>1, <1>3 DEF NextIsNewest, kInvalidIndex
<1>7. ASSUME NEW i \in 1..L
      PROVE  /\ \/ next[i] \in Behind(p, i) \/ next[i] = 0
             /\ \A j \in Behind(p, i) : j <= next[i]
             <=>
             /\ \/ next[i] = 0
                \/ /\ next[i] \in (hb + 1)..L
                   /\ home[next[i]] = home[i]
                   /\ i > hb => next[i] < i
             /\ \A j \in (hb + 1)..L :
                   home[j] = home[i] /\ (i > hb => j < i) => j <= next[i]
  BY <1>5
<1>8. NextIsNewest(p) <=> Chains(hb, L, home, next)
  BY <1>4, <1>6, <1>7 DEF Chains
<1> QED BY <1>8 DEF hb, L, home, next

\* The chains as they are linked are the chains as they should be.
LEMMA PartitionChains ==
    ASSUME hash \in [Key -> Nat], NEW p, PartitionOK(p), NEW i \in DOMAIN p.buckets
    PROVE  LET before == {j \in DOMAIN p.buckets : p.buckets[j].next = i}
           IN  IF i <= p.hash_buckets
               THEN /\ before = {}
                    /\ p.buckets[i].value = NoKey => p.buckets[i].next = kInvalidIndex
                    /\ p.buckets[i].value # NoKey => Index(p, p.buckets[i].value) = i
               ELSE /\ p.buckets[i].value # NoKey
                    /\ \E j \in before :
                          /\ before = {j}
                          /\ Index(p, p.buckets[j].value) = Index(p, p.buckets[i].value)
                          /\ j > i \/ j = Index(p, p.buckets[i].value)
<1> DEFINE b == p.buckets
           hb == p.hash_buckets
           L == Len(p.buckets)
           home == HomeOf(p)
           next == NextOf(p)
           before == {j \in DOMAIN p.buckets : p.buckets[j].next = i}
<1>1. p \in BucketPartition /\ ValuesInPlace(p)
  BY DEF PartitionOK
<1>2. /\ hb \in Nat \ {0} /\ L \in Nat /\ hb <= L /\ DOMAIN b = 1..L /\ i \in 1..L
  BY <1>1, BucketTypes
<1>3. /\ home \in [1..L -> 1..hb] /\ next \in [1..L -> Nat]
      /\ \A j \in 1..hb : Home(p, j) = j
      /\ \A j \in (hb + 1)..L : /\ b[j].value \in Key
                                /\ Home(p, j) = Index(p, b[j].value)
                                /\ Home(p, j) \in 1..hb
                                /\ b[Home(p, j)].value # NoKey
  BY <1>1, HomeTypes
<1>4. Chains(hb, L, home, next)
  BY <1>1, NextChains DEF PartitionOK
<1>5. \A j \in 1..L : home[j] = Home(p, j) /\ next[j] = b[j].next
  BY DEF HomeOf, NextOf
<1>6. \A j \in 1..hb : b[j].value # NoKey => Index(p, b[j].value) = j
  BY <1>1 DEF ValuesInPlace
<1>7. \A j \in before : j \in 1..L /\ next[j] = i
  BY <1>2, <1>5
<1>8. \A j \in 1..L : next[j] = i => j \in before
  BY <1>2, <1>5
<1> HIDE DEF before, home, next, L, hb, b
<1>9. CASE i <= hb
  <2>1. before = {}
    <3> SUFFICES ASSUME NEW j \in 1..L, next[j] = i
                 PROVE  FALSE
      BY <1>7
    <3> QED BY <1>2, <1>4, <1>9 DEF Chains
  <2>2. ASSUME b[i].value = NoKey
        PROVE  b[i].next = kInvalidIndex
    <3> SUFFICES ASSUME next[i] # 0
                 PROVE  FALSE
      BY <1>2, <1>5 DEF kInvalidIndex
    <3>1. next[i] \in (hb + 1)..L /\ home[next[i]] = home[i]
      BY <1>2, <1>4 DEF Chains
    <3>2. next[i] \in 1..L
      BY <1>2, <3>1
    <3>3. Home(p, next[i]) = i
      BY <1>2, <1>3, <1>5, <1>9, <3>1, <3>2
    <3> QED BY <1>3, <2>2, <3>1, <3>3
  <2>3. b[i].value # NoKey => Index(p, b[i].value) = i
    BY <1>2, <1>6, <1>9
  <2> QED BY <1>9, <2>1, <2>2, <2>3 DEF before, hb, b
<1>10. CASE ~ (i <= hb)
  <2>1. i \in (hb + 1)..L
    BY <1>2, <1>10
  <2>2. PICK j \in 1..L :
            /\ next[j] = i /\ home[j] = home[i]
            /\ j > i \/ j = home[i]
            /\ \A x \in 1..L : next[x] = i => x = j
    <3>1. hb \in Nat \ {0} /\ L \in Nat /\ hb <= L
      BY <1>2
    <3>2. home \in [1..L -> 1..hb] /\ next \in [1..L -> Nat]
      BY <1>3
    <3>3. HasPredecessor(L, home, next, i)
      BY <1>4, <2>1, <3>1, <3>2, ChainPredecessor
    <3> QED BY <3>3 DEF HasPredecessor
  <2>3. before = {j} /\ j \in before
    BY <1>7, <1>8, <2>2
  <2>4. b[i].value # NoKey /\ home[i] = Index(p, b[i].value) /\ home[i] \in 1..hb
        /\ b[home[i]].value # NoKey
    BY <1>2, <1>3, <1>5, <2>1, NoKeyAssumption
  <2>5. Index(p, b[j].value) = home[i]
    <3>1. CASE j = home[i]
      BY <1>6, <2>4, <3>1
    <3>2. CASE j > i
      <4>1. j \in (hb + 1)..L
        BY <1>2, <2>1, <3>2
      <4> QED BY <1>3, <1>5, <2>2, <4>1
    <3> QED BY <2>2, <3>1, <3>2
  <2>6. /\ b[i].value # NoKey
        /\ \E x \in before :
              /\ before = {x}
              /\ Index(p, b[x].value) = Index(p, b[i].value)
              /\ x > i \/ x = Index(p, b[i].value)
    BY <2>2, <2>3, <2>4, <2>5
  <2> QED BY <1>10, <2>6 DEF before, hb, b
<1> QED BY <1>9, <1>10

LEMMA ContentsFields ==
    ASSUME hash \in [Key -> Nat], NEW p \in BucketPartition
    PROVE  /\ Contents(p).buckets = p.hash_buckets
           /\ Contents(p).values \subseteq Key
           /\ \A k \in Key : k \in Contents(p).values
                  <=> \E i \in 1..Len(p.buckets) : p.buckets[i].value = k
<1>1. /\ DOMAIN p.buckets = 1..Len(p.buckets)
      /\ \A i \in 1..Len(p.buckets) : p.buckets[i].value \in Key \cup {NoKey}
  BY BucketTypes
<1>2. Contents(p).buckets = p.hash_buckets
      /\ Contents(p).values = {p.buckets[i].value : i \in DOMAIN p.buckets} \ {NoKey}
  BY DEF Contents
<1> QED BY <1>1, <1>2, NoKeyAssumption

\* The array has a bucket behind the hash buckets for each value that does not
\* have a hash bucket: it overflows when the set of values has no room.
LEMMA RoomInArray ==
    ASSUME hash \in [Key -> Nat], NEW p, PartitionOK(p)
    PROVE  Overflows(p) <=> ~ HasRoom(Contents(p))
<1>1. p \in BucketPartition /\ Len(p.buckets) = Size(Contents(p))
  BY DEF PartitionOK
<1>2. p.hash_buckets \in Nat \ {0} /\ Len(p.buckets) \in Nat
  BY <1>1, BucketTypes
<1>3. Contents(p).buckets = p.hash_buckets
  BY DEF Contents
<1> QED BY <1>1, <1>2, <1>3 DEF Overflows, HasRoom, Capacity, kAvgChainLength

\* The hash bucket of a key is in use when a value hashes to it.
LEMMA HashBucketInUse ==
    ASSUME hash \in [Key -> Nat], NEW p, PartitionOK(p), NEW k \in Key
    PROVE  hash[k] % p.hash_buckets \in Occupied(Contents(p))
               <=> p.buckets[Index(p, k)].value # NoKey
<1> DEFINE b == p.buckets
           hb == p.hash_buckets
           L == Len(p.buckets)
           C == Contents(p)
<1>1. p \in BucketPartition /\ ValuesInPlace(p)
  BY DEF PartitionOK
<1>2. /\ hb \in Nat \ {0} /\ L \in Nat /\ hb <= L
      /\ \A i \in 1..L : b[i].value \in Key \cup {NoKey}
      /\ Index(p, k) \in 1..hb
  BY <1>1, BucketTypes
<1>3. /\ C.buckets = hb /\ C.values \subseteq Key
      /\ \A v \in Key : v \in C.values <=> \E i \in 1..L : b[i].value = v
  BY <1>1, ContentsFields
<1>4. \A j \in (hb + 1)..L : /\ Home(p, j) = Index(p, b[j].value)
                             /\ b[Home(p, j)].value # NoKey
  BY <1>1, HomeTypes
<1>5. \A j \in 1..hb : b[j].value # NoKey => Index(p, b[j].value) = j
  BY <1>1 DEF ValuesInPlace
<1>6. \A v \in Key : hash[v] % hb = hash[k] % hb <=> Index(p, v) = Index(p, k)
  <2> SUFFICES ASSUME NEW v \in Key
               PROVE  hash[v] % hb = hash[k] % hb <=> Index(p, v) = Index(p, k)
    OBVIOUS
  <2>1. hash[v] \in Nat /\ hash[k] \in Nat
    OBVIOUS
  <2>2. hash[v] % hb \in Nat /\ hash[k] % hb \in Nat
    BY <1>2, <2>1
  <2> QED BY <2>2 DEF Index
<1> HIDE DEF C, b, hb, L
<1>7. hash[k] % hb \in Occupied(C) <=> \E v \in C.values : Index(p, v) = Index(p, k)
  BY <1>3, <1>6 DEF Occupied
<1>8. ASSUME NEW v \in C.values, Index(p, v) = Index(p, k)
      PROVE  b[Index(p, k)].value # NoKey
  <2>1. v \in Key
    BY <1>3
  <2>2. PICK i \in 1..L : b[i].value = v
    BY <1>3, <2>1
  <2>3. CASE i <= hb
    BY <1>2, <1>5, <1>8, <2>1, <2>2, <2>3, NoKeyAssumption
  <2>4. CASE ~ (i <= hb)
    <3>1. i \in (hb + 1)..L
      BY <1>2, <2>4
    <3> QED BY <1>4, <1>8, <2>2, <3>1
  <2> QED BY <2>3, <2>4
<1>9. ASSUME b[Index(p, k)].value # NoKey
      PROVE  \E v \in C.values : Index(p, v) = Index(p, k)
  <2> DEFINE i == Index(p, k)
  <2>1. i \in 1..hb /\ i \in 1..L
    BY <1>2
  <2>2. b[i].value \in Key /\ Index(p, b[i].value) = i
    BY <1>2, <1>5, <1>9, <2>1
  <2> QED BY <1>3, <2>1, <2>2
<1> QED BY <1>7, <1>8, <1>9 DEF hb, b, C

LEMMA SizeWithOne ==
    ASSUME hash \in [Key -> Nat], NEW P \in PartitionType, P.buckets > 0,
           NEW k \in Key, k \notin P.values
    PROVE  Size(With(P, {k})) =
               IF hash[k] % P.buckets \in Occupied(P) THEN Size(P) + 1 ELSE Size(P)
<1> DEFINE q == With(P, {k})
           x == hash[k] % P.buckets
<1>1. q.buckets = P.buckets /\ q.values = P.values \cup {k}
  <2>1. {k} \in SUBSET Key /\ IsFiniteSet({k})
    BY FS_Singleton
  <2> QED BY <2>1, WithType
<1>2. IsFiniteSet(P.values) /\ P.buckets \in Nat
  BY DEF PartitionType
<1>3. Cardinality(q.values) = Cardinality(P.values) + 1 /\ Cardinality(P.values) \in Nat
  BY <1>1, <1>2, FS_AddElement, FS_CardinalityType
<1>4. IsFiniteSet(Occupied(P)) /\ Cardinality(Occupied(P)) \in Nat
  BY PartitionSize
<1>5. Occupied(q) = Occupied(P) \cup {x}
  BY <1>1 DEF Occupied
<1> HIDE DEF x, q
<1>6. Cardinality(Occupied(q)) =
          IF x \in Occupied(P) THEN Cardinality(Occupied(P)) ELSE Cardinality(Occupied(P)) + 1
  BY <1>4, <1>5, FS_AddElement
<1>7. Size(q) = IF x \in Occupied(P) THEN Size(P) + 1 ELSE Size(P)
  BY <1>1, <1>2, <1>3, <1>4, <1>6 DEF Size
<1> QED BY <1>7 DEF x, q

\* A value that is not there and has room keeps the partition well formed, and
\* is what the set of its values gains.
LEMMA InsertOK ==
    ASSUME hash \in [Key -> Nat], NEW p, PartitionOK(p), Contents(p) \in PartitionType,
           NEW k \in Key, k \notin Contents(p).values, HasRoom(Contents(p))
    PROVE  /\ PartitionOK(PartitionInsert(p, k))
           /\ Contents(PartitionInsert(p, k)) = With(Contents(p), {k})
           /\ With(Contents(p), {k}) \in PartitionType
<1> DEFINE q == PartitionInsert(p, k)
           i == Index(p, k)
           b == p.buckets
           c == q.buckets
           hb == p.hash_buckets
           L == Len(p.buckets)
<1>1. p \in BucketPartition /\ ValuesInPlace(p) /\ ValuesDistinct(p) /\ NextIsNewest(p)
      /\ L = Size(Contents(p))
  BY DEF PartitionOK
<1>2. /\ hb \in Nat \ {0} /\ L \in Nat /\ hb <= L /\ DOMAIN b = 1..L
      /\ \A j \in 1..L : b[j].value \in Key \cup {NoKey} /\ b[j].next \in Nat
      /\ i \in 1..hb
      /\ i \in 1..L
  <2>1. /\ hb \in Nat \ {0} /\ L \in Nat /\ hb <= L /\ DOMAIN b = 1..L
        /\ \A j \in 1..L : b[j].value \in Key \cup {NoKey} /\ b[j].next \in Nat
        /\ i \in 1..hb
    BY <1>1, BucketTypes
  <2> HIDE DEF i
  <2>2. i \in 1..L
    BY <2>1
  <2> QED BY <2>1, <2>2
<1>3. /\ q \in BucketPartition /\ q.hash_buckets = hb
      /\ b[i].value = NoKey =>
           /\ Len(c) = L
           /\ \A j \in 1..L : /\ c[j].value = IF j = i THEN k ELSE b[j].value
                              /\ c[j].next = b[j].next
      /\ b[i].value # NoKey =>
           /\ Len(c) = L + 1
           /\ \A j \in 1..L : /\ c[j].value = b[j].value
                              /\ c[j].next = IF j = i THEN L + 1 ELSE b[j].next
           /\ c[L + 1].value = k
           /\ c[L + 1].next = b[i].next
  <2>1. ~ Overflows(p)
    BY RoomInArray
  <2> QED BY <1>1, <2>1, InsertArray
<1>4. Len(c) \in Nat /\ DOMAIN c = 1..Len(c) /\ L <= Len(c)
      /\ \A j \in 1..Len(c) : c[j].value \in Key \cup {NoKey}
  <2>1. Len(c) \in Nat /\ DOMAIN c = 1..Len(c)
        /\ \A j \in 1..Len(c) : c[j].value \in Key \cup {NoKey}
    BY <1>3, BucketTypes
  <2>2. Len(c) = L \/ Len(c) = L + 1
    BY <1>3
  <2> QED BY <1>2, <2>1, <2>2
<1>5. \A j \in 1..L : b[j].value # k
  BY <1>1, ContentsFields
<1>6. \A v : Index(q, v) = Index(p, v)
  BY <1>3 DEF Index
<1>7. /\ HomeOf(p) \in [1..L -> 1..hb] /\ NextOf(p) \in [1..L -> Nat]
      /\ \A j \in 1..hb : Home(p, j) = j
      /\ \A j \in (hb + 1)..L : /\ b[j].value \in Key
                                /\ Home(p, j) = Index(p, b[j].value)
                                /\ Home(p, j) \in 1..hb
                                /\ b[Home(p, j)].value # NoKey
  BY <1>1, HomeTypes
<1>8. \A j \in 1..hb : b[j].value # NoKey => Index(p, b[j].value) = j
  BY <1>1 DEF ValuesInPlace
<1>9. \A j, x \in 1..L : b[j].value = b[x].value /\ b[j].value # NoKey => j = x
  BY <1>1, <1>2 DEF ValuesDistinct
<1>10. Chains(hb, L, HomeOf(p), NextOf(p))
  BY <1>1, NextChains
<1>11. Index(q, k) = i /\ k # NoKey
  BY <1>6, NoKeyAssumption
<1>12. \A j \in 1..hb : Home(q, j) = j
  BY <1>3 DEF Home
<1>13. \A j \in (hb + 1)..Len(c) : Home(q, j) = Index(p, c[j].value)
  BY <1>2, <1>3, <1>6 DEF Home
<1> HIDE DEF q, i, b, c, hb, L
<1>14. \A j \in (hb + 1)..L : j \in 1..L /\ j # i
  BY <1>2
<1>15. \A j \in 1..hb : j \in 1..L
  BY <1>2
<1>16. ASSUME b[i].value = NoKey
       PROVE  /\ ValuesInPlace(q) /\ ValuesDistinct(q) /\ NextIsNewest(q)
              /\ \A v \in Key : (\E j \in 1..Len(c) : c[j].value = v)
                                  <=> v = k \/ \E j \in 1..L : b[j].value = v
  <2>1. Len(c) = L /\ \A j \in 1..L : /\ c[j].value = IF j = i THEN k ELSE b[j].value
                                     /\ c[j].next = b[j].next
    BY <1>3, <1>16
  <2>2. ValuesInPlace(q)
    <3>1. \A j \in 1..hb : c[j].value # NoKey => Index(q, c[j].value) = j
      BY <1>6, <1>8, <1>11, <1>15, <2>1
    <3>2. ASSUME NEW j \in (hb + 1)..L
          PROVE  c[j].value # NoKey /\ c[Home(q, j)].value # NoKey
      <4>1. c[j].value = b[j].value /\ b[j].value # NoKey
        BY <1>7, <1>14, <2>1, NoKeyAssumption
      <4>2. Home(q, j) = Home(p, j)
        BY <1>7, <1>13, <2>1, <4>1
      <4>3. Home(p, j) \in 1..L /\ b[Home(p, j)].value # NoKey
        BY <1>7, <1>15
      <4> QED BY <1>11, <2>1, <4>1, <4>2, <4>3
    <3> QED BY <1>3, <2>1, <3>1, <3>2 DEF ValuesInPlace, ChainBuckets, c
  <2>3. ValuesDistinct(q)
    <3>1. \A j, x \in 1..L : c[j].value = c[x].value /\ c[j].value # NoKey => j = x
      BY <1>5, <1>9, <2>1
    <3> QED BY <1>4, <2>1, <3>1 DEF ValuesDistinct, c
  <2>4. HomeOf(q) = HomeOf(p) /\ NextOf(q) = NextOf(p)
    <3>1. \A j \in 1..L : c[j].next = b[j].next
      BY <2>1
    <3>2. ASSUME NEW j \in 1..L
          PROVE  Home(q, j) = Home(p, j)
      <4>1. j \in 1..hb \/ j \in (hb + 1)..L
        BY <1>2
      <4> QED BY <1>7, <1>12, <1>13, <1>14, <2>1, <4>1
    <3> QED BY <2>1, <3>1, <3>2 DEF HomeOf, NextOf, c, b, L
  <2>5. NextIsNewest(q)
    <3>1. Chains(q.hash_buckets, Len(q.buckets), HomeOf(q), NextOf(q))
      BY <1>3, <1>10, <2>1, <2>4 DEF c
    <3> QED BY <1>3, <2>2, <3>1, NextChains
  <2>6. \A v \in Key : (\E j \in 1..Len(c) : c[j].value = v)
                         <=> v = k \/ \E j \in 1..L : b[j].value = v
    <3>1. \A j \in 1..L : j # i => c[j].value = b[j].value
      BY <2>1
    <3>2. c[i].value = k /\ b[i].value \notin Key
      BY <1>2, <1>16, <2>1, NoKeyAssumption
    <3> QED BY <1>2, <2>1, <3>1, <3>2
  <2> QED BY <2>2, <2>3, <2>5, <2>6
<1>17. ASSUME b[i].value # NoKey
       PROVE  /\ ValuesInPlace(q) /\ ValuesDistinct(q) /\ NextIsNewest(q)
              /\ \A v \in Key : (\E j \in 1..Len(c) : c[j].value = v)
                                  <=> v = k \/ \E j \in 1..L : b[j].value = v
  <2>1. /\ Len(c) = L + 1
        /\ \A j \in 1..L : /\ c[j].value = b[j].value
                           /\ c[j].next = IF j = i THEN L + 1 ELSE b[j].next
        /\ c[L + 1].value = k
        /\ c[L + 1].next = b[i].next
    BY <1>3, <1>17
  <2>2. ValuesInPlace(q)
    <3>1. \A j \in 1..hb : c[j].value # NoKey => Index(q, c[j].value) = j
      BY <1>6, <1>8, <1>15, <2>1
    <3>2. ASSUME NEW j \in (hb + 1)..(L + 1)
          PROVE  c[j].value # NoKey /\ c[Home(q, j)].value # NoKey
      <4>1. CASE j = L + 1
        <5>1. Home(q, j) = i
          BY <1>6, <1>11, <1>13, <2>1, <4>1
        <5> QED BY <1>2, <1>11, <1>17, <2>1, <4>1, <5>1
      <4>2. CASE j # L + 1
        <5>1. j \in (hb + 1)..L
          BY <1>2, <4>2
        <5>2. c[j].value = b[j].value /\ b[j].value # NoKey
          BY <1>7, <1>14, <2>1, <5>1, NoKeyAssumption
        <5>3. Home(q, j) = Home(p, j)
          BY <1>7, <1>13, <2>1, <5>1, <5>2
        <5>4. Home(p, j) \in 1..L /\ b[Home(p, j)].value # NoKey
          BY <1>7, <1>15, <5>1
        <5> QED BY <2>1, <5>2, <5>3, <5>4
      <4> QED BY <4>1, <4>2
    <3> QED BY <1>3, <2>1, <3>1, <3>2 DEF ValuesInPlace, ChainBuckets, c
  <2>3. ValuesDistinct(q)
    <3>1. \A j, x \in 1..(L + 1) : c[j].value = c[x].value /\ c[j].value # NoKey => j = x
      <4>1. \A j \in 1..(L + 1) : j \in 1..L \/ j = L + 1
        BY <1>2
      <4> QED BY <1>5, <1>9, <2>1, <4>1
    <3> QED BY <1>4, <2>1, <3>1 DEF ValuesDistinct, c
  <2>4. Pushed(L, i, HomeOf(p), NextOf(p), HomeOf(q), NextOf(q))
    <3>1. /\ \A j \in 1..(L + 1) : HomeOf(q)[j] = Home(q, j) /\ NextOf(q)[j] = c[j].next
          /\ \A j \in 1..L : HomeOf(p)[j] = Home(p, j) /\ NextOf(p)[j] = b[j].next
      BY <2>1 DEF HomeOf, NextOf, c, b, L
    <3>2. ASSUME NEW j \in 1..L
          PROVE  Home(q, j) = Home(p, j)
      <4>1. j \in 1..hb \/ j \in (hb + 1)..L
        BY <1>2
      <4>2. j \in (hb + 1)..L => j \in (hb + 1)..Len(c)
        BY <1>2, <2>1
      <4> QED BY <1>7, <1>12, <1>13, <1>14, <2>1, <4>1, <4>2
    <3>3. Home(q, L + 1) = i
      <4>1. L + 1 \in (hb + 1)..Len(c)
        BY <1>2, <2>1
      <4> QED BY <1>6, <1>11, <1>13, <2>1, <4>1
    <3>4. L + 1 \in 1..(L + 1) /\ \A j \in 1..L : j \in 1..(L + 1)
      BY <1>2
    <3> QED BY <1>2, <2>1, <3>1, <3>2, <3>3, <3>4 DEF Pushed
  <2>5. NextIsNewest(q)
    <3>1. Chains(hb, L + 1, HomeOf(q), NextOf(q))
      BY <1>2, <1>7, <1>10, <2>4, ChainPush
    <3>2. Chains(q.hash_buckets, Len(q.buckets), HomeOf(q), NextOf(q))
      BY <1>3, <2>1, <3>1 DEF c
    <3> QED BY <1>3, <2>2, <3>2, NextChains
  <2>6. \A v \in Key : (\E j \in 1..Len(c) : c[j].value = v)
                         <=> v = k \/ \E j \in 1..L : b[j].value = v
    <3>1. \A j \in 1..(L + 1) : j \in 1..L \/ j = L + 1
      BY <1>2
    <3>2. L + 1 \in 1..(L + 1) /\ \A j \in 1..L : j \in 1..(L + 1)
      BY <1>2
    <3> QED BY <2>1, <3>1, <3>2
  <2> QED BY <2>2, <2>3, <2>5, <2>6
<1>18. /\ ValuesInPlace(q) /\ ValuesDistinct(q) /\ NextIsNewest(q)
       /\ \A v \in Key : (\E j \in 1..Len(c) : c[j].value = v)
                           <=> v = k \/ \E j \in 1..L : b[j].value = v
  BY <1>16, <1>17
<1>19. Contents(q) = With(Contents(p), {k})
  <2>1. /\ Contents(q).values \subseteq Key
        /\ \A v \in Key : v \in Contents(q).values <=> \E j \in 1..Len(c) : c[j].value = v
    BY <1>3, ContentsFields DEF c
  <2>2. /\ Contents(p).values \subseteq Key
        /\ \A v \in Key : v \in Contents(p).values <=> \E j \in 1..L : b[j].value = v
    BY <1>1, ContentsFields DEF b, L
  <2>3. Contents(q).values = Contents(p).values \cup {k}
    BY <1>18, <2>1, <2>2
  <2>4. /\ Contents(p) = [buckets |-> hb, values |-> Contents(p).values]
        /\ Contents(q) = [buckets |-> hb, values |-> Contents(q).values]
    BY <1>3 DEF Contents, hb
  <2> QED BY <2>3, <2>4 DEF With
<1>20. With(Contents(p), {k}) \in PartitionType
  <2>1. {k} \in SUBSET Key /\ IsFiniteSet({k})
    BY FS_Singleton
  <2> QED BY <2>1, WithType
<1>21. Len(c) = Size(Contents(q))
  <2>1. Contents(p).buckets = hb /\ hb > 0
    BY <1>2 DEF Contents, hb
  <2>2. Size(Contents(q)) =
            IF hash[k] % hb \in Occupied(Contents(p)) THEN Size(Contents(p)) + 1
                                                      ELSE Size(Contents(p))
    BY <1>19, <2>1, SizeWithOne
  <2>3. hash[k] % hb \in Occupied(Contents(p)) <=> b[i].value # NoKey
    BY HashBucketInUse DEF hb, b, i
  <2> QED BY <1>1, <1>3, <2>2, <2>3 DEF L
<1>22. PartitionOK(q)
  BY <1>3, <1>18, <1>21 DEF PartitionOK, c
<1> QED BY <1>19, <1>20, <1>22 DEF q

----------------------------------------------------------------------------
(* HashBuckets: Lookup and InsertAll, which are recursive.                 *)

\* ChainHas of PartitionLookup, and Inserted of InsertAll.
IsChainHas(p, k, f) ==
    f = [i \in 0..Len(p.buckets) |->
            /\ i # kInvalidIndex
            /\ p.buckets[i].value # NoKey
            /\ p.buckets[i].value = k \/ f[p.buckets[i].next]]

IsInserted(p, src, n, f) ==
    f = [i \in 0..n |->
            IF i = 0
            THEN p
            ELSE IF src.buckets[i].value = NoKey
                 THEN f[i - 1]
                 ELSE PartitionInsert(f[i - 1], src.buckets[i].value)]

LEMMA LookupIsChainHas ==
    ASSUME NEW p, NEW k, \E f : IsChainHas(p, k, f)
    PROVE  \E f : IsChainHas(p, k, f) /\ PartitionLookup(p, k) = f[Index(p, k)]
<1> DEFINE f == CHOOSE g : IsChainHas(p, k, g)
<1>1. IsChainHas(p, k, f)
  OBVIOUS
<1>2. PartitionLookup(p, k) = f[Index(p, k)]
  BY DEF PartitionLookup, IsChainHas
<1> QED BY <1>1, <1>2

LEMMA InsertAllIsInserted ==
    ASSUME NEW p, NEW src, \E f : IsInserted(p, src, Len(src.buckets), f)
    PROVE  \E f : /\ IsInserted(p, src, Len(src.buckets), f)
                  /\ InsertAll(p, src) = f[Len(src.buckets)]
<1> DEFINE f == CHOOSE g : IsInserted(p, src, Len(src.buckets), g)
<1>1. IsInserted(p, src, Len(src.buckets), f)
  OBVIOUS
<1>2. InsertAll(p, src) = f[Len(src.buckets)]
  BY DEF InsertAll, IsInserted
<1> QED BY <1>1, <1>2

\* Lookup finds what the partition holds, and nothing else: the walk along the
\* chain of a key's hash bucket meets the key if it is anywhere in the array.
LEMMA LookupCorrect ==
    ASSUME hash \in [Key -> Nat], NEW p, PartitionOK(p), NEW k \in Key
    PROVE  PartitionLookup(p, k) <=> k \in Contents(p).values
<1> DEFINE b == p.buckets
           hb == p.hash_buckets
           L == Len(p.buckets)
           home == HomeOf(p)
           next == NextOf(p)
           used == {i \in 1..L : p.buckets[i].value # NoKey}
           hits == {i \in 1..L : p.buckets[i].value = k}
           G == Reached(hb, L, home, used, hits)
           h == Index(p, k)
<1>1. p \in BucketPartition /\ ValuesInPlace(p)
  BY DEF PartitionOK
<1>2. /\ hb \in Nat \ {0} /\ L \in Nat /\ hb <= L /\ h \in 1..hb
      /\ \A i \in 1..L : b[i].value \in Key \cup {NoKey} /\ b[i].next \in Nat
  BY <1>1, BucketTypes
<1>3. home \in [1..L -> 1..hb] /\ next \in [1..L -> Nat]
  BY <1>1, HomeTypes
<1>4. \A i \in (hb + 1)..L : /\ b[i].value \in Key
                             /\ Home(p, i) = Index(p, b[i].value)
                             /\ b[Home(p, i)].value # NoKey
  BY <1>1, HomeTypes
<1>5. Chains(hb, L, home, next)
  BY <1>1, NextChains DEF PartitionOK
<1>6. \A i \in 1..L : home[i] = Home(p, i) /\ next[i] = b[i].next
  BY DEF HomeOf, NextOf
<1>7. \A i \in 1..hb : b[i].value # NoKey => Index(p, b[i].value) = i
  BY <1>1 DEF ValuesInPlace
<1>8. k # NoKey
  BY NoKeyAssumption
<1>9. /\ \A i : i \in used <=> i \in 1..L /\ b[i].value # NoKey
      /\ \A i : i \in hits <=> i \in 1..L /\ b[i].value = k
  OBVIOUS
<1>10. k \in Contents(p).values <=> \E i \in 1..L : b[i].value = k
  BY <1>1, ContentsFields
<1> HIDE DEF used, hits, home, next, h
<1>11. (hb + 1)..L \subseteq used
  BY <1>2, <1>4, <1>9, NoKeyAssumption
<1>12. Walk(L, next, used, hits, G)
  BY <1>2, <1>3, <1>5, <1>11, WalkExists
<1>13. \A i \in 1..L : next[i] \in 0..L
  BY <1>2, <1>5 DEF Chains
<1>14. ASSUME NEW f, NEW F, F = {i \in 0..L : f[i]},
              \A i \in 0..L : f[i] <=> i # 0 /\ b[i].value # NoKey /\ (b[i].value = k \/ f[b[i].next])
       PROVE  Walk(L, next, used, hits, F)
  <2> SUFFICES ASSUME NEW i \in 0..L
               PROVE  i \in F <=> i # 0 /\ i \in used /\ (i \in hits \/ next[i] \in F)
    BY DEF Walk
  <2>1. CASE i = 0
    BY <1>14, <2>1
  <2>2. CASE i # 0
    <3>1. i \in 1..L
      BY <1>2, <2>2
    <3>2. next[i] \in F <=> f[b[i].next]
      BY <1>6, <1>13, <1>14, <3>1
    <3> QED BY <1>9, <1>14, <2>2, <3>1, <3>2
  <2> QED BY <2>1, <2>2
<1>15. \E f : IsChainHas(p, k, f)
  <2> DEFINE f == [i \in 0..L |-> i \in G]
             body(i) == /\ i # kInvalidIndex
                        /\ p.buckets[i].value # NoKey
                        /\ p.buckets[i].value = k \/ f[p.buckets[i].next]
  <2>1. ASSUME NEW i \in 0..L
        PROVE  (i \in G) <=> body(i)
    <3>1. CASE i = 0
      BY <1>12, <3>1 DEF Walk, kInvalidIndex
    <3>2. CASE i # 0
      <4>1. i \in 1..L
        BY <1>2, <3>2
      <4>2. f[p.buckets[i].next] <=> next[i] \in G
        <5>1. next[i] \in 0..L /\ next[i] = p.buckets[i].next
          BY <1>6, <1>13, <4>1
        <5> HIDE DEF G
        <5> QED BY <5>1
      <4>3. i \in G <=> i \in used /\ (i \in hits \/ next[i] \in G)
        BY <1>12, <3>2 DEF Walk
      <4> HIDE DEF G, f
      <4> QED BY <1>9, <3>2, <4>1, <4>2, <4>3 DEF kInvalidIndex
    <3> QED BY <3>1, <3>2
  <2> HIDE DEF G
  <2>2. ASSUME NEW i \in 0..L
        PROVE  (i \in G) = body(i)
    <3>1. CASE i \in G
      <4>1. (i \in G) = TRUE
        BY <3>1
      <4>2. body(i) = TRUE
        BY <2>1, <3>1
      <4> QED BY <4>1, <4>2
    <3>2. CASE i \notin G
      <4>1. (i \in G) = FALSE
        BY <3>2
      <4>2. body(i) = FALSE
        BY <2>1, <3>2
      <4> QED BY <4>1, <4>2
    <3> QED BY <3>1, <3>2
  <2> HIDE DEF body
  <2>3. f = [i \in 0..L |-> body(i)]
    BY <2>2
  <2>4. IsChainHas(p, k, f)
    BY <2>3 DEF IsChainHas, body
  <2> QED BY <2>4
<1>16. PICK f : IsChainHas(p, k, f) /\ PartitionLookup(p, k) = f[h]
  BY <1>15, LookupIsChainHas DEF h
<1>17. \A i \in 0..L : f[i] <=> i # 0 /\ b[i].value # NoKey /\ (b[i].value = k \/ f[b[i].next])
  BY <1>16 DEF IsChainHas, kInvalidIndex
<1> DEFINE F == {i \in 0..L : f[i]}
<1>18. Walk(L, next, used, hits, F)
  BY <1>14, <1>17
<1> HIDE DEF F, G
<1>19. h \in 0..L /\ (h \in F <=> h \in G)
  <2>1. \A i \in 0..L : i \in F <=> i \in G
    <3>1. hb \in Nat \ {0} /\ L \in Nat /\ hb <= L
      BY <1>2
    <3>2. SameWalk(L, F, G)
      BY <1>3, <1>5, <1>12, <1>18, <3>1, WalkUnique
    <3> QED BY <3>2 DEF SameWalk
  <2>2. h \in 0..L
    BY <1>2
  <2> QED BY <2>1, <2>2
<1>20. f[h] <=> h \in G
  BY <1>19 DEF F
<1>21. h \in G <=> \E i \in 1..L : b[i].value = k
  <2>1. h \in 1..L /\ home[h] = h /\ ~ (h > hb)
    BY <1>2, <1>5 DEF Chains
  <2>2. h \in G <=> /\ h \in used
                    /\ h \in hits \/ \E j \in (hb + 1)..L : j \in hits /\ home[j] = h
    BY <2>1 DEF G, Reached
  <2>3. \A i \in 1..L : b[i].value = k => i = h \/ (i \in (hb + 1)..L /\ home[i] = h)
    <3> SUFFICES ASSUME NEW i \in 1..L, b[i].value = k
                 PROVE  i = h \/ (i \in (hb + 1)..L /\ home[i] = h)
      OBVIOUS
    <3>1. CASE i <= hb
      BY <1>2, <1>7, <1>8, <3>1 DEF h
    <3>2. CASE i > hb
      BY <1>2, <1>4, <1>6, <3>2 DEF h
    <3> QED BY <1>2, <3>1, <3>2
  <2>4. \A j \in (hb + 1)..L : j \in hits /\ home[j] = h => h \in used
    <3> SUFFICES ASSUME NEW j \in (hb + 1)..L, j \in hits, home[j] = h
                 PROVE  h \in used
      OBVIOUS
    <3>1. b[Home(p, j)].value # NoKey /\ Home(p, j) = h
      BY <1>4, <1>6, <1>9
    <3> QED BY <1>9, <2>1, <3>1
  <2>5. h \in hits => h \in used
    BY <1>8, <1>9
  <2> QED BY <1>9, <2>1, <2>2, <2>3, <2>4, <2>5
<1> QED BY <1>10, <1>16, <1>20, <1>21

LEMMA InsertedExists ==
    ASSUME NEW p, NEW src, NEW n \in Nat
    PROVE  \E f : IsInserted(p, src, n, f)
<1> DEFINE T == {m \in Nat : ~ \E f : IsInserted(p, src, m, f)}
<1> SUFFICES ASSUME T # {}
             PROVE  FALSE
  OBVIOUS
<1>1. PICK m \in T : \A x \in T : m <= x
  BY Least
<1>2. CASE m = 0
  <2>1. IsInserted(p, src, 0, [i \in 0..0 |-> p])
    BY DEF IsInserted
  <2> QED BY <1>1, <1>2, <2>1
<1>3. CASE m # 0
  <2>1. m - 1 \in Nat /\ m \in Nat /\ m - 1 < m
    BY <1>1, <1>3
  <2>2. PICK f : IsInserted(p, src, m - 1, f)
    BY <1>1, <2>1
  <2> DEFINE v == src.buckets[m].value
             last == IF v = NoKey THEN f[m - 1] ELSE PartitionInsert(f[m - 1], v)
             g == [i \in 0..m |-> IF i = m THEN last ELSE f[i]]
             body(h, i) == IF i = 0
                           THEN p
                           ELSE IF src.buckets[i].value = NoKey
                                THEN h[i - 1]
                                ELSE PartitionInsert(h[i - 1], src.buckets[i].value)
  <2>3. \A i \in 0..(m - 1) : f[i] = body(f, i)
    BY <2>2 DEF IsInserted
  <2>4. ASSUME NEW i \in 0..m
        PROVE  g[i] = body(g, i)
    <3>1. CASE i = m
      <4>1. g[m] = last /\ g[m - 1] = f[m - 1]
        BY <2>1
      <4> QED BY <1>3, <3>1, <4>1
    <3>2. CASE i # m
      <4>1. i \in 0..(m - 1) /\ g[i] = f[i]
        BY <2>1, <3>2
      <4>2. i # 0 => g[i - 1] = f[i - 1]
        BY <2>1, <3>2
      <4> QED BY <2>3, <4>1, <4>2
    <3> QED BY <3>1, <3>2
  <2>5. g = [i \in 0..m |-> body(g, i)]
    <3>1. g = [i \in 0..m |-> g[i]]
      OBVIOUS
    <3> HIDE DEF g, body
    <3> QED BY <2>4, <3>1
  <2>6. IsInserted(p, src, m, g)
    BY <2>5 DEF IsInserted
  <2> QED BY <1>1, <2>6
<1> QED BY <1>2, <1>3

LEMMA NewPartitionOK ==
    ASSUME hash \in [Key -> Nat], NEW n \in Nat \ {0}
    PROVE  /\ PartitionOK(NewPartition(n))
           /\ Contents(NewPartition(n)) = Empty(n)
           /\ Empty(n) \in PartitionType
<1> DEFINE p == NewPartition(n)
           s == [i \in 1..n |-> EmptyBucket]
<1>1. EmptyBucket \in Bucket /\ EmptyBucket.value = NoKey /\ EmptyBucket.next = kInvalidIndex
  BY DEF EmptyBucket, Bucket, kInvalidIndex
<1>2. s \in Seq(Bucket) /\ Len(s) = n
  <2> HIDE DEF EmptyBucket
  <2>1. s \in [1..n -> Bucket]
    BY <1>1
  <2> QED BY <2>1, SeqDef
<1>3. p.hash_buckets = n /\ p.buckets = s /\ p.overflow = FALSE
      /\ p \in [hash_buckets : Nat \ {0}, buckets : Seq(Bucket), overflow : {FALSE}]
  BY <1>2 DEF NewPartition
<1> HIDE DEF p
<1>4. p \in BucketPartition
  <2>1. Len(p.buckets) >= p.hash_buckets
    BY <1>2, <1>3
  <2> QED BY <1>3, <2>1 DEF BucketPartition
<1>5. DOMAIN s = 1..n /\ \A i \in 1..n : s[i].value = NoKey /\ s[i].next = kInvalidIndex
  BY <1>1
<1> HIDE DEF s
<1>6. ChainBuckets(p) = {}
  BY <1>2, <1>3 DEF ChainBuckets
<1>7. ValuesInPlace(p) /\ ValuesDistinct(p)
  BY <1>3, <1>5, <1>6 DEF ValuesInPlace, ValuesDistinct
<1>8. NextIsNewest(p)
  BY <1>3, <1>5, <1>6 DEF NextIsNewest, Behind
<1>9. Contents(p) = Empty(n)
  BY <1>3, <1>5 DEF Contents, Empty
<1>10. Size(Empty(n)) = n
  BY EmptyHasRoom
<1> QED BY <1>2, <1>3, <1>4, <1>7, <1>8, <1>9, <1>10, EmptyType DEF PartitionOK, p

\* Rehashing a partition into one of twice its size moves every value: no
\* Insert on the way fails.
LEMMA InsertAllOK ==
    ASSUME hash \in [Key -> Nat], NEW p, PartitionOK(p), Contents(p) \in PartitionType,
           Size(Contents(p)) <= Capacity(p.hash_buckets),
           NEW n \in Nat, n >= 2 * p.hash_buckets
    PROVE  /\ PartitionOK(InsertAll(NewPartition(n), p))
           /\ Contents(InsertAll(NewPartition(n), p)) = With(Empty(n), Contents(p).values)
           /\ With(Empty(n), Contents(p).values) \in PartitionType
<1> DEFINE b == p.buckets
           L == Len(p.buckets)
           new == NewPartition(n)
           V(m) == {b[i].value : i \in 1..m} \ {NoKey}
<1>1. /\ p.hash_buckets \in Nat \ {0} /\ L \in Nat /\ DOMAIN b = 1..L
      /\ \A i \in 1..L : b[i].value \in Key \cup {NoKey}
      /\ ValuesDistinct(p)
  BY BucketTypes DEF PartitionOK
<1>2. n \in Nat \ {0}
  BY <1>1
<1>3. PartitionOK(new) /\ Contents(new) = Empty(n) /\ Empty(n) \in PartitionType
      /\ Empty(n).buckets = n /\ Empty(n).values = {}
  BY <1>2, NewPartitionOK DEF Empty
<1>4. PICK f : IsInserted(new, p, L, f) /\ InsertAll(new, p) = f[L]
  BY <1>1, InsertedExists, InsertAllIsInserted
<1>5. /\ Contents(p).buckets = p.hash_buckets
      /\ Contents(p).values = V(L)
  BY <1>1 DEF Contents
<1>6. \A m \in 0..L : V(m) \subseteq Contents(p).values
  BY <1>1, <1>5
<1>7. \A m \in 0..L : V(m) \in SUBSET Key /\ IsFiniteSet(V(m))
  <2> SUFFICES ASSUME NEW m \in 0..L
               PROVE  V(m) \in SUBSET Key /\ IsFiniteSet(V(m))
    OBVIOUS
  <2>1. Contents(p).values \subseteq Key /\ IsFiniteSet(Contents(p).values)
    BY DEF PartitionType
  <2>2. V(m) \in SUBSET Contents(p).values
    BY <1>6
  <2> HIDE DEF V
  <2> QED BY <2>1, <2>2, FS_Subset
<1>8. \A m \in 0..L : HasRoom(With(Empty(n), V(m)))
  <2> SUFFICES ASSUME NEW m \in 0..L
               PROVE  HasRoom(With(Empty(n), V(m)))
    OBVIOUS
  <2>1. V(m) \in SUBSET Contents(p).values
    BY <1>6
  <2>2. Contents(p).buckets > 0 /\ n >= 2 * Contents(p).buckets
        /\ Size(Contents(p)) <= Capacity(Contents(p).buckets)
    BY <1>1, <1>5
  <2> HIDE DEF V
  <2> QED BY <2>1, <2>2, RehashHasRoom
<1>9. \A m \in 0..L :
          /\ With(Empty(n), V(m)) \in PartitionType
          /\ With(Empty(n), V(m)).buckets = n
          /\ With(Empty(n), V(m)).values = V(m)
  <2> SUFFICES ASSUME NEW m \in 0..L
               PROVE  /\ With(Empty(n), V(m)) \in PartitionType
                      /\ With(Empty(n), V(m)).buckets = n
                      /\ With(Empty(n), V(m)).values = V(m)
    OBVIOUS
  <2>1. V(m) \in SUBSET Key /\ IsFiniteSet(V(m))
    BY <1>7
  <2> DEFINE K == V(m)
  <2> HIDE DEF K, V
  <2>2. K \in SUBSET Key /\ IsFiniteSet(K)
    BY <2>1 DEF K
  <2>3. /\ With(Empty(n), K) \in PartitionType
        /\ With(Empty(n), K).buckets = Empty(n).buckets
        /\ With(Empty(n), K).values = Empty(n).values \cup K
    BY <1>3, <2>2, WithType
  <2> QED BY <1>3, <2>3 DEF K
<1> DEFINE Good(m) == PartitionOK(f[m]) /\ Contents(f[m]) = With(Empty(n), V(m))
           T == {m \in 0..L : ~ Good(m)}
<1>10. \A i \in 0..L : f[i] =
          IF i = 0 THEN new
          ELSE IF b[i].value = NoKey THEN f[i - 1] ELSE PartitionInsert(f[i - 1], b[i].value)
  BY <1>4 DEF IsInserted
<1>11. ASSUME NEW m \in T, \A x \in T : m <= x
       PROVE  FALSE
  <2>1. CASE m = 0
    <3>1. V(0) = {}
      OBVIOUS
    <3>2. With(Empty(n), {}) = Empty(n)
      BY DEF With, Empty
    <3> QED BY <1>1, <1>3, <1>10, <1>11, <2>1, <3>1, <3>2
  <2>2. CASE m # 0
    <3>1. m \in 1..L /\ m - 1 \in 0..L /\ m - 1 < m
      BY <1>1, <2>2
    <3>2. Good(m - 1)
      <4> DEFINE x == m - 1
      <4>1. x \in 0..L /\ ~ (m <= x)
        BY <3>1
      <4>2. x \notin T
        BY <1>11, <4>1
      <4> QED BY <4>1, <4>2
    <3> DEFINE v == b[m].value
               r == f[m - 1]
    <3>3. V(m) = V(m - 1) \cup ({v} \ {NoKey})
      <4>1. \A i : i \in 1..m <=> i \in 1..(m - 1) \/ i = m
        BY <3>1
      <4> QED BY <4>1
    <3>4. CASE v = NoKey
      <4>1. V(m) = V(m - 1) /\ f[m] = r
        BY <1>10, <2>2, <3>1, <3>3, <3>4
      <4> HIDE DEF V
      <4>2. Good(m)
        BY <3>2, <4>1
      <4> QED BY <1>11, <4>2
    <3>5. CASE v # NoKey
      <4>1. v \in Key /\ V(m) = V(m - 1) \cup {v}
        BY <1>1, <3>1, <3>3, <3>5
      <4>2. v \notin V(m - 1)
        <5> SUFFICES ASSUME NEW i \in 1..(m - 1), b[i].value = v
                     PROVE  FALSE
          OBVIOUS
        <5>1. i \in DOMAIN b /\ m \in DOMAIN b /\ i # m
          BY <1>1, <3>1
        <5> QED BY <1>1, <3>5, <5>1 DEF ValuesDistinct
      <4> HIDE DEF V
      <4>3. f[m] = PartitionInsert(r, v)
        BY <1>10, <2>2, <3>1, <3>5
      <4> DEFINE C == Contents(r)
      <4>4. /\ PartitionOK(r) /\ C = With(Empty(n), V(m - 1)) /\ C \in PartitionType
            /\ C.values = V(m - 1) /\ C.buckets = n /\ HasRoom(C)
        BY <1>8, <1>9, <3>1, <3>2
      <4> HIDE DEF r, v
      <4>5. PartitionOK(PartitionInsert(r, v))
            /\ Contents(PartitionInsert(r, v)) = With(C, {v})
        BY <4>1, <4>2, <4>4, InsertOK
      <4>6. With(C, {v}) = With(Empty(n), V(m))
        <5> DEFINE K == V(m - 1)
        <5> HIDE DEF K
        <5>1. With(With(Empty(n), K), {v}) = With(Empty(n), K \cup {v})
          BY DEF With, Empty
        <5> QED BY <4>1, <4>4, <5>1 DEF K
      <4>7. Good(m)
        BY <4>3, <4>5, <4>6
      <4> QED BY <1>11, <4>7
    <3> QED BY <3>4, <3>5
  <2> QED BY <2>1, <2>2
<1>12. T = {}
  <2> SUFFICES ASSUME T # {}
               PROVE  FALSE
    OBVIOUS
  <2>1. T \in SUBSET Nat
    BY <1>1
  <2> HIDE DEF T
  <2>2. PICK m \in T : \A x \in T : m <= x
    BY <2>1, Least
  <2> QED BY <1>11, <2>2
<1> HIDE DEF Good
<1>13. Good(L)
  <2>1. L \in 0..L /\ L \notin T
    BY <1>1, <1>12
  <2> QED BY <2>1
<1>14. With(Empty(n), V(L)) \in PartitionType
  <2>1. L \in 0..L
    BY <1>1
  <2> QED BY <1>9, <2>1
<1>15. PartitionOK(f[L]) /\ Contents(f[L]) = With(Empty(n), V(L))
  BY <1>13 DEF Good
<1> HIDE DEF V
<1> QED BY <1>4, <1>5, <1>14, <1>15

----------------------------------------------------------------------------
(* HashBuckets implements HashTable.                                       *)

\* What is known of a partition changes with the partition alone.
LEMMA PartitionOKStays ==
    ASSUME hash' = hash
    PROVE  \A p : PartitionOK(p)' <=> PartitionOK(p)
BY DEF PartitionOK, ValuesInPlace, ValuesDistinct, NextIsNewest, Behind, Home, Index,
       ChainBuckets, Size, Occupied, Contents, BucketPartition, Bucket

LEMMA BucketFacts ==
    ASSUME BInv
    PROVE  /\ IInv /\ hash \in [Key -> Nat]
           /\ PartitionOK(insertion_table) /\ ins = Contents(insertion_table)
           /\ \A p \in full_table : PartitionOK(p) /\ full = {Contents(p)} /\ full_table = {p}
           /\ full_table = {} => full = {}
           /\ \A p \in Partitions : PartitionOK(p) /\ Contents(p) \in full \cup {ins}
           /\ \A p \in full \cup {ins} : p \in PartitionType /\ p.values \subseteq Key
           /\ \A q \in full \cup {ins} : \E p \in Partitions : q = Contents(p)
<1>1. IInv /\ hash \in [Key -> Nat]
  BY HashType DEF BInv, IInv
<1>2. \A p \in full \cup {ins} : p \in PartitionType /\ p.values \subseteq Key
  BY <1>1 DEF IInv, TypeOK, PartitionType
<1>3. full = {Contents(p) : p \in full_table} /\ ins = Contents(insertion_table)
  BY DEF BInv, FullContents
<1>4. PartitionOK(insertion_table) /\ \A p \in Partitions : PartitionOK(p)
  BY DEF BInv, Partitions
<1>5. ASSUME NEW p \in full_table
      PROVE  PartitionOK(p) /\ full = {Contents(p)} /\ full_table = {p}
  <2>1. full_table = {p}
    BY DEF BInv
  <2> QED BY <1>3, <1>4, <2>1 DEF Partitions
<1>6. \A p \in Partitions : Contents(p) \in full \cup {ins}
  BY <1>3 DEF Partitions
<1>7. \A q \in full \cup {ins} : \E p \in Partitions : q = Contents(p)
  BY <1>3 DEF Partitions
<1>8. full_table = {} => full = {}
  BY <1>3
<1> QED BY <1>1, <1>2, <1>3, <1>4, <1>5, <1>6, <1>7, <1>8

LEMMA LookupAgrees ==
    ASSUME BInv, NEW k \in Key
    PROVE  LookupAll(k) = Lookup(k)
<1>1. \A p \in Partitions : PartitionLookup(p, k) <=> k \in Contents(p).values
  BY BucketFacts, LookupCorrect
<1>2. Lookup(k) <=> \E q \in full \cup {ins} : k \in q.values
  BY DEF Lookup, Stored
<1>3. LookupAll(k) <=> Lookup(k)
  BY <1>1, <1>2, BucketFacts DEF LookupAll
<1>4. CASE Lookup(k)
  <2>1. Lookup(k) = TRUE
    BY <1>4 DEF Lookup
  <2>2. LookupAll(k) = TRUE
    BY <1>3, <1>4 DEF LookupAll
  <2> QED BY <2>1, <2>2
<1>5. CASE ~ Lookup(k)
  <2>1. Lookup(k) = FALSE
    BY <1>5 DEF Lookup
  <2>2. LookupAll(k) = FALSE
    BY <1>3, <1>5 DEF LookupAll
  <2> QED BY <2>1, <2>2
<1> QED BY <1>4, <1>5

\* The larger partition is what HashTable says of it.
LEMMA LargerTableOK ==
    ASSUME BInv
    PROVE  \E r : LargerTable = {r} /\ PartitionOK(r) /\ Contents(r) = Rehashed
<1> DEFINE n == Grown(insertion_table.hash_buckets)
           new == NewPartition(n)
<1>1. /\ IInv /\ hash \in [Key -> Nat]
      /\ PartitionOK(insertion_table) /\ ins = Contents(insertion_table)
      /\ \A p \in full_table : PartitionOK(p) /\ full = {Contents(p)} /\ full_table = {p}
      /\ full_table = {} => full = {}
  BY BucketFacts
<1>2. ins.buckets = insertion_table.hash_buckets
  BY <1>1 DEF Contents
<1>3. /\ ins.buckets \in Nat /\ ins.buckets >= 2
      /\ n \in Nat \ {0} /\ n = Grown(ins.buckets)
  <2>1. ins.buckets \in Nat /\ ins.buckets >= InitialBuckets
    BY <1>1 DEF IInv, TypeOK, SizesBounded, PartitionType
  <2>2. ins.buckets >= 2
    BY <2>1, InitialBucketsAssumption
  <2>3. Grown(ins.buckets) \in Nat /\ Grown(ins.buckets) >= ins.buckets
    BY <2>1, <2>2, GrowthEnough
  <2> QED BY <1>2, <2>1, <2>2, <2>3
<1>4. CASE full_table = {}
  <2>1. LargerTable = {new}
    BY <1>4 DEF LargerTable
  <2>2. UNION {p.values : p \in full} = {}
    BY <1>1, <1>4
  <2>3. Rehashed = Empty(n)
    BY <1>3, <2>2 DEF Rehashed, With, Empty
  <2> QED BY <1>1, <1>3, <2>1, <2>3, NewPartitionOK
<1>5. CASE full_table # {}
  <2>1. PICK p \in full_table : TRUE
    BY <1>5
  <2>2. PartitionOK(p) /\ full = {Contents(p)} /\ full_table = {p}
    BY <1>1, <2>1
  <2>3. LargerTable = {InsertAll(new, p)}
    BY <1>5, <2>2 DEF LargerTable
  <2>4. UNION {q.values : q \in full} = Contents(p).values
    BY <2>2
  <2>5. Rehashed = With(Empty(n), Contents(p).values)
    BY <1>3, <2>4 DEF Rehashed
  <2>6. /\ Contents(p) \in PartitionType
        /\ Contents(p).buckets = p.hash_buckets /\ p.hash_buckets \in Nat
        /\ p.hash_buckets >= InitialBuckets
        /\ Size(Contents(p)) <= Capacity(p.hash_buckets)
        /\ ins.buckets = Grown(p.hash_buckets)
    <3>1. Contents(p).buckets = p.hash_buckets
      BY DEF Contents
    <3>2. Contents(p) \in PartitionType
      BY <1>1, <2>2 DEF IInv, TypeOK
    <3> QED BY <1>1, <2>2, <3>1, <3>2 DEF IInv, SizesBounded, PartitionType
  <2>7. n >= 2 * p.hash_buckets
    <3>1. p.hash_buckets >= 2
      BY <2>6, InitialBucketsAssumption
    <3> QED BY <1>3, <2>6, <3>1, GrowthEnough
  <2> QED BY <1>1, <1>3, <2>2, <2>3, <2>5, <2>6, <2>7, InsertAllOK
<1> QED BY <1>4, <1>5

LEMMA InsertValueStep ==
    ASSUME BInv, NEW k \in Key, ~ Lookup(k), InsertValue(k), hash' = hash,
           full' = FullContents', ins' = Contents(insertion_table)'
    PROVE  /\ Insert(k)
           /\ \A p \in Partitions' : PartitionOK(p)
           /\ \A p, q \in full_table' : p = q
<1>1. /\ IInv /\ hash \in [Key -> Nat]
      /\ PartitionOK(insertion_table) /\ ins = Contents(insertion_table)
      /\ \A p \in full_table : PartitionOK(p)
      /\ ins \in PartitionType
  BY BucketFacts
<1>2. full' = {Contents(p) : p \in full_table'} /\ ins' = Contents(insertion_table')
  BY DEF FullContents, Contents
<1>3. Partitions' = full_table' \cup {insertion_table'}
  BY DEF Partitions
<1>4. full = {Contents(p) : p \in full_table} /\ \A p, q \in full_table : p = q
  BY DEF BInv, FullContents
<1>5. Overflows(insertion_table) <=> ~ HasRoom(ins)
  BY <1>1, RoomInArray
<1>6. CASE ~ Overflows(insertion_table)
  <2>1. insertion_table' = PartitionInsert(insertion_table, k)
        /\ full_table' = full_table /\ failed' = failed
    BY <1>6 DEF InsertValue
  <2>2. k \notin ins.values
    BY DEF Lookup, Stored
  <2>3. PartitionOK(insertion_table') /\ Contents(insertion_table') = With(ins, {k})
    BY <1>1, <1>5, <1>6, <2>1, <2>2, InsertOK
  <2>4. full' = full /\ ins' = With(ins, {k})
    BY <1>2, <1>4, <2>1, <2>3
  <2> QED BY <1>1, <1>3, <1>4, <1>5, <1>6, <2>1, <2>3, <2>4 DEF Insert
<1>7. CASE Overflows(insertion_table)
  <2>1. PICK r : LargerTable = {r} /\ PartitionOK(r) /\ Contents(r) = Rehashed
    BY LargerTableOK
  <2>2. /\ HasRoom(Rehashed) /\ Rehashed \in PartitionType
        /\ Rehashed.values = UNION {p.values : p \in full}
    BY <1>1, Growth
  <2>3. k \notin Rehashed.values
    BY <2>2 DEF Lookup, Stored
  <2> DEFINE new == PartitionInsert(r, k)
  <2>4. PartitionOK(new) /\ Contents(new) = With(Rehashed, {k})
    BY <1>1, <2>1, <2>2, <2>3, InsertOK
  <2>5. new.overflow = FALSE
    BY <1>1, <2>4, BucketTypes DEF PartitionOK
  <2>6. full_table' = {insertion_table} /\ insertion_table' = new /\ failed' = failed
    BY <1>7, <2>1, <2>5 DEF InsertValue
  <2> HIDE DEF new
  <2>7. full' = {ins} /\ ins' = With(Rehashed, {k})
    BY <1>1, <1>2, <2>4, <2>6
  <2> QED BY <1>1, <1>3, <1>5, <1>7, <2>2, <2>4, <2>6, <2>7 DEF Insert
<1> QED BY <1>6, <1>7

\* A step of the arrays is a step of the sets, and keeps the arrays well formed.
LEMMA BucketsStep ==
    ASSUME BInv, [BucketsNext]_bucketVars
    PROVE  [Next]_vars /\ BInv'
<1>1. IInv /\ full = FullContents /\ ins = Contents(insertion_table)
      /\ (\A p \in Partitions : PartitionOK(p)) /\ \A p, q \in full_table : p = q
  BY DEF BInv
<1>2. ASSUME [Next]_vars, hash' = hash,
             full' = FullContents', ins' = Contents(insertion_table)',
             \A p \in Partitions' : PartitionOK(p),
             \A p, q \in full_table' : p = q
      PROVE  [Next]_vars /\ BInv'
  <2>1. IInv'
    BY <1>1, <1>2, NextIInv
  <2>2. \A p \in Partitions' : PartitionOK(p)'
    BY <1>2, PartitionOKStays
  <2> QED BY <1>2, <2>1, <2>2 DEF BInv
<1>3. ASSUME UNCHANGED << full_table, insertion_table, hash >>
      PROVE  /\ FullContents' = FullContents
             /\ Contents(insertion_table)' = Contents(insertion_table)
             /\ Partitions' = Partitions
  BY <1>3 DEF FullContents, Contents, Partitions
<1>4. CASE UNCHANGED bucketVars
  <2>1. UNCHANGED << full_table, insertion_table, hash, full, ins >> /\ UNCHANGED vars
    BY <1>4 DEF bucketVars, vars
  <2> QED BY <1>1, <1>2, <1>3, <2>1
<1>5. ASSUME NEW k \in Key, FindValue(k),
             full' = FullContents', ins' = Contents(insertion_table)'
      PROVE  [Next]_vars /\ BInv'
  <2>1. ~ failed /\ found' = LookupAll(k)
        /\ UNCHANGED << hash, full_table, insertion_table, failed >>
    BY <1>5 DEF FindValue
  <2>2. UNCHANGED << full, ins >>
    BY <1>1, <1>3, <1>5, <2>1
  <2>3. found' = Lookup(k)
    BY <2>1, LookupAgrees
  <2>4. Find(k)
    BY <2>1, <2>2, <2>3 DEF Find
  <2> QED BY <1>1, <1>2, <1>3, <1>5, <2>1, <2>4 DEF Next
<1>6. ASSUME NEW k \in Key, InternValue(k),
             full' = FullContents', ins' = Contents(insertion_table)'
      PROVE  [Next]_vars /\ BInv'
  <2>1. /\ ~ failed /\ found' = LookupAll(k) /\ hash' = hash
        /\ LookupAll(k) => UNCHANGED << full_table, insertion_table, failed >>
        /\ ~ LookupAll(k) => InsertValue(k)
    BY <1>6 DEF InternValue
  <2>2. LookupAll(k) = Lookup(k)
    BY LookupAgrees
  <2>3. found' = Lookup(k)
    BY <2>1, <2>2
  <2>4. CASE Lookup(k)
    <3>1. UNCHANGED << full_table, insertion_table, failed, full, ins >>
      BY <1>1, <1>3, <1>6, <2>1, <2>2, <2>4
    <3>2. Intern(k)
      BY <2>1, <2>3, <2>4, <3>1 DEF Intern
    <3> QED BY <1>1, <1>2, <1>3, <1>6, <2>1, <3>1, <3>2 DEF Next
  <2>5. CASE ~ Lookup(k)
    <3>1. /\ Insert(k)
          /\ \A p \in Partitions' : PartitionOK(p)
          /\ \A p, q \in full_table' : p = q
      BY <1>6, <2>1, <2>2, <2>5, InsertValueStep
    <3>2. Intern(k)
      BY <2>1, <2>3, <2>5, <3>1 DEF Intern
    <3> QED BY <1>2, <1>6, <2>1, <3>1, <3>2 DEF Next
  <2> QED BY <2>4, <2>5
<1> QED BY <1>4, <1>5, <1>6 DEF BucketsNext

LEMMA BucketsInitOK ==
    ASSUME BucketsInit
    PROVE  Init /\ BInv
<1>1. InitialBuckets \in Nat \ {0} /\ hash \in [Key -> Nat]
  BY InitialBucketsAssumption, HashesAssumption DEF BucketsInit
<1>2. PartitionOK(insertion_table) /\ Contents(insertion_table) = Empty(InitialBuckets)
  BY <1>1, NewPartitionOK DEF BucketsInit
<1>3. full_table = {} /\ full = FullContents /\ ins = Contents(insertion_table)
  BY DEF BucketsInit
<1>4. Init
  BY <1>2, <1>3 DEF BucketsInit, Init, FullContents
<1> QED BY <1>2, <1>3, <1>4, InitIInv DEF BInv, Partitions

\* The chains, the sizes of the arrays and what the sets record of them are
\* right in every reachable state, for any keys and hash functions.
THEOREM BucketsInvariance == BucketsSpec => []BInv
<1>1. BucketsInit => BInv
  BY BucketsInitOK
<1>2. BInv /\ [BucketsNext]_bucketVars => BInv'
  BY BucketsStep
<1> QED BY <1>1, <1>2, PTL DEF BucketsSpec

\* Partition: every bucket is in the one chain its key belongs to, through
\* inserts, growth and rehashing.
THEOREM ChainsStayWellFormed == BucketsSpec => []ChainsWellFormed
<1>1. BInv => ChainsWellFormed
  <2> SUFFICES ASSUME BInv
               PROVE  ChainsWellFormed
    OBVIOUS
  <2>1. hash \in [Key -> Nat] /\ \A p \in Partitions : PartitionOK(p)
    BY BucketFacts
  <2>2. BucketsTypeOK
    BY <2>1 DEF BucketsTypeOK, PartitionOK
  <2> QED BY <2>1, <2>2, PartitionChains DEF ChainsWellFormed
<1> QED BY <1>1, BucketsInvariance, PTL

\* HashTable::Insert and Lookup on arrays and chains are those of HashTable on
\* sets of values: sizes, growth, failure and answers are the same.
THEOREM BucketsRefinement == BucketsSpec => ImplementsTable
<1>1. BucketsInit => Init
  BY BucketsInitOK
<1>2. BInv /\ [BucketsNext]_bucketVars => [Next]_vars
  BY BucketsStep
<1> QED BY <1>1, <1>2, BucketsInvariance, PTL DEF BucketsSpec, ImplementsTable, Spec

\* The SLICER_CHECKs of HashTable::Insert and Partition::InsertAll never fail.
THEOREM BucketsNeverAbort == BucketsSpec => []GrowthHasRoom
BY BucketsRefinement, NeverAborts, PTL DEF ImplementsTable

\* What was interned is found ever after, in whichever array and chain it is.
THEOREM BucketsIntern == BucketsSpec => ImplementsInterning
BY BucketsRefinement, Refinement, PTL DEF ImplementsTable
=============================================================================
