---------------------------- MODULE HashBuckets ----------------------------
(***************************************************************************)
(* The partitions of slicer::HashTable as they are stored: one array, the  *)
(* hash buckets first and behind them the buckets of the collision chains, *)
(* linked by indexes.  The sets full and ins of HashTable record what the  *)
(* arrays hold, so that the steps of the arrays can be compared with its   *)
(* steps.                                                                  *)
(*                                                                         *)
(* Indexes count from 1, so that kInvalidIndex can be 0.                   *)
(***************************************************************************)
EXTENDS HashTable, Sequences

CONSTANT NoKey     \* no value: nullptr

ASSUME NoKeyAssumption == NoKey \notin Key

VARIABLES
    full_table,         \* {} or one partition
    insertion_table

bucketVars == << full_table, insertion_table, vars >>

kInvalidIndex == 0
kAvgChainLength == 2

Bucket == [value : Key \cup {NoKey}, next : Nat]
EmptyBucket == [value |-> NoKey, next |-> kInvalidIndex]

\* Partition::Partition
NewPartition(n) ==
    [hash_buckets |-> n, buckets |-> [i \in 1..n |-> EmptyBucket], overflow |-> FALSE]

Index(p, k) == (hash[k] % p.hash_buckets) + 1

Overflows(p) == Len(p.buckets) + 1 > kAvgChainLength * p.hash_buckets

\* A variant that links a new bucket to the head of its chain alone.
ChainedUnlinked(p, i, k) ==
    Append([p.buckets EXCEPT ![i].next = Len(p.buckets) + 1],
           [value |-> k, next |-> kInvalidIndex])

\* The new bucket comes second in its chain.
Chained(p, i, k) ==
    Append([p.buckets EXCEPT ![i].next = Len(p.buckets) + 1],
           [value |-> k, next |-> p.buckets[i].next])

\* Partition::Insert; overflow says that it has returned false.
PartitionInsert(p, k) ==
    LET i == Index(p, k)
    IN  IF p.overflow \/ Overflows(p)
        THEN [p EXCEPT !.overflow = TRUE]
        ELSE IF p.buckets[i].value = NoKey
             THEN [p EXCEPT !.buckets[i].value = k]
             ELSE [p EXCEPT !.buckets = Chained(p, i, k)]

\* Partition::Lookup
PartitionLookup(p, k) ==
    LET ChainHas[i \in 0..Len(p.buckets)] ==
            /\ i # kInvalidIndex
            /\ p.buckets[i].value # NoKey
            /\ p.buckets[i].value = k \/ ChainHas[p.buckets[i].next]
    IN  ChainHas[Index(p, k)]

\* Partition::InsertAll
InsertAll(p, src) ==
    LET Inserted[i \in 0..Len(src.buckets)] ==
            IF i = 0
            THEN p
            ELSE IF src.buckets[i].value = NoKey
                 THEN Inserted[i - 1]
                 ELSE PartitionInsert(Inserted[i - 1], src.buckets[i].value)
    IN  Inserted[Len(src.buckets)]

----------------------------------------------------------------------------
(* HashTable                                                               *)

\* What the arrays hold.
Contents(p) ==
    [buckets |-> p.hash_buckets,
     values |-> {p.buckets[i].value : i \in DOMAIN p.buckets} \ {NoKey}]

FullContents == {Contents(p) : p \in full_table}

BucketsInit ==
    /\ hash \in Hashes
    /\ full_table = {}
    /\ insertion_table = NewPartition(InitialBuckets)
    /\ found = FALSE
    /\ failed = FALSE
    /\ full = FullContents
    /\ ins = Contents(insertion_table)

Partitions == full_table \cup {insertion_table}

\* HashTable::Lookup
LookupAll(k) == \E p \in Partitions : PartitionLookup(p, k)

\* A variant that forgets the old full table.
LargerTableAlone == {NewPartition(Grown(insertion_table.hash_buckets))}

\* The larger partition with what the full table has.
LargerTable ==
    LET new == NewPartition(Grown(insertion_table.hash_buckets))
    IN  IF full_table = {} THEN {new} ELSE {InsertAll(new, p) : p \in full_table}

\* HashTable::Insert
InsertValue(k) ==
    IF ~Overflows(insertion_table)
    THEN /\ insertion_table' = PartitionInsert(insertion_table, k)
         /\ UNCHANGED << full_table, failed >>
    ELSE \E new \in {PartitionInsert(p, k) : p \in LargerTable} :
            IF new.overflow
            THEN failed' = TRUE /\ UNCHANGED << full_table, insertion_table >>
            ELSE /\ full_table' = {insertion_table}
                 /\ insertion_table' = new
                 /\ UNCHANGED failed

FindValue(k) ==
    /\ ~failed
    /\ found' = LookupAll(k)
    /\ UNCHANGED << hash, full_table, insertion_table, failed >>

InternValue(k) ==
    /\ ~failed
    /\ found' = LookupAll(k)
    /\ IF LookupAll(k)
       THEN UNCHANGED << full_table, insertion_table, failed >>
       ELSE InsertValue(k)
    /\ UNCHANGED hash

BucketsNext ==
    /\ \E k \in Key : FindValue(k) \/ InternValue(k)
    /\ full' = FullContents'
    /\ ins' = Contents(insertion_table)'

BucketsSpec == BucketsInit /\ [][BucketsNext]_bucketVars

----------------------------------------------------------------------------
(* Properties                                                              *)

\* Partition: every bucket is well formed, and no partition is in use after it failed.
BucketPartition ==
    {p \in [hash_buckets : Nat \ {0}, buckets : Seq(Bucket), overflow : {FALSE}] :
        Len(p.buckets) >= p.hash_buckets}

BucketsTypeOK == \A p \in Partitions : p \in BucketPartition

\* The chains partition the array: each bucket in use has one predecessor,
\* which came before it or is the head of its chain, holds a key of that chain,
\* and the buckets behind the hash buckets are all in use.  A walk along a
\* chain therefore ends, and meets every value of its hash bucket.
ChainsWellFormed ==
    /\ BucketsTypeOK
    /\ \A p \in Partitions :
        LET Before(i) == {j \in DOMAIN p.buckets : p.buckets[j].next = i}
        IN  /\ \A i \in DOMAIN p.buckets :
                  IF i <= p.hash_buckets
                  THEN /\ Before(i) = {}
                       /\ p.buckets[i].value = NoKey => p.buckets[i].next = kInvalidIndex
                       /\ p.buckets[i].value # NoKey => Index(p, p.buckets[i].value) = i
                  ELSE /\ p.buckets[i].value # NoKey
                       /\ \E j \in Before(i) :
                             /\ Before(i) = {j}
                             /\ Index(p, p.buckets[j].value) = Index(p, p.buckets[i].value)
                             /\ j > i \/ j = Index(p, p.buckets[i].value)

\* The hash bucket a bucket's chain starts from.
Home(p, i) == IF i <= p.hash_buckets THEN i ELSE Index(p, p.buckets[i].value)

ChainBuckets(p) == (p.hash_buckets + 1)..Len(p.buckets)

\* The buckets a walk has still to meet after bucket i: the newest is second in
\* its chain, and the others follow from the newer to the older.
Behind(p, i) ==
    {j \in ChainBuckets(p) : Home(p, j) = Home(p, i) /\ (i > p.hash_buckets => j < i)}

\* A value is in its hash bucket, or in a chain that starts from an occupied one.
ValuesInPlace(p) ==
    /\ \A i \in 1..p.hash_buckets :
          p.buckets[i].value # NoKey => Index(p, p.buckets[i].value) = i
    /\ \A i \in ChainBuckets(p) :
          p.buckets[i].value # NoKey /\ p.buckets[Home(p, i)].value # NoKey

ValuesDistinct(p) ==
    \A i, j \in DOMAIN p.buckets :
        p.buckets[i].value = p.buckets[j].value /\ p.buckets[i].value # NoKey => i = j

NextIsNewest(p) ==
    \A i \in DOMAIN p.buckets :
        /\ p.buckets[i].next \in Behind(p, i) \cup {kInvalidIndex}
        /\ \A j \in Behind(p, i) : j <= p.buckets[i].next

PartitionOK(p) ==
    /\ p \in BucketPartition
    /\ ValuesInPlace(p)
    /\ ValuesDistinct(p)
    /\ NextIsNewest(p)
    /\ Len(p.buckets) = Size(Contents(p))

\* The inductive invariant behind ChainsWellFormed and ImplementsTable: of the
\* chains, of the array's size, and of what full and ins record of them.
BInv ==
    /\ IInv
    /\ \A p \in Partitions : PartitionOK(p)
    /\ \A p, q \in full_table : p = q
    /\ full = FullContents
    /\ ins = Contents(insertion_table)

\* The array with its chains behaves as the set of its values: the size of the
\* array, overflow, growth and the answers of Lookup are those of HashTable.
ImplementsTable == Spec
=============================================================================
