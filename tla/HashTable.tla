----------------------------- MODULE HashTable -----------------------------
(***************************************************************************)
(* slicer::HashTable, the table behind strings_lookup, prototypes_lookup   *)
(* and methods_lookup.  It grows without moving everything at once: there  *)
(* are two partitions, new values go into the insertion table, and when    *)
(* that has no room it becomes the full table, and the old full table is   *)
(* rehashed into a larger insertion table.                                 *)
(*                                                                         *)
(* A partition has a fixed number of hash buckets and never more than its  *)
(* reserved capacity of buckets in all; what a full partition does not     *)
(* take, rehashing must: the code aborts the process otherwise.            *)
(*                                                                         *)
(* Here a partition is the set of what it holds, from which the number of  *)
(* its buckets follows.  HashBuckets has the array and the chains.         *)
(***************************************************************************)
EXTENDS Integers, FiniteSets

CONSTANTS
    Key,              \* a value stands for its key: the table has one at most
    Hashes,           \* the hash functions considered
    InitialBuckets    \* kInitialHashBuckets

\* With a single bucket to start from the third partition is too small.
ASSUME HashesAssumption == Hashes \subseteq [Key -> Nat]
ASSUME InitialBucketsAssumption == InitialBuckets \in Nat \ {0, 1}

VARIABLES
    hash,     \* Hash::Hash, of the key
    full,     \* full_table_: {} or one partition
    ins,      \* insertion_table_
    found,    \* the answer of the last Lookup
    failed    \* a SLICER_CHECK has aborted the process

vars == << hash, full, ins, found, failed >>

\* kAvgChainLength, and kResizeFactor, which is 1.6.
Capacity(n) == 2 * n

\* A variant with a factor of 1.25.
GrownQuarter(n) == (5 * n) \div 4

Grown(n) == (8 * n) \div 5

----------------------------------------------------------------------------
(* Partition                                                               *)

Empty(n) == [buckets |-> n, values |-> {}]

\* The hash buckets in use; every other value takes one more bucket.
Occupied(p) == {hash[k] % p.buckets : k \in p.values}

Size(p) == p.buckets + Cardinality(p.values) - Cardinality(Occupied(p))

\* Partition::Insert gives up before it looks where the value would go.
HasRoom(p) == Size(p) + 1 <= Capacity(p.buckets)

With(p, K) == [p EXCEPT !.values = @ \cup K]

----------------------------------------------------------------------------
(* HashTable                                                               *)

Stored == UNION {p.values : p \in full \cup {ins}}

Lookup(k) == k \in Stored

Init ==
    /\ hash \in Hashes
    /\ full = {}
    /\ ins = Empty(InitialBuckets)
    /\ found = FALSE
    /\ failed = FALSE

\* The new insertion table before the value that did not fit.  Its size only
\* grows on the way, so that there is room for each value if there is for the
\* last.
Rehashed ==
    With(Empty(Grown(ins.buckets)), UNION {p.values : p \in full})

Insert(k) ==
    \/ /\ HasRoom(ins)
       /\ ins' = With(ins, {k})
       /\ UNCHANGED << full, failed >>
    \/ /\ ~HasRoom(ins)
       /\ HasRoom(Rehashed)
       /\ full' = {ins}
       /\ ins' = With(Rehashed, {k})
       /\ UNCHANGED failed
    \/ /\ ~HasRoom(ins)
       /\ ~HasRoom(Rehashed)
       /\ failed' = TRUE
       /\ UNCHANGED << full, ins >>

Find(k) ==
    /\ ~failed
    /\ found' = Lookup(k)
    /\ UNCHANGED << hash, full, ins, failed >>

\* Builder: look first, and insert what was not found.  Reader inserts
\* without looking, what the image has only once.
Intern(k) ==
    /\ ~failed
    /\ found' = Lookup(k)
    /\ IF Lookup(k) THEN UNCHANGED << full, ins, failed >> ELSE Insert(k)
    /\ UNCHANGED hash

Next == \E k \in Key : Find(k) \/ Intern(k)

Spec == Init /\ [][Next]_vars

----------------------------------------------------------------------------
(* Properties                                                              *)

PartitionType ==
    [buckets : Nat, values : {K \in SUBSET Key : IsFiniteSet(K)}]

TypeOK ==
    /\ hash \in Hashes
    /\ full \subseteq PartitionType
    /\ \A p, q \in full : p = q
    /\ ins \in PartitionType
    /\ found \in BOOLEAN
    /\ failed \in BOOLEAN

\* Growing never aborts: SLICER_CHECK(new_hash_table->Insert(value)) and the
\* one in InsertAll find room for what the full table held, however badly it
\* collides in the new one.
GrowthHasRoom == ~failed

\* No partition outgrows what it has reserved, so that it never moves in
\* memory, and each is larger than the one before by the resize factor.
SizesBounded ==
    /\ \A p \in full \cup {ins} :
          p.buckets >= InitialBuckets /\ Size(p) <= Capacity(p.buckets)
    /\ \A p \in full : ins.buckets = Grown(p.buckets)

\* The inductive invariant behind GrowthHasRoom.
IInv == TypeOK /\ SizesBounded /\ GrowthHasRoom

\* Lookups answer as those of a set that only ever grows: moving values from
\* one partition to the next loses none.
Interning == INSTANCE InternTable WITH interned <- Stored

ImplementsInterning == Interning!InternSpec
=============================================================================
