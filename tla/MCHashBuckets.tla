--------------------------- MODULE MCHashBuckets ---------------------------
(***************************************************************************)
(* Eight keys reach the third partition when all of them collide.          *)
(***************************************************************************)
EXTENDS HashBuckets, TLC

CONSTANTS k1, k2, k3, k4, k5, k6, k7, k8

First == {k1, k2, k3, k4}
Second == {k5, k6, k7, k8}
MCKey == First \cup Second

\* All keys in one bucket, or half of them in another: in partitions of any
\* size, of three buckets only, of four only.
MCHashes == {[k \in MCKey |-> IF k \in First THEN 0 ELSE n] : n \in {0, 1, 4, 6}}

\* The hash functions do not tell the keys of a half apart.
Symmetry == Permutations(First) \cup Permutations(Second)
=============================================================================
