------------------------------ MODULE IndexMap ------------------------------
(***************************************************************************)
(* The index tracker of slicer/index_map.h: it notes which indexes of a    *)
(* table the source .dex uses and hands out free ones.  The reader marks   *)
(* the indexes it parses in any order (MarkUsedIndex), the builder         *)
(* allocates the others (AllocateIndex).  An index given out twice would   *)
(* make two IR nodes of one original index, and every instruction that     *)
(* names it ambiguous.                                                     *)
(*   used  the indexes whose bit is set                                    *)
(*   size  the length of indexes_map_, pos  alloc_pos_                     *)
(***************************************************************************)
EXTENDS Integers, FiniteSets

EmptyMap == [used |-> {}, size |-> 0, pos |-> 0]

\* The code insists that the bit was clear: the reader parses an index once.
Marked(m, i) ==
  [used |-> m.used \cup {i}, size |-> IF i >= m.size THEN i + 1 ELSE m.size, pos |-> m.pos]

\* The first free index at or after alloc_pos_; past the end all are free.
FreeIndex(m) ==
  CHOOSE i \in m.pos..m.size :
    /\ i \notin m.used
    /\ \A j \in m.pos..(i - 1) : j \in m.used

\* A mutant: the bit of the index given out stays clear.
AllocatedUnmarked(m) ==
  [Marked(m, FreeIndex(m)) EXCEPT !.used = m.used, !.pos = FreeIndex(m) + 1]

Allocated(m) == [Marked(m, FreeIndex(m)) EXCEPT !.pos = FreeIndex(m) + 1]

-----------------------------------------------------------------------------
(* What the code relies on: the indexes in use lie below the length of     *)
(* indexes_map_, and alloc_pos_ has passed no free one.                    *)
MapOK(m) ==
  /\ m \in [used : SUBSET Nat, size : Nat, pos : Nat]
  /\ m.pos <= m.size
  /\ \A i \in m.used : i < m.size
  /\ \A i \in 0..(m.pos - 1) : i \in m.used
=============================================================================
