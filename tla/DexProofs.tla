----------------------------- MODULE DexProofs -----------------------------
(***************************************************************************)
(* Theorems about two parts of the way of a class file from reader to      *)
(* writer: the tracker of its indexes and the layout of its sections.      *)
(***************************************************************************)
EXTENDS DexLayout, IndexMap, WellFoundedInduction, TLAPS

----------------------------------------------------------------------------
(* IndexMap.  Whatever indexes the source image uses and in whatever order *)
(* they are marked, an index the builder gets is a new one.  What makes it *)
(* so is MapOK; the theorems say that every operation keeps it.            *)

\* A set of natural numbers has a least element.
LEMMA Least ==
  ASSUME NEW T \in SUBSET Nat, T # {}
  PROVE  \E x \in T : \A y \in T : x <= y
<1>1. PICK x \in T : \A y \in T : ~ (<<y, x>> \in OpToRel(<, Nat))
  BY NatLessThanWellFounded, WFMin
<1>2. ASSUME NEW y \in T PROVE x <= y
  <2>1. x \in Nat /\ y \in Nat
    OBVIOUS
  <2>2. <<y, x>> \in Nat \X Nat /\ <<y, x>>[1] = y /\ <<y, x>>[2] = x
    BY <2>1
  <2>3. ~ (y < x)
    BY <1>1, <2>2 DEF OpToRel
  <2> QED BY <2>1, <2>3
<1> QED BY <1>2

LEMMA MapFields ==
  ASSUME NEW m, MapOK(m)
  PROVE  /\ m.size \in Nat /\ m.pos \in Nat /\ m.pos <= m.size
         /\ m.used \subseteq Nat /\ \A i \in m.used : i < m.size
         /\ \A i \in 0..(m.pos - 1) : i \in m.used
         /\ m = [used |-> m.used, size |-> m.size, pos |-> m.pos]
BY DEF MapOK

\* AllocateIndex never hands out an index that is in use, and leaves no free
\* one behind: the builder's node replaces no node of the source image.
THEOREM FreeIndexIsFree ==
  ASSUME NEW m, MapOK(m)
  PROVE  /\ FreeIndex(m) \in m.pos..m.size
         /\ FreeIndex(m) \notin m.used
         /\ \A j \in m.pos..(FreeIndex(m) - 1) : j \in m.used
<1> DEFINE T == {i \in m.pos..m.size : i \notin m.used}
<1>1. m.size \in Nat /\ m.pos \in Nat /\ m.pos <= m.size /\ \A i \in m.used : i < m.size
  BY MapFields
<1>2. m.size \in T
  BY <1>1
<1>3. T \in SUBSET Nat
  BY <1>1
<1>4. PICK x \in T : \A y \in T : x <= y
  BY <1>2, <1>3, Least
<1>5. ASSUME NEW j \in m.pos..(x - 1) PROVE j \in m.used
  <2>1. j \in m.pos..m.size /\ ~ (x <= j)
    BY <1>1, <1>4
  <2> QED BY <1>4, <2>1
<1>6. x \in m.pos..m.size /\ x \notin m.used /\ \A j \in m.pos..(x - 1) : j \in m.used
  BY <1>4, <1>5
<1> QED BY <1>6 DEF FreeIndex

\* A tracker is as it should be before the reader starts.
THEOREM EmptyMapOK == MapOK(EmptyMap)
BY DEF MapOK, EmptyMap

\* Noting an index that the source image uses, in any order, keeps it so.
THEOREM MarkedOK ==
  ASSUME NEW m, MapOK(m), NEW i \in Nat
  PROVE  MapOK(Marked(m, i)) /\ Marked(m, i).used = m.used \cup {i} /\ Marked(m, i).pos = m.pos
<1> DEFINE size == IF i >= m.size THEN i + 1 ELSE m.size
<1>1. Marked(m, i) = [used |-> m.used \cup {i}, size |-> size, pos |-> m.pos]
  BY MapFields DEF Marked
<1>2. size \in Nat /\ m.size <= size /\ i < size
  BY MapFields
<1>3. m.used \cup {i} \in SUBSET Nat /\ m.pos \in Nat /\ m.pos <= size
  BY <1>2, MapFields
<1>4. \A j \in m.used \cup {i} : j < size
  BY <1>2, MapFields
<1>5. \A j \in 0..(m.pos - 1) : j \in m.used \cup {i}
  BY MapFields
<1> HIDE DEF size
<1> QED BY <1>1, <1>2, <1>3, <1>4, <1>5 DEF MapOK

\* So does handing one out, which is used from then on: it is never handed out
\* again, nor can the reader's mark hit it unnoticed.
THEOREM AllocatedOK ==
  ASSUME NEW m, MapOK(m)
  PROVE  /\ MapOK(Allocated(m))
         /\ Allocated(m).used = m.used \cup {FreeIndex(m)}
         /\ FreeIndex(Allocated(m)) # FreeIndex(m)
<1> DEFINE i == FreeIndex(m)
           n == Marked(m, i)
<1>1. i \in m.pos..m.size /\ \A j \in m.pos..(i - 1) : j \in m.used
  BY FreeIndexIsFree
<1>2. i \in Nat /\ m.pos <= i
  BY <1>1, MapFields
<1>3. MapOK(n) /\ n.used = m.used \cup {i} /\ n.pos = m.pos
  BY <1>2, MarkedOK
<1>4. n = [used |-> n.used, size |-> n.size, pos |-> n.pos] /\ n.size \in Nat /\ n.used \subseteq Nat
      /\ \A j \in n.used : j < n.size
  BY <1>3, MapFields
<1>5. Allocated(m) = [used |-> n.used, size |-> n.size, pos |-> i + 1]
  BY <1>4 DEF Allocated
<1>6. i \in n.used /\ i < n.size
  BY <1>3, <1>4
<1>7. i + 1 \in Nat /\ i + 1 <= n.size
  BY <1>2, <1>4, <1>6
<1>8. \A j \in 0..i : j \in n.used
  <2> SUFFICES ASSUME NEW j \in 0..i PROVE j \in n.used
    OBVIOUS
  <2>1. j \in 0..(m.pos - 1) \/ j \in m.pos..(i - 1) \/ j = i
    BY <1>2, MapFields
  <2> QED BY <2>1, <1>1, <1>3, MapFields
<1>9. MapOK(Allocated(m))
  <2>1. (i + 1) - 1 = i
    BY <1>2
  <2> HIDE DEF i, n
  <2> QED BY <1>4, <1>5, <1>7, <1>8, <2>1 DEF MapOK
<1>10. FreeIndex(Allocated(m)) # i
  BY <1>5, <1>6, <1>9, FreeIndexIsFree
<1> QED BY <1>3, <1>5, <1>9, <1>10

----------------------------------------------------------------------------
(* DexLayout.  For any number of sections of any sizes: they never         *)
(* overlap, they are aligned, and they cover the file behind the header.   *)
(* The conjunction of the three with the type invariant is inductive.      *)

LayoutInv == LayoutTypeOK /\ SectionsAligned /\ SectionsDisjoint /\ NothingBetween

LEMMA InitLayout == Init => LayoutInv
BY DEF Init, LayoutInv, LayoutTypeOK, SectionsAligned, SectionsDisjoint, NothingBetween, Header, End

LEMMA HeaderNat == Header \in Nat
BY DEF Header

\* Adding multiples of four.
LEMMA Multiples ==
  ASSUME NEW a \in Nat, NEW b \in Nat, b >= a, a % 4 = 0, (b - a) % 4 = 0
  PROVE  b % 4 = 0
OBVIOUS

LEMMA Difference ==
  ASSUME NEW a \in Nat, NEW b \in Nat, b >= a
  PROVE  b - a \in Nat
OBVIOUS

LEMMA Interval ==
  ASSUME NEW h \in Nat, NEW o \in Nat, NEW b \in h..(o - 1)
  PROVE  b \in Int /\ b >= h /\ b < o
OBVIOUS

LEMMA SectionType ==
  ASSUME NEW a \in Nat, NEW n \in Nat
  PROVE  [off |-> a, size |-> n] \in [off : Nat, size : Nat]
OBVIOUS

\* The new section begins and ends at a multiple of four.
LEMMA PlaceAligned ==
  ASSUME LayoutInv, NEW s \in Section, Place(s)
  PROVE  offset % 4 = 0 /\ offset' % 4 = 0 /\ (offset' - offset) % 4 = 0
<1>1. offset \in Nat /\ offset' \in Nat /\ offset' >= offset
  BY DEF LayoutInv, LayoutTypeOK, Place
<1>2. offset % 4 = 0 /\ (offset' - offset) % 4 = 0
  BY DEF LayoutInv, SectionsAligned, Place
<1>3. offset' % 4 = 0
  BY ONLY <1>1, <1>2, Multiples
<1> QED BY <1>2, <1>3

\* A new section leaves the others where they are and begins where they end.
LEMMA PlaceKeeps ==
  ASSUME LayoutInv, NEW s \in Section, Place(s)
  PROVE  /\ DOMAIN placed' = DOMAIN placed \cup {s}
         /\ \A t \in DOMAIN placed : placed'[t] = placed[t] /\ t # s
         /\ placed'[s].off = offset /\ placed'[s].size = offset' - offset
         /\ placed'[s] \in [off : Nat, size : Nat]
         /\ offset \in Nat /\ offset' \in Nat /\ offset >= Header /\ offset' >= offset
<1>1. offset \in Nat /\ offset' \in Nat
  BY DEF LayoutInv, LayoutTypeOK, Place
<1>2. offset >= Header /\ offset' >= offset
  BY DEF LayoutInv, LayoutTypeOK, Place
<1>3. offset' - offset \in Nat
  BY ONLY <1>1, <1>2, Difference
<1>4. s \notin DOMAIN placed
      /\ placed' = [t \in DOMAIN placed \cup {s} |->
                      IF t = s THEN [off |-> offset, size |-> offset' - offset] ELSE placed[t]]
  BY DEF Place
<1>5. placed'[s] = [off |-> offset, size |-> offset' - offset]
  BY <1>4
<1>6. DOMAIN placed' = DOMAIN placed \cup {s} /\ \A t \in DOMAIN placed : placed'[t] = placed[t] /\ t # s
  BY <1>4
<1>7. placed'[s].off = offset /\ placed'[s].size = offset' - offset
  BY <1>5
<1>8. placed'[s] \in [off : Nat, size : Nat]
  <2>1. [off |-> offset, size |-> offset' - offset] \in [off : Nat, size : Nat]
    BY ONLY <1>1, <1>3, SectionType
  <2> QED BY <2>1, <1>5
<1> QED BY <1>1, <1>2, <1>6, <1>7, <1>8

\* The end of a section does not move.
LEMMA EndsKept ==
  ASSUME LayoutInv, NEW s \in Section, Place(s)
  PROVE  /\ \A t \in DOMAIN placed : End(t)' = End(t) /\ End(t) \in Nat
         /\ End(s)' = offset'
<1>1. \A t \in DOMAIN placed : placed'[t] = placed[t]
  BY PlaceKeeps
<1>2. \A t \in DOMAIN placed : placed[t].off \in Nat /\ placed[t].size \in Nat
  BY DEF LayoutInv, LayoutTypeOK
<1>3. placed'[s].off = offset /\ placed'[s].size = offset' - offset
      /\ offset \in Nat /\ offset' \in Nat
  BY PlaceKeeps
<1>4. ASSUME NEW t \in DOMAIN placed PROVE End(t)' = End(t) /\ End(t) \in Nat
  <2>1. placed'[t] = placed[t]
    BY <1>1
  <2>2. placed[t].off + placed[t].size \in Nat
    <3>1. placed[t].off \in Nat /\ placed[t].size \in Nat
      BY <1>2
    <3> QED BY ONLY <3>1
  <2> QED BY ONLY <2>1, <2>2 DEF End
<1>5. End(s)' = offset'
  <2>1. offset + (offset' - offset) = offset'
    BY ONLY <1>3
  <2> QED BY ONLY <1>3, <2>1 DEF End
<1> QED BY ONLY <1>4, <1>5

LEMMA PlaceLayout ==
  ASSUME LayoutInv, NEW s \in Section, Place(s)
  PROVE  LayoutInv'
<1>1. LayoutTypeOK'
  <2>1. offset' \in Nat /\ offset' >= Header
    <3>1. offset' \in Nat /\ offset \in Nat /\ offset >= Header /\ offset' >= offset
      BY PlaceKeeps
    <3> QED BY ONLY <3>1, HeaderNat
  <2>2. DOMAIN placed' \subseteq Section
    BY PlaceKeeps, ZenonT(40) DEF LayoutInv, LayoutTypeOK
  <2>3. \A t \in DOMAIN placed' : placed'[t] \in [off : Nat, size : Nat]
    BY PlaceKeeps DEF LayoutInv, LayoutTypeOK
  <2> QED BY <2>1, <2>2, <2>3 DEF LayoutTypeOK, Header
<1>2. SectionsAligned'
  <2>1. offset' % 4 = 0
    BY PlaceAligned
  <2>2. ASSUME NEW t \in DOMAIN placed' PROVE placed'[t].off % 4 = 0 /\ placed'[t].size % 4 = 0
    <3>1. CASE t = s BY <3>1, PlaceKeeps, PlaceAligned
    <3>2. CASE t \in DOMAIN placed BY <3>2, PlaceKeeps DEF LayoutInv, SectionsAligned
    <3> QED BY <3>1, <3>2, PlaceKeeps
  <2> QED BY <2>1, <2>2 DEF SectionsAligned
<1>3. SectionsDisjoint'
  <2>1. ASSUME NEW t \in DOMAIN placed
        PROVE  placed'[t].off >= Header /\ End(t)' <= offset
    <3>1. placed[t].off >= Header /\ End(t) <= offset
      BY DEF LayoutInv, SectionsDisjoint
    <3> QED BY <3>1, PlaceKeeps, EndsKept
  <2>2. offset \in Nat /\ offset' \in Nat /\ offset >= Header /\ offset' >= offset
    BY PlaceKeeps
  <2>3. placed'[s].off = offset /\ End(s)' = offset'
    BY PlaceKeeps, EndsKept
  <2>4. \A t \in DOMAIN placed : End(t)' \in Nat
    BY EndsKept
  <2>5. \A t \in DOMAIN placed : End(t)' <= offset'
    BY ONLY <2>1, <2>2, <2>4
  <2>6. \A t, u \in DOMAIN placed :
           t # u => End(t)' <= placed'[u].off \/ End(u)' <= placed'[t].off
    BY PlaceKeeps, EndsKept DEF LayoutInv, SectionsDisjoint
  <2>7. ASSUME NEW t \in DOMAIN placed' PROVE placed'[t].off >= Header /\ End(t)' <= offset'
    <3>1. CASE t = s
      <4>1. placed'[t].off = offset /\ End(t)' = offset'
        BY <3>1, <2>3
      <4> QED BY ONLY <4>1, <2>2
    <3>2. CASE t \in DOMAIN placed BY <3>2, <2>1, <2>5
    <3> QED BY <3>1, <3>2, PlaceKeeps
  <2>8. ASSUME NEW t \in DOMAIN placed', NEW u \in DOMAIN placed', t # u
        PROVE  End(t)' <= placed'[u].off \/ End(u)' <= placed'[t].off
    <3>1. CASE t \in DOMAIN placed /\ u \in DOMAIN placed BY <3>1, <2>6, <2>8
    <3>2. CASE t = s /\ u \in DOMAIN placed BY <3>2, <2>1, <2>3
    <3>3. CASE u = s /\ t \in DOMAIN placed BY <3>3, <2>1, <2>3
    <3> QED BY <2>8, <3>1, <3>2, <3>3, PlaceKeeps, ZenonT(40)
  <2> QED BY <2>7, <2>8 DEF SectionsDisjoint
<1>4. NothingBetween'
  <2> SUFFICES ASSUME NEW byte \in Header..(offset' - 1)
               PROVE  \E t \in DOMAIN placed' : placed'[t].off <= byte /\ byte < End(t)'
    BY DEF NothingBetween, Header
  <2>1. offset \in Nat /\ offset' \in Nat
    BY PlaceKeeps
  <2>2. byte \in Int /\ byte >= Header /\ byte < offset'
    BY <2>1, HeaderNat, Interval
  <2>3. CASE byte < offset
    <3>1. byte \in Header..(offset - 1)
      BY ONLY <2>1, <2>2, <2>3, HeaderNat
    <3>2. PICK t \in DOMAIN placed : placed[t].off <= byte /\ byte < End(t)
      BY <3>1 DEF LayoutInv, NothingBetween
    <3> QED BY <3>2, PlaceKeeps, EndsKept
  <2>4. CASE ~(byte < offset)
    <3>1. offset <= byte
      BY ONLY <2>1, <2>2, <2>4
    <3>2. placed'[s].off <= byte /\ byte < End(s)'
      BY <2>2, <3>1, PlaceKeeps, EndsKept
    <3> QED BY <3>2, PlaceKeeps
  <2> QED BY <2>3, <2>4
<1> QED BY <1>1, <1>2, <1>3, <1>4 DEF LayoutInv

LEMMA LayoutInductive == LayoutInv /\ [Next]_vars => LayoutInv'
<1> SUFFICES ASSUME LayoutInv, [Next]_vars PROVE LayoutInv'
  OBVIOUS
<1>1. CASE Next
  BY <1>1, PlaceLayout DEF Next
<1>2. CASE UNCHANGED vars
  BY <1>2 DEF vars, LayoutInv, LayoutTypeOK, SectionsAligned, SectionsDisjoint, NothingBetween, End
<1> QED BY <1>1, <1>2

\* Wherever the writer stops, its sections are aligned and disjoint and lie
\* behind the header: CopySection never copies one over another.
THEOREM LayoutSound == Spec => [](SectionsAligned /\ SectionsDisjoint)
<1>1. LayoutInv => SectionsAligned /\ SectionsDisjoint
  BY DEF LayoutInv
<1> QED BY <1>1, InitLayout, LayoutInductive, PTL DEF Spec

\* The sections cover the file: the image has no byte the writer left unset.
THEOREM LayoutCovers == Spec => []NothingBetween
<1>1. LayoutInv => NothingBetween
  BY DEF LayoutInv
<1> QED BY <1>1, InitLayout, LayoutInductive, PTL DEF Spec

\* A section that was laid out stays where it is: the offsets written into
\* other sections before remain right.
THEOREM SectionsStay ==
  Spec => [][\A t \in DOMAIN placed : t \in DOMAIN placed' /\ placed'[t] = placed[t]]_vars
<1>1. LayoutInv /\ [Next]_vars
        => [\A t \in DOMAIN placed : t \in DOMAIN placed' /\ placed'[t] = placed[t]]_vars
  BY PlaceKeeps DEF Next
<1> QED BY <1>1, InitLayout, LayoutInductive, PTL DEF Spec
=============================================================================
