----------------------------- MODULE DexLayout -----------------------------
(***************************************************************************)
(* What the layout of an image promises: after the header the sections     *)
(* follow each other, each at a multiple of four, none over another and    *)
(* nothing between them.  dex::Writer's sections implement it (DexRewrite).*)
(***************************************************************************)
EXTENDS Integers

CONSTANT Section   \* the sections an image may have

Header == 112      \* sizeof(dex::Header)

VARIABLES offset,  \* the end of what has been laid out
          placed   \* where each section laid out so far begins, and its size

vars == <<offset, placed>>

Init == offset = Header /\ placed = [s \in {} |-> [off |-> 0, size |-> 0]]

\* A section begins at the current offset and takes a multiple of four bytes.
Place(s) ==
  /\ s \notin DOMAIN placed
  /\ offset' \in Nat /\ offset' >= offset /\ (offset' - offset) % 4 = 0
  /\ placed' = [t \in DOMAIN placed \cup {s} |->
                  IF t = s THEN [off |-> offset, size |-> offset' - offset] ELSE placed[t]]

Next == \E s \in Section : Place(s)

Spec == Init /\ [][Next]_vars

-----------------------------------------------------------------------------
End(s) == placed[s].off + placed[s].size

LayoutTypeOK ==
  /\ offset \in Nat /\ offset >= Header
  /\ DOMAIN placed \subseteq Section
  /\ \A s \in DOMAIN placed : placed[s] \in [off : Nat, size : Nat]

\* A file pointer of the format is a multiple of four where the item must be
\* aligned; the writer aligns items within a section, so sections are too.
SectionsAligned ==
  /\ offset % 4 = 0
  /\ \A s \in DOMAIN placed : placed[s].off % 4 = 0 /\ placed[s].size % 4 = 0

\* No section is copied over another one or over the header (CopySection).
SectionsDisjoint ==
  /\ \A s \in DOMAIN placed : placed[s].off >= Header /\ End(s) <= offset
  /\ \A s, t \in DOMAIN placed : s # t => End(s) <= placed[t].off \/ End(t) <= placed[s].off

\* Every byte behind the header belongs to a section: the map describes the file.
NothingBetween ==
  \A byte \in Header..(offset - 1) :
    \E s \in DOMAIN placed : placed[s].off <= byte /\ byte < End(s)
=============================================================================
