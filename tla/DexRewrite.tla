----------------------------- MODULE DexRewrite -----------------------------
(***************************************************************************)
(* A class file on its way through the agent (HookClassFileLoadHook,       *)
(* jtik_agent.cc): dex::Reader makes the IR of the classes asked for, the  *)
(* transforms add items through the builder and instructions that name     *)
(* them, and dex::Writer makes a new image, one section after the other.   *)
(* Where an instruction goes is the business of CodeIr; here it comes last *)
(* in its method, its operand the original index of the item.              *)
(*                                                                         *)
(* The agent reads the one class it hooks; the reader accepts any classes  *)
(* of the image in any order, and the order of the IR's classes, and of    *)
(* the indexes used, depends on it.                                        *)
(***************************************************************************)
EXTENDS DexWriter

CONSTANTS Images,       \* the images the runtime may hand to the agent
          Calls,        \* the methods a transform makes calls to
          CheckedTypes, \* the types it casts to or makes arrays of
          FieldUses,    \* the fields it accesses
          MaxAdded      \* bound: how many instructions are added

VARIABLES img,    \* the class file
          ir,     \* the IR, with the reader's and the builder's nodes
          index,  \* the index of each indexed node in the new image
          phase,
          todo,   \* the sections still to be created
          w,      \* the writer
          added,  \* what the instructions added to a method mean, by its meaning
          out     \* the new image

vars == <<img, ir, index, phase, todo, w, added, out>>

Init ==
  /\ img \in Images
  /\ ir = EmptyIr
  /\ phase = "read"
  /\ index = <<>> /\ todo = <<>> /\ w = <<>> /\ added = <<>> /\ out = <<>>

\* Reader::CreateClassIr.
ReadClass(c) ==
  /\ phase = "read"
  /\ <<"class", c>> \notin DOMAIN ir.nodes
  /\ ir' = CreateClassIr(img, ir, c)
  /\ UNCHANGED <<img, index, phase, todo, w, added, out>>

\* current_transform->Apply
Apply ==
  /\ phase = "read" /\ ir.order # <<>>
  /\ phase' = "transform"
  /\ UNCHANGED <<img, ir, index, todo, w, added, out>>

AddedCount == MapThenSumSet(LAMBDA m : Len(added[m]), DOMAIN added)

\* An instruction that names a node of the IR nodes, at the end of a method.
Instrument(nodes, owner, format, kind, key, meaning) ==
  LET method == MethodMeaning(img, MethodAt(ir, owner).decl)
      insn == [format |-> format, kind |-> kind, index |-> key]
  IN  /\ phase = "transform" /\ AddedCount < MaxAdded
      /\ ir' = [nodes EXCEPT
                  !.nodes[<<"class", owner[1]>>][owner[2]][owner[3]].code[1].insns = Append(@, insn)]
      /\ added' = [m \in DOMAIN added \cup {method} |->
                     (IF m \in DOMAIN added THEN added[m] ELSE <<>>)
                       \o (IF m = method THEN << <<format, meaning>> >> ELSE <<>>)]
      /\ UNCHANGED <<img, index, phase, todo, w, out>>

\* An invoke-static/range of a hook, a boxing method or a detour.
AddInvoke(owner, m) ==
  LET a == GetMethodDecl(ir, m)
  IN  Instrument(a, owner, "3rc", "method", KeyOf(a, "method", MethodNode(a, m)),
              <<m.parent, m.name, <<Shorty[<<m.ret>> \o m.params], m.ret, m.params>>>>)

\* A check-cast.
AddCheckCast(owner, d) ==
  LET a == GetType(ir, d) IN Instrument(a, owner, "21c", "type", TypeKey(a, d), <<d>>)

\* A field access; GetFieldDecl is there for a transform that needs one.
AddFieldUse(owner, f) ==
  LET a == GetFieldDecl(ir, f)
  IN  Instrument(a, owner, "22c", "field", KeyOf(a, "field", FieldNode(a, f)), <<f.parent, f.name, f.type>>)

\* CreateImage begins: DexFile::Normalize.
NormalizeIr ==
  /\ phase = "transform"
  /\ index' = Index(ir)
  /\ ir' = Normalize(ir, index')
  /\ phase' = "write"
  /\ todo' = IndexSections \o DataSections \o <<"map">>
  /\ w' = NewWriter
  /\ UNCHANGED <<img, added, out>>

\* Index<T>::Init, CreateXSection, CreateMapSection.
Create(section) ==
  CASE section \in DOMAIN KindOf -> InitIndex(index, w, section)
    [] section = "map"           -> CreateMapSection(w)
    [] OTHER                     -> CreateSection(ir, index, w, section)

CanCreate(section) ==
  CASE section \in DOMAIN KindOf -> TRUE
    [] section = "map"           -> MapSectionOK(w)
    [] OTHER                     -> w.offset % 4 = 0 /\ SectionOK(ir, index, w, section)

WriteSection ==
  /\ phase = "write" /\ todo # <<>>
  /\ CanCreate(Head(todo))
  /\ w' = Create(Head(todo))
  /\ todo' = Tail(todo)
  /\ UNCHANGED <<img, ir, index, phase, added, out>>

\* The index sections and the header are filled in, the sections copied.
Finish ==
  /\ phase = "write" /\ todo = <<>> /\ FillOK(ir, w)
  /\ out' = CreateImage(ir, index, w)
  /\ phase' = "done"
  /\ UNCHANGED <<img, ir, index, todo, w, added>>

\* The JVMTI allocator has no memory for the image: the class stays as it is.
NoMemory ==
  /\ phase = "write" /\ todo = <<>> /\ FillOK(ir, w)
  /\ phase' = "unchanged"
  /\ UNCHANGED <<img, ir, index, todo, w, added, out>>

\* A SLICER_CHECK ends the process.
Abort ==
  /\ phase = "write"
  /\ IF todo = <<>> THEN ~FillOK(ir, w) ELSE ~CanCreate(Head(todo))
  /\ phase' = "aborted"
  /\ UNCHANGED <<img, ir, index, todo, w, added, out>>

Transform ==
  \E owner \in ToSet(CodeOwners(ir)) :
    \/ \E m \in Calls : AddInvoke(owner, m)
    \/ \E d \in CheckedTypes : AddCheckCast(owner, d)
    \/ \E f \in FieldUses : AddFieldUse(owner, f)

Next ==
  \/ \E c \in DOMAIN img.ids["class"] : ReadClass(c)
  \/ Apply \/ Transform \/ NormalizeIr \/ WriteSection \/ Finish \/ NoMemory \/ Abort

Spec == Init /\ [][Next]_vars

-----------------------------------------------------------------------------
(* Properties *)

TypeOK ==
  /\ img \in Images
  /\ phase \in {"read", "transform", "write", "done", "unchanged", "aborted"}
  /\ \A kind \in IndexedKinds :
       MapOK(ir.indexes[kind]) /\ ir.indexes[kind].used = Keys(ir, kind)
  /\ ToSet(ir.order) = Keys(ir, "class") /\ Len(ir.order) = Cardinality(Keys(ir, "class"))
  /\ AddedCount \in 0..MaxAdded
  /\ phase \in {"read", "transform"} => index = <<>> /\ w = <<>> /\ out = <<>>

\* What class c of the image means, with the instructions added to its methods.
Expected(c) ==
  LET Extended(m) == IF m[1] \in DOMAIN added
                     THEN [m EXCEPT ![3][2] = @ \o added[m[1]]] ELSE m
  IN  [ClassMeaning(img, c) EXCEPT !.methods = {<<Extended(m[1]), m[2]>> : m \in @}]

\* Every class that was read means in the new image what it meant in the old
\* one and what the transforms added: the indexes and offsets in its members,
\* code, handlers, debug info, values and annotations all lead where they led.
MeaningPreserved ==
  phase = "done" =>
    /\ Cardinality(DOMAIN out.ids["class"]) = Cardinality(Keys(ir, "class"))
    /\ \A c \in Keys(ir, "class") :
         LET name == TypeName(img, img.ids["class"][c].type)
         IN  FindClassIndex(out, name) # NoIndex
             /\ ClassMeaning(out, ClassCalled(out, name)) = Expected(c)

StrictlyIncreasing(table, Key(_)) ==
  \A i \in DOMAIN table : i + 1 \in DOMAIN table => LexLess(Key(table[i]), Key(table[i + 1]))

\* The annotations of a set, the elements of an annotation, the members of a directory.
ItemSorted(item) ==
  LET ByMember(list) == StrictlyIncreasing(list, LAMBDA a : <<a.index>>)
  IN  /\ "entries" \in DOMAIN item =>
           StrictlyIncreasing(item.entries, LAMBDA e : <<Unsigned(out.data[e].type)>>)
      /\ "elements" \in DOMAIN item =>
           StrictlyIncreasing(item.elements, LAMBDA e : <<Unsigned(e.name)>>)
      /\ "params" \in DOMAIN item =>
           ByMember(item.fields) /\ ByMember(item.methods) /\ ByMember(item.params)

\* The index tables are in the order the .dex format demands of them and hold
\* nothing twice, a class comes after what it extends and implements, and the
\* annotations are sorted: the runtime searches all of these.
TablesSorted ==
  phase = "done" =>
    LET ids == out.ids
        Types(offset) == IF offset = 0 THEN <<>> ELSE out.data[offset].types
    IN  /\ StrictlyIncreasing(ids["string"], LAMBDA s : <<Rank[out.data[s].text]>>)
        /\ StrictlyIncreasing(ids["type"], LAMBDA t : <<t>>)
        /\ StrictlyIncreasing(ids["proto"], LAMBDA p : <<p.return_type>> \o Types(p.parameters))
        /\ StrictlyIncreasing(ids["field"], LAMBDA f : <<f.parent, f.name, f.type>>)
        /\ StrictlyIncreasing(ids["method"], LAMBDA m : <<m.parent, m.name, m.prototype>>)
        /\ \A c, d \in DOMAIN ids["class"] :
             ids["class"][d].type \in {ids["class"][c].superclass} \cup ToSet(Types(ids["class"][c].interfaces))
               => d < c
        /\ \A o \in DOMAIN out.data : ItemSorted(out.data[o])

\* The new image is one the reader accepts: the runtime reads it, and so does
\* the next environment or agent that the class file goes through.
ReaderAcceptsImage == phase = "done" => ReaderAccepts(out)

\* The map lists every section that has items, in the order of the file, and
\* each of them holds as many items as the map says.
MapDescribesImage ==
  phase = "done" =>
    LET map == out.header.map
        end(k) == IF k = Len(map) THEN out.size ELSE map[k + 1].offset
    IN  /\ map[1].offset = 0
        /\ \A k \in 2..Len(map) : map[k].offset > map[k - 1].offset
        /\ \A kind \in IndexedKinds :
             out.header.ids_off[kind] # 0 =>
               \E k \in DOMAIN map : map[k].offset = out.header.ids_off[kind]
                                     /\ map[k].size = Cardinality(DOMAIN out.ids[kind])
        /\ \A k \in DOMAIN map :
             map[k].offset >= out.header.data_off =>
               map[k].size = Cardinality({o \in DOMAIN out.data : map[k].offset <= o /\ o < end(k)})
        /\ \A o \in DOMAIN out.data : o >= out.header.data_off /\ o < out.size

\* Writing an image fails for one reason only: an item an instruction names by
\* a 16-bit operand got a greater index.
AbortsOnlyOnWideIndex ==
  phase = "aborted" =>
    \E owner \in ToSet(CodeOwners(ir)) : \E insn \in ToSet(MethodAt(ir, owner).code[1].insns) :
      insn.kind \in RelocatedKinds /\ IndexSize(insn.format) = 2
        /\ insn.index \in DOMAIN index[insn.kind] /\ index[insn.kind][insn.index] >= U2

\* An original index never comes to denote another item: an instruction that
\* was read or added before may name it.
IndexesKeepTheirNodes ==
  [][\A n \in DOMAIN ir.nodes :
       n[1] \in IndexedKinds \ {"class"} => n \in DOMAIN ir'.nodes /\ ir'.nodes[n] = ir.nodes[n]]_vars

\* The sections are laid out as DexLayout promises.
Layout == INSTANCE DexLayout WITH
  Section <- ToSet(IndexSections) \cup ToSet(DataSections) \cup {"map"},
  offset  <- IF w = <<>> THEN HeaderSize ELSE w.offset,
  placed  <- IF w = <<>> THEN <<>>
             ELSE [s \in DOMAIN w.sections |-> [off |-> w.sections[s].off, size |-> w.sections[s].size]]

ImplementsLayout == Layout!Spec

-----------------------------------------------------------------------------
(* slicer/dex_ir.h:39 says of the IR that it "can mirror any .dex file".   *)
MirrorsAnyImage == MeaningPreserved
=============================================================================
