----------------------------- MODULE DexWriter -----------------------------
(***************************************************************************)
(* dex::Writer (writer.cc, slicer/writer.h): from a normalized IR to an    *)
(* image.  The writer is a record:                                         *)
(*   offset    where the next section goes                                 *)
(*   at        node_offset_ and the offsets the class_defs got so far:     *)
(*             for each kind the file offset of each node written, 0 for   *)
(*             an empty one                                                *)
(*   data      the items written, by their offset                          *)
(*   sections  [off, count, size] of each section laid out                 *)
(* A code item, its debug info and a list of parameter annotations are     *)
(* nodes of their own here, named by their owner.  Items of one section    *)
(* that have no prescribed order are written in the order of their keys,   *)
(* the code uses the order of allocation.  X(...)OK collects the           *)
(* SLICER_CHECKs on the way to X, each of which ends the process.          *)
(***************************************************************************)
EXTENDS DexIr

Total(seq) == FoldLeft(LAMBDA sum, n : sum + n, 0, seq)
Lengths(seqs) == Total([k \in DOMAIN seqs |-> Len(seqs[k])])
Aligned(n, a) == ((n + a - 1) \div a) * a

\* What a field of 16 bits keeps of a number: the writer does not ask whether it fits.
AsU2(n) == n % U2

-----------------------------------------------------------------------------
(* Encoded values *)

RECURSIVE WriteEncodedValue(_, _), WriteAnnotation(_, _)
WriteEncodedValue(index, v) ==
  CASE v.type \in {"null", "boolean"} -> v
    [] v.type = "array" ->
         [v EXCEPT !.values = [k \in DOMAIN @ |-> WriteEncodedValue(index, @[k])]]
    [] v.type = "annotation" -> [v EXCEPT !.annotation = WriteAnnotation(index, @)]
    [] v.type \in {"float", "double"} -> [type |-> v.type, bytes |-> WriteFloatValue(v.value)]
    [] v.type \in DOMAIN References ->
         [type |-> v.type, bytes |-> WriteIntValue(v.type, index[References[v.type]][v.value])]
    [] OTHER -> [type |-> v.type, bytes |-> WriteIntValue(v.type, v.value)]

WriteAnnotation(index, a) ==
  [ type     |-> WriteULeb128(index["type"][a.type]),
    elements |-> [k \in DOMAIN a.elements |->
                    [name  |-> WriteULeb128(index["string"][a.elements[k].name]),
                     value |-> WriteEncodedValue(index, a.elements[k].value)]] ]

WriteEncodedArray(index, values) ==
  [values |-> [k \in DOMAIN values |-> WriteEncodedValue(index, values[k])]]

\* One byte of header, the argument in it, then the content.
RECURSIVE ValueSize(_), AnnotationSize(_), ArraySize(_)
ValueSize(v) ==
  1 + CASE v.type \in {"null", "boolean"} -> 0
        [] v.type = "array" -> ArraySize(v.values)
        [] v.type = "annotation" -> AnnotationSize(v.annotation)
        [] OTHER -> Len(v.bytes)
ArraySize(values) ==
  Len(WriteULeb128(Len(values))) + Total([k \in DOMAIN values |-> ValueSize(values[k])])
AnnotationSize(a) ==
  Len(a.type) + Len(WriteULeb128(Len(a.elements)))
    + Total([k \in DOMAIN a.elements |-> Len(a.elements[k].name) + ValueSize(a.elements[k].value)])

-----------------------------------------------------------------------------
(* Indexes and pointers *)

\* MapStringIndex, MapTypeIndex, MapFieldIndex, MapMethodIndex.
MapIndex(index, kind, i) == IF i = NoIndex THEN NoIndex ELSE index[kind][i]
MapIndexOK(index, kind, i) == i = NoIndex \/ i \in DOMAIN index[kind]
OptIndex(index, kind, key) == MapIndex(index, kind, key)

FilePointer(at, kind, key) == IF key = NoIndex THEN 0 ELSE at[kind][key]
Written(at, kind, key) == kind \in DOMAIN at /\ key \in DOMAIN at[kind] /\ at[kind][key] > 0
FilePointerOK(at, kind, key) == key = NoIndex \/ Written(at, kind, key)

-----------------------------------------------------------------------------
(* Debug info *)

PushIndex(index, kind, b) == WriteULeb128((MapIndex(index, kind, DebugIndex(b)) + 1) % U4)

WriteDebugOp(index, op) ==
  CASE op.op = "ADVANCE_LINE" -> [op EXCEPT !.arg = WriteSLeb128(ReadSLeb128(@))]
    [] op.op \in {"ADVANCE_PC", "END_LOCAL", "RESTART_LOCAL"} ->
         [op EXCEPT !.arg = WriteULeb128(ReadULeb128(@))]
    [] op.op = "START_LOCAL" ->
         [op EXCEPT !.arg = WriteULeb128(ReadULeb128(@)),
                    !.name = PushIndex(index, "string", @), !.type = PushIndex(index, "type", @)]
    [] op.op = "START_LOCAL_EXTENDED" ->
         [op EXCEPT !.arg = WriteULeb128(ReadULeb128(@)),
                    !.name = PushIndex(index, "string", @), !.type = PushIndex(index, "type", @),
                    !.signature = PushIndex(index, "string", @)]
    [] op.op = "SET_FILE" -> [op EXCEPT !.name = PushIndex(index, "string", @)]
    [] OTHER -> op

WriteDebugInfo(index, d) ==
  [ line_start |-> WriteULeb128(d.line_start),
    parameters |-> [k \in DOMAIN d.parameters |->
                      WriteULeb128((OptIndex(index, "string", d.parameters[k]) + 1) % U4)],
    ops        |-> [k \in DOMAIN d.ops |-> WriteDebugOp(index, d.ops[k])] ]

OperandSize(op, field) == IF field \in DOMAIN op THEN Len(op[field]) ELSE 0
DebugInfoSize(item) ==
  Len(item.line_start) + Len(WriteULeb128(Len(item.parameters))) + Lengths(item.parameters)
    + Total([k \in DOMAIN item.ops |->
               1 + OperandSize(item.ops[k], "arg") + OperandSize(item.ops[k], "name")
                 + OperandSize(item.ops[k], "type") + OperandSize(item.ops[k], "signature")]) + 1

DebugInfoOK(index, d) ==
  \A k \in DOMAIN d.ops : \A n \in DebugOpMentions(d.ops[k]) : MapIndexOK(index, n[1], n[2])

-----------------------------------------------------------------------------
(* Code *)

\* The units of an instruction, of a switch or array payload its own length.
Width(insn) ==
  CASE insn.format = "payload" -> insn.units
    [] insn.format \in {"10x", "12x", "11n", "11x", "10t"} -> 1
    [] insn.format \in {"20t", "20bc", "21c", "22x", "21s", "21t", "21h", "23x", "22b", "22s",
                        "22t", "22c", "22cs"} -> 2
    [] insn.format \in {"30t", "31t", "31c", "32x", "31i", "35c", "35ms", "35mi", "3rc", "3rms",
                        "3rmi"} -> 3
    [] insn.format \in {"45cc", "4rcc"} -> 4
    [] insn.format = "51l" -> 5

IndexSize(format) ==
  CASE format \in {"20bc", "21c", "35c", "3rc", "22c"} -> 2 [] format = "31c" -> 4 [] OTHER -> 0

WriteInstruction(index, insn) ==
  IF insn.kind \in RelocatedKinds THEN [insn EXCEPT !.index = MapIndex(index, insn.kind, @)]
  ELSE insn
InstructionOK(index, insn) ==
  insn.kind \in RelocatedKinds =>
    /\ IndexSize(insn.format) = 2 \/ (IndexSize(insn.format) = 4 /\ insn.kind = "string")
    /\ insn.index \in DOMAIN index[insn.kind]
    /\ IndexSize(insn.format) = 2 => index[insn.kind][insn.index] < U2

WriteHandler(index, h) ==
  [ catches  |-> [k \in DOMAIN h.catches |->
                    [type |-> WriteULeb128(MapIndex(index, "type", ReadULeb128(h.catches[k].type))),
                     addr |-> WriteULeb128(ReadULeb128(h.catches[k].addr))]],
    catchAll |-> [k \in DOMAIN h.catchAll |-> WriteULeb128(ReadULeb128(h.catchAll[k]))] ]

\* The number of catch clauses is negated when there is a catch-all.
HandlerSize(h) ==
  LET n == Len(h.catches)
  IN  Len(WriteSLeb128(IF h.catchAll = <<>> THEN n ELSE -n)) + Lengths(h.catchAll)
        + Total([k \in 1..n |-> Len(h.catches[k].type) + Len(h.catches[k].addr)])

\* Where a handler of the old list goes in the new one.
HandlerPlace(index, handlers, o) ==
  Len(WriteULeb128(Cardinality(DOMAIN handlers)))
    + MapThenSumSet(LAMBDA p : HandlerSize(WriteHandler(index, handlers[p])),
                    {p \in DOMAIN handlers : p < o})

\* handlers_offset_map, from 16 bits to 16 bits: of two handlers with one key the later counts.
HandlerOffsets(index, handlers) ==
  [k \in {AsU2(o) : o \in DOMAIN handlers} |->
     AsU2(HandlerPlace(index, handlers, Max({o \in DOMAIN handlers : AsU2(o) = k})))]

WrittenHandlers(index, handlers) ==
  [n \in {HandlerPlace(index, handlers, o) : o \in DOMAIN handlers} |->
     WriteHandler(index, handlers[CHOOSE o \in DOMAIN handlers :
                                    HandlerPlace(index, handlers, o) = n])]

\* A mutant: the try blocks are matched with the handlers in their order.
WriteCodeByPosition(index, at, owner, c) ==
  LET offsets == HandlerOffsets(index, c.handlers)
      sorted == InOrder({offsets[o] : o \in DOMAIN offsets})
  IN  [ registers  |-> c.registers,
        debug_info |-> IF c.debug = Nothing THEN 0 ELSE at["debug"][owner],
        insns      |-> [k \in DOMAIN c.insns |-> WriteInstruction(index, c.insns[k])],
        tries      |-> [k \in DOMAIN c.tries |-> [c.tries[k] EXCEPT !.handler_off = sorted[k]]],
        handlers   |-> WrittenHandlers(index, c.handlers) ]

WriteCode(index, at, owner, c) ==
  LET offsets == HandlerOffsets(index, c.handlers)
  IN  [ registers  |-> c.registers,
        debug_info |-> IF c.debug = Nothing THEN 0 ELSE at["debug"][owner],
        insns      |-> [k \in DOMAIN c.insns |-> WriteInstruction(index, c.insns[k])],
        tries      |-> [k \in DOMAIN c.tries |->
                          [c.tries[k] EXCEPT !.handler_off = offsets[@]]],
        handlers   |-> WrittenHandlers(index, c.handlers) ]

Units(insns) == Total([k \in DOMAIN insns |-> Width(insns[k])])
CodeSize(c) ==
  LET n == 16 + 2 * Units(c.insns)
  IN  IF c.tries = <<>> THEN n
      ELSE Aligned(n, 4) + 8 * Len(c.tries) + Len(WriteULeb128(Cardinality(DOMAIN c.handlers)))
             + MapThenSumSet(LAMBDA o : HandlerSize(c.handlers[o]), DOMAIN c.handlers)

CodeOK(index, at, owner, c) ==
  /\ c.insns # <<>>
  /\ \A k \in DOMAIN c.insns : InstructionOK(index, c.insns[k])
  /\ \A n \in HandlerMentions(c) : MapIndexOK(index, n[1], n[2])
  /\ LET offsets == HandlerOffsets(index, c.handlers)
     IN  \A k \in DOMAIN c.tries :
           c.tries[k].handler_off \in DOMAIN offsets /\ offsets[c.tries[k].handler_off] # 0
  /\ c.debug # Nothing => Written(at, "debug", owner)

-----------------------------------------------------------------------------
(* Classes *)

Delta(index, kind, members, k) ==
  index[kind][members[k].decl] - (IF k = 1 THEN 0 ELSE index[kind][members[k - 1].decl])

WriteEncodedFields(index, members) ==
  [k \in DOMAIN members |-> [delta |-> WriteULeb128(Delta(index, "field", members, k)),
                             flags |-> WriteULeb128(members[k].flags)]]

CodeOffset(at, owner, m) == IF m.code = Nothing THEN 0 ELSE at["code"][owner]

WriteEncodedMethods(index, at, class, part, members) ==
  [k \in DOMAIN members |->
     [delta |-> WriteULeb128(Delta(index, "method", members, k)),
      flags |-> WriteULeb128(members[k].flags),
      code  |-> WriteULeb128(CodeOffset(at, <<class, part, k>>, members[k]))]]

FieldParts == {"static_fields", "instance_fields"}
MethodParts == {"direct_methods", "virtual_methods"}

WriteClassData(index, at, c, class) ==
  [part \in FieldParts |-> WriteEncodedFields(index, class[part])]
    @@ [part \in MethodParts |-> WriteEncodedMethods(index, at, c, part, class[part])]

MemberSize(m) == Len(m.delta) + Len(m.flags) + (IF "code" \in DOMAIN m THEN Len(m.code) ELSE 0)
ClassDataSize(item) ==
  MapThenSumSet(LAMBDA part : Len(WriteULeb128(Len(item[part])))
                                + Total([k \in DOMAIN item[part] |-> MemberSize(item[part][k])]),
                FieldParts \cup MethodParts)

\* Every index is greater than the one before it, every code item is written.
MembersOK(index, at, c, class) ==
  /\ \A part \in FieldParts : \A k \in 2..Len(class[part]) : Delta(index, "field", class[part], k) > 0
  /\ \A part \in MethodParts :
       /\ \A k \in 2..Len(class[part]) : Delta(index, "method", class[part], k) > 0
       /\ \A k \in DOMAIN class[part] :
            class[part][k].code # Nothing => Written(at, "code", <<c, part, k>>)

-----------------------------------------------------------------------------
(* Annotations *)

WriteMemberAnnotations(index, at, kind, items) ==
  [k \in DOMAIN items |-> [index  |-> index[kind][items[k].decl],
                           offset |-> FilePointer(at, "set", items[k].annotations)]]

WriteClassAnnotations(index, at, key, d) ==
  [ class   |-> FilePointer(at, "set", d.class),
    fields  |-> WriteMemberAnnotations(index, at, "field", d.fields),
    methods |-> WriteMemberAnnotations(index, at, "method", d.methods),
    params  |-> [k \in DOMAIN d.params |-> [index  |-> index["method"][d.params[k].decl],
                                            offset |-> at["refs"][<<key, k>>]]] ]

-----------------------------------------------------------------------------
(* Items and sections *)

MethodAt(ir, owner) == ir.nodes[<<"class", owner[1]>>][owner[2]][owner[3]]

WriteItem(ir, index, at, node) ==
  LET kind == node[1]
      key == node[2]
  IN  CASE kind = "string"   -> [text |-> ir.nodes[node]]
        [] kind = "typeList" -> [types |-> [k \in DOMAIN ir.nodes[node] |->
                                              AsU2(index["type"][ir.nodes[node][k]])]]
        [] kind = "debug"    -> WriteDebugInfo(index, MethodAt(ir, key).code[1].debug[1])
        [] kind = "array"    -> WriteEncodedArray(index, ir.nodes[node])
        [] kind = "code"     -> WriteCode(index, at, key, MethodAt(ir, key).code[1])
        [] kind = "classData" -> WriteClassData(index, at, key, ir.nodes[<<"class", key>>])
        [] kind = "annotation" -> [visibility |-> ir.nodes[node].visibility]
                                    @@ WriteAnnotation(index, ir.nodes[node])
        [] kind = "set"      -> [entries |-> [k \in DOMAIN ir.nodes[node] |->
                                                FilePointer(at, "annotation", ir.nodes[node][k])]]
        [] kind = "refs"     -> LET sets == ir.nodes[<<"directory", key[1]>>].params[key[2]].annotations
                                IN  [list |-> [k \in DOMAIN sets |-> FilePointer(at, "set", sets[k])]]
        [] kind = "directory" -> WriteClassAnnotations(index, at, key, ir.nodes[node])

ItemOK(ir, index, at, node) ==
  LET kind == node[1]
      key == node[2]
  IN  CASE kind = "debug" -> DebugInfoOK(index, MethodAt(ir, key).code[1].debug[1])
        [] kind = "code"  -> CodeOK(index, at, key, MethodAt(ir, key).code[1])
        [] kind = "classData" -> MembersOK(index, at, key, ir.nodes[<<"class", key>>])
        [] kind = "set"   -> \A k \in DOMAIN ir.nodes[node] :
                               FilePointerOK(at, "annotation", ir.nodes[node][k])
        [] OTHER -> TRUE

\* An empty type list and a class without members are not written.
Skipped(ir, node) ==
  \/ node[1] = "typeList" /\ ir.nodes[node] = <<>>
  \/ node[1] = "classData" /\ \A part \in FieldParts \cup MethodParts :
                                ir.nodes[<<"class", node[2]>>][part] = <<>>

\* A mutant: code items follow each other without padding.
AlignedItemsWithoutCode == {"typeList", "set", "refs", "directory"}

AlignedItems == {"typeList", "code", "set", "refs", "directory"}

\* A string: its length, the characters and a zero.
ItemSize(kind, item) ==
  CASE kind = "string"     -> Len(WriteULeb128(Len(item.text))) + Len(item.text) + 1
    [] kind = "typeList"   -> 4 + 2 * Len(item.types)
    [] kind = "debug"      -> DebugInfoSize(item)
    [] kind = "array"      -> ArraySize(item.values)
    [] kind = "code"       -> CodeSize(item)
    [] kind = "classData"  -> ClassDataSize(item)
    [] kind = "annotation" -> 1 + AnnotationSize(item)
    [] kind = "set"        -> 4 + 4 * Len(item.entries)
    [] kind = "refs"       -> 4 + 4 * Len(item.list)
    [] kind = "directory"  -> 16 + 8 * (Len(item.fields) + Len(item.methods) + Len(item.params))

\* The sections of the data area, in the order CreateImage creates them.
DataSections == <<"string", "typeList", "debug", "array", "code", "classData", "annotation", "set",
                  "refs", "directory">>

ByIndex(index, kind) ==
  [i \in 1..Cardinality(DOMAIN index[kind]) |->
     CHOOSE k \in DOMAIN index[kind] : index[kind][k] = i - 1]

\* The methods with code.
CodeOwners(ir) ==
  LET Of(c, part) == [k \in DOMAIN ir.nodes[<<"class", c>>][part] |-> <<c, part, k>>]
  IN  SelectSeq(FlattenSeq([k \in DOMAIN ir.order |->
                              Of(ir.order[k], "direct_methods") \o Of(ir.order[k], "virtual_methods")]),
                LAMBDA owner : MethodAt(ir, owner).code # Nothing)

\* What the classes refer to, each thing once, in the order of the classes.
OfClasses(ir, part) ==
  LET all == [k \in DOMAIN ir.order |-> ir.nodes[<<"class", ir.order[k]>>][part]]
  IN  FoldLeft(LAMBDA seq, key : IF key = NoIndex \/ key \in ToSet(seq) THEN seq ELSE Append(seq, key),
               <<>>, all)

\* The nodes of a section, in the order they are written.
SectionKeys(ir, index, section) ==
  CASE section = "string"    -> ByIndex(index, "string")
    [] section = "debug"     -> SelectSeq(CodeOwners(ir),
                                          LAMBDA o : MethodAt(ir, o).code[1].debug # Nothing)
    [] section = "array"     -> OfClasses(ir, "static_init")
    [] section = "code"      -> CodeOwners(ir)
    [] section = "classData" -> ir.order
    [] section = "refs"      ->
         FlattenSeq([k \in 1..Cardinality(Keys(ir, "directory")) |->
                       LET d == InOrder(Keys(ir, "directory"))[k]
                       IN  [j \in DOMAIN ir.nodes[<<"directory", d>>].params |-> <<d, j>>]])
    [] section = "directory" -> OfClasses(ir, "annotations")
    [] OTHER                 -> InOrder(Keys(ir, section))

\* A mutant: an item that is not written is counted.
AddItemAlways(ir, index, w, node) ==
  LET item == WriteItem(ir, index, w.at, node)
      start == IF node[1] \in AlignedItems THEN Aligned(w.offset, 4) ELSE w.offset
      counted == [w EXCEPT !.sections[node[1]].count = @ + 1]
  IN  IF Skipped(ir, node) THEN [counted EXCEPT !.at[node[1]] = (node[2] :> 0) @@ @]
      ELSE [counted EXCEPT !.at[node[1]] = (node[2] :> start) @@ @,
                           !.data = (start :> item) @@ @,
                           !.offset = start + ItemSize(node[1], item)]

\* AddItem, the pushes of one WriteX, and node_offset_.
AddItem(ir, index, w, node) ==
  LET item == WriteItem(ir, index, w.at, node)
      start == IF node[1] \in AlignedItems THEN Aligned(w.offset, 4) ELSE w.offset
  IN  IF Skipped(ir, node) THEN [w EXCEPT !.at[node[1]] = (node[2] :> 0) @@ @]
      ELSE [w EXCEPT !.at[node[1]] = (node[2] :> start) @@ @,
                     !.data = (start :> item) @@ @,
                     !.sections[node[1]].count = @ + 1,
                     !.offset = start + ItemSize(node[1], item)]

\* A mutant: a section ends where its last item does.
CreateSectionUnsealed(ir, index, w, section) ==
  LET keys == SectionKeys(ir, index, section)
      open == [w EXCEPT !.at = (section :> <<>>) @@ @,
                        !.sections = (section :> [off |-> w.offset, count |-> 0, size |-> 0]) @@ @]
      full == FoldLeft(LAMBDA acc, key : AddItem(ir, index, acc, <<section, key>>), open, keys)
  IN  [full EXCEPT !.sections[section].size = full.offset - w.offset]

\* CreateXSection: SetOffset, the items, Seal(4).
CreateSection(ir, index, w, section) ==
  LET keys == SectionKeys(ir, index, section)
      open == [w EXCEPT !.at = (section :> <<>>) @@ @,
                        !.sections = (section :> [off |-> w.offset, count |-> 0, size |-> 0]) @@ @]
      full == FoldLeft(LAMBDA acc, key : AddItem(ir, index, acc, <<section, key>>), open, keys)
      end == Aligned(full.offset, 4)
  IN  [full EXCEPT !.offset = end, !.sections[section].size = end - w.offset]

SectionOK(ir, index, w, section) ==
  LET keys == SectionKeys(ir, index, section)
  IN  \A k \in DOMAIN keys : ItemOK(ir, index, w.at, <<section, keys[k]>>)

-----------------------------------------------------------------------------
(* The image *)

IndexSections == <<"string_ids", "type_ids", "proto_ids", "field_ids", "method_ids", "class_defs">>
KindOf == ("string_ids" :> "string") @@ ("type_ids" :> "type") @@ ("proto_ids" :> "proto")
            @@ ("field_ids" :> "field") @@ ("method_ids" :> "method") @@ ("class_defs" :> "class")
EntrySize == ("string" :> 4) @@ ("type" :> 4) @@ ("proto" :> 12) @@ ("field" :> 8)
               @@ ("method" :> 8) @@ ("class" :> 32)

\* The index sections follow the header; they are filled in at the end.
InitIndex(index, w, section) ==
  LET n == Cardinality(DOMAIN index[KindOf[section]])
      size == n * EntrySize[KindOf[section]]
  IN  [w EXCEPT !.sections = (section :> [off |-> w.offset, count |-> n, size |-> size]) @@ @,
                !.offset = @ + size]

NewWriter == [offset |-> HeaderSize, at |-> <<>>, data |-> <<>>, sections |-> <<>>]

SectionOffset(w, s) == IF w.sections[s].count > 0 THEN w.sections[s].off ELSE 0

\* A map entry for the header, for each section with items, and for the map.
MapItems(w) ==
  LET used == {s \in DOMAIN w.sections : w.sections[s].count > 0}
      entries == {[type |-> "header", size |-> 1, offset |-> 0]}
                   \cup {[type |-> s, size |-> w.sections[s].count, offset |-> w.sections[s].off] :
                           s \in used}
  IN  Sorted(entries, LAMBDA a, b : a.offset < b.offset)

CreateMapSection(w) ==
  LET open == [w EXCEPT !.sections = ("map" :> [off |-> w.offset, count |-> 1, size |-> 0]) @@ @]
      size == 4 + 12 * Len(MapItems(open))
  IN  [open EXCEPT !.offset = @ + size,
                   !.sections["map"].size = size,
                   !.data = (w.offset :> [map |-> MapItems(open)]) @@ @]
MapSectionOK(w) ==
  LET used == {s \in DOMAIN w.sections : w.sections[s].count > 0}
      At(s) == w.sections[s].off
  IN  \A s \in used : At(s) # w.offset /\ \A t \in used \ {s} : At(s) # At(t)

FillTypes(index, node) == index["string"][node]
FillProtos(index, at, p) ==
  [shorty |-> index["string"][p.shorty], return_type |-> index["type"][p.return_type],
   parameters |-> FilePointer(at, "typeList", p.param_types)]
FillFields(index, f) ==
  [parent |-> AsU2(index["type"][f.parent]), type |-> AsU2(index["type"][f.type]),
   name |-> index["string"][f.name]]
FillMethods(index, m) ==
  [parent |-> AsU2(index["type"][m.parent]), prototype |-> AsU2(index["proto"][m.prototype]),
   name |-> index["string"][m.name]]
FillClassDefs(index, at, c, class) ==
  [ type          |-> index["type"][class.type],
    access_flags  |-> class.flags,
    superclass    |-> OptIndex(index, "type", class.super_class),
    source_file   |-> OptIndex(index, "string", class.source_file),
    interfaces    |-> FilePointer(at, "typeList", class.interfaces),
    annotations   |-> FilePointer(at, "directory", class.annotations),
    class_data    |-> at["classData"][c],
    static_values |-> FilePointer(at, "array", class.static_init) ]

FillOK(ir, w) ==
  /\ \A p \in Keys(ir, "proto") :
       FilePointerOK(w.at, "typeList", ir.nodes[<<"proto", p>>].param_types)
  /\ \A c \in Keys(ir, "class") :
       FilePointerOK(w.at, "typeList", ir.nodes[<<"class", c>>].interfaces)

FillEntry(ir, index, w, kind, key) ==
  LET node == ir.nodes[<<kind, key>>]
  IN  CASE kind = "string" -> w.at["string"][key]
        [] kind = "type"   -> FillTypes(index, node)
        [] kind = "proto"  -> FillProtos(index, w.at, node)
        [] kind = "field"  -> FillFields(index, node)
        [] kind = "method" -> FillMethods(index, node)
        [] kind = "class"  -> FillClassDefs(index, w.at, key, node)

\* The rest of CreateImage: the index sections and the header.
CreateImage(ir, index, w) ==
  LET data_off == w.sections["string"].off
      map_off == SectionOffset(w, "map")
  IN  [ ids    |-> [kind \in IndexedKinds |->
                      [i \in 0..(Cardinality(DOMAIN index[kind]) - 1) |->
                         FillEntry(ir, index, w, kind, ByIndex(index, kind)[i + 1])]],
        data   |-> w.data,
        size   |-> w.offset,
        header |-> [ file_size |-> w.offset, header_size |-> HeaderSize,
                     map_off   |-> map_off, map |-> w.data[map_off].map,
                     data_size |-> w.offset - data_off, data_off |-> data_off,
                     ids_off   |-> [kind \in IndexedKinds |->
                                      SectionOffset(w, CHOOSE s \in DOMAIN KindOf : KindOf[s] = kind)] ] ]
=============================================================================
