----------------------------- MODULE DexReader -----------------------------
(***************************************************************************)
(* dex::Reader (reader.cc): from an image to the nodes of the IR.          *)
(*                                                                         *)
(* A node is named <<kind, key>>: an indexed node by its original index,   *)
(* as the reader's maps do, and a type list, encoded array, annotation,    *)
(* annotation set or directory by its file offset, which is how the reader *)
(* finds the node again when several others share it.  Code, debug info    *)
(* and lists of parameter annotations are allocated for each use, so their *)
(* content lies inside the node that owns it.  A reference is the key of   *)
(* the node it points to, NoIndex for a null pointer.                      *)
(*                                                                         *)
(* Parse is what ParseX or ExtractX makes of one item; Mentions is the set *)
(* of nodes it gets while doing so (GetX), and ReadClosure goes on until   *)
(* nothing more is mentioned.  The code does this depth first; the result  *)
(* does not depend on the order.                                           *)
(***************************************************************************)
EXTENDS DexImage

Pointer(offset) == IF offset = 0 THEN NoIndex ELSE offset

-----------------------------------------------------------------------------
(* Encoded values *)

RECURSIVE ParseEncodedValue(_), ParseAnnotation(_)
ParseEncodedValue(v) ==
  CASE v.type \in {"null", "boolean"} -> [type |-> v.type, arg |-> v.arg]
    [] v.type = "array" ->
         [type |-> v.type, values |-> [k \in DOMAIN v.values |-> ParseEncodedValue(v.values[k])]]
    [] v.type = "annotation" -> [type |-> v.type, annotation |-> ParseAnnotation(v.annotation)]
    [] v.type \in {"float", "double"} ->
         [type |-> v.type, value |-> ParseFloatValue(v.type, v.bytes)]
    [] OTHER -> [type |-> v.type, value |-> ParseIntValue(v.type, v.bytes)]

ParseAnnotation(a) ==
  [ type     |-> ReadULeb128(a.type),
    elements |-> [k \in DOMAIN a.elements |->
                    [name  |-> ReadULeb128(a.elements[k].name),
                     value |-> ParseEncodedValue(a.elements[k].value)]] ]

\* The nodes that reading a value or an annotation gets.
RECURSIVE ValueMentions(_), AnnotationMentions(_)
ValueMentions(v) ==
  CASE v.type = "array" -> UNION {ValueMentions(v.values[k]) : k \in DOMAIN v.values}
    [] v.type = "annotation" -> AnnotationMentions(v.annotation)
    [] v.type \in {"string", "type", "field", "method"} -> {<<v.type, v.value>>}
    [] v.type = "enum" -> {<<"field", v.value>>}
    [] OTHER -> {}

AnnotationMentions(a) ==
  {<<"type", a.type>>}
    \cup {<<"string", a.elements[k].name>> : k \in DOMAIN a.elements}
    \cup UNION {ValueMentions(a.elements[k].value) : k \in DOMAIN a.elements}

-----------------------------------------------------------------------------
(* Code *)

\* A mutant: what const-string, sget and their like name is not read.
IndexFormatsWithout21c == {"20bc", "31c", "35c", "3rc", "22c"}

\* Only these formats hold an index where the reader and the writer look for it.
IndexFormats == {"20bc", "21c", "31c", "35c", "3rc", "22c"}
RelocatedKinds == {"string", "type", "field", "method"}

\* The nodes an instruction refers to.
ParseInstruction(insn) ==
  IF insn.format \in IndexFormats /\ insn.kind \in RelocatedKinds
  THEN {<<insn.kind, insn.index>>} ELSE {}

ParseInstructions(insns) == UNION {ParseInstruction(insns[k]) : k \in DOMAIN insns}

\* An index plus one of the debug stream.
DebugIndex(b) == (ReadULeb128(b) - 1) % U4
DebugMention(kind, b) == {<<kind, DebugIndex(b)>>} \ {<<kind, NoIndex>>}

DebugOpMentions(op) ==
  CASE op.op = "START_LOCAL" -> DebugMention("string", op.name) \cup DebugMention("type", op.type)
    [] op.op = "START_LOCAL_EXTENDED" ->
         DebugMention("string", op.name) \cup DebugMention("type", op.type)
           \cup DebugMention("string", op.signature)
    [] op.op = "SET_FILE" -> DebugMention("string", op.name)
    [] OTHER -> {}

\* The opcodes stay as they are, "relocated" only by the writer.
ExtractDebugInfo(img, offset) ==
  IF offset = 0 THEN Nothing
  ELSE LET d == img.data[offset]
       IN  << [ line_start |-> ReadULeb128(d.line_start),
                parameters |-> [k \in DOMAIN d.parameters |-> DebugIndex(d.parameters[k])],
                ops        |-> d.ops ] >>

DebugInfoMentions(debug) ==
  UNION { {<<"string", d.parameters[k]>> : k \in {k \in DOMAIN d.parameters : d.parameters[k] # NoIndex}}
            \cup UNION {DebugOpMentions(d.ops[k]) : k \in DOMAIN d.ops} : d \in ToSet(debug) }

HandlerMentions(code) ==
  UNION { {<<"type", ReadULeb128(h.catches[k].type)>> : k \in DOMAIN h.catches} :
            h \in {code.handlers[o] : o \in DOMAIN code.handlers} }

ExtractCode(img, offset) ==
  IF offset = 0 THEN Nothing
  ELSE LET c == img.data[offset]
       IN  << [ registers |-> c.registers, insns |-> c.insns, tries |-> c.tries,
                handlers  |-> c.handlers, debug |-> ExtractDebugInfo(img, c.debug_info) ] >>

CodeMentions(code) ==
  UNION { ParseInstructions(c.insns) \cup HandlerMentions(c) \cup DebugInfoMentions(c.debug) :
            c \in ToSet(code) }

-----------------------------------------------------------------------------
(* Classes *)

\* Every difference after the first is added to the index before it.
DeltaSum(members, k) ==
  FoldLeft(LAMBDA base, m : IF base = NoIndex THEN ReadULeb128(m.delta)
                            ELSE (base + ReadULeb128(m.delta)) % U4,
           NoIndex, SubSeq(members, 1, k))

ParseEncodedFields(img, members) ==
  [k \in DOMAIN members |->
     [decl |-> DeltaSum(members, k), flags |-> ReadULeb128(members[k].flags)]]

ParseEncodedMethods(img, members) ==
  [k \in DOMAIN members |->
     [decl |-> DeltaSum(members, k), flags |-> ReadULeb128(members[k].flags),
      code |-> ExtractCode(img, ReadULeb128(members[k].code))]]

ParseClass(img, c) ==
  LET def == img.ids["class"][c]
      Part(p) == IF def.class_data = 0 THEN <<>> ELSE img.data[def.class_data][p]
  IN  [ type        |-> def.type,
        flags       |-> def.access_flags,
        interfaces  |-> Pointer(def.interfaces),
        super_class |-> def.superclass,
        source_file |-> def.source_file,
        static_fields   |-> ParseEncodedFields(img, Part("static_fields")),
        instance_fields |-> ParseEncodedFields(img, Part("instance_fields")),
        direct_methods  |-> ParseEncodedMethods(img, Part("direct_methods")),
        virtual_methods |-> ParseEncodedMethods(img, Part("virtual_methods")),
        static_init |-> Pointer(def.static_values),
        annotations |-> Pointer(def.annotations) ]

Opt(kind, key) == {<<kind, key>>} \ {<<kind, NoIndex>>}

ClassMentions(c) ==
  {<<"type", c.type>>} \cup Opt("typeList", c.interfaces) \cup Opt("type", c.super_class)
    \cup Opt("string", c.source_file) \cup Opt("array", c.static_init)
    \cup Opt("directory", c.annotations)
    \cup {<<"field", f.decl>> : f \in ToSet(c.static_fields) \cup ToSet(c.instance_fields)}
    \cup UNION { {<<"method", m.decl>>} \cup CodeMentions(m.code) :
                   m \in ToSet(c.direct_methods) \cup ToSet(c.virtual_methods) }

-----------------------------------------------------------------------------
(* Annotations *)

\* Entries that are null are left out of the list.
ExtractAnnotationSetRefList(img, offset) ==
  SelectSeq(img.data[offset].list, LAMBDA o : o # 0)

ParseMemberAnnotations(items) ==
  [k \in DOMAIN items |-> [decl |-> items[k].index, annotations |-> items[k].offset]]

ExtractAnnotations(img, offset) ==
  LET d == img.data[offset]
  IN  [ class   |-> Pointer(d.class),
        fields  |-> ParseMemberAnnotations(d.fields),
        methods |-> ParseMemberAnnotations(d.methods),
        params  |-> [k \in DOMAIN d.params |->
                       [decl |-> d.params[k].index,
                        annotations |-> ExtractAnnotationSetRefList(img, d.params[k].offset)]] ]

DirectoryMentions(d) ==
  Opt("set", d.class)
    \cup UNION { {<<"field", a.decl>>, <<"set", a.annotations>>} : a \in ToSet(d.fields) }
    \cup UNION { {<<"method", a.decl>>, <<"set", a.annotations>>} : a \in ToSet(d.methods) }
    \cup UNION { {<<"method", a.decl>>} \cup {<<"set", s>> : s \in ToSet(a.annotations)} :
                   a \in ToSet(d.params) }

-----------------------------------------------------------------------------
(* The IR of an image *)

Parse(img, node) ==
  LET kind == node[1]
      key == node[2]
  IN  CASE kind = "string" -> Text(img, key)
        [] kind = "type"   -> img.ids[kind][key]
        [] kind = "proto"  ->
             LET p == img.ids[kind][key]
             IN  [shorty |-> p.shorty, return_type |-> p.return_type,
                  param_types |-> Pointer(p.parameters)]
        [] kind \in {"field", "method"} -> img.ids[kind][key]
        [] kind = "class"  -> ParseClass(img, key)
        [] kind = "typeList" -> img.data[key].types
        [] kind = "array"  -> [k \in DOMAIN img.data[key].values |->
                                 ParseEncodedValue(img.data[key].values[k])]
        [] kind = "annotation" -> [visibility |-> img.data[key].visibility]
                                    @@ ParseAnnotation(img.data[key])
        [] kind = "set"    -> img.data[key].entries
        [] kind = "directory" -> ExtractAnnotations(img, key)

Mentions(kind, node) ==
  CASE kind = "string" -> {}
    [] kind = "type"   -> {<<"string", node>>}
    [] kind = "proto"  -> {<<"string", node.shorty>>, <<"type", node.return_type>>}
                            \cup Opt("typeList", node.param_types)
    [] kind = "field"  -> {<<"string", node.name>>, <<"type", node.type>>, <<"type", node.parent>>}
    [] kind = "method" -> {<<"string", node.name>>, <<"proto", node.prototype>>, <<"type", node.parent>>}
    [] kind = "class"  -> ClassMentions(node)
    [] kind = "typeList" -> {<<"type", node[k]>> : k \in DOMAIN node}
    [] kind = "array"  -> UNION {ValueMentions(node[k]) : k \in DOMAIN node}
    [] kind = "annotation" -> AnnotationMentions(node)
    [] kind = "set"    -> {<<"annotation", node[k]>> : k \in DOMAIN node}
    [] kind = "directory" -> DirectoryMentions(node)

RECURSIVE ReadClosure(_, _, _)
ReadClosure(img, nodes, wanted) ==
  LET new == wanted \ DOMAIN nodes
      more == nodes @@ [n \in new |-> Parse(img, n)]
  IN  IF new = {} THEN nodes
      ELSE ReadClosure(img, more, UNION {Mentions(n[1], more[n]) : n \in new})

GetClass(img, nodes, c) == ReadClosure(img, nodes, {<<"class", c>>})

\* Reader::FindClassIndex: NoIndex when the image does not define the class.
FindClassIndex(img, descriptor) ==
  LET found == {c \in DOMAIN img.ids["class"] :
                  TypeName(img, img.ids["class"][c].type) = descriptor}
  IN  IF found = {} THEN NoIndex ELSE Min(found)

-----------------------------------------------------------------------------
(* What the reader insists on (SLICER_CHECK): the header, the alignment of *)
(* the items it reads by pointer, members in increasing order.             *)
HeaderSize == 112

ValidateHeader(img) ==
  LET h == img.header
  IN  /\ img.size > HeaderSize
      /\ h.file_size <= img.size
      /\ h.header_size = HeaderSize
      /\ h.data_size % 4 = 0 /\ h.data_off % 4 = 0
      /\ Cardinality(DOMAIN img.ids["type"]) < U2 /\ Cardinality(DOMAIN img.ids["proto"]) < U2
      /\ \A kind \in IndexedKinds : h.ids_off[kind] % 4 = 0
      /\ h.map_off >= h.data_off /\ h.map_off < img.size /\ h.map_off % 4 = 0
      /\ Len(h.map) > 0
      /\ h.map_off + 4 + 12 * Len(h.map) <= img.size

AlignedKinds == {"set", "directory"}

\* dataPtr: into the data section; what lies there is taken for one byte.
InData(img, offset) == offset >= img.header.data_off /\ offset < img.size

\* The pointers the reader follows to get a node, aligned where it checks.
PointerOK(img, node) ==
  LET key == node[2]
  IN  /\ node[1] = "string" => InData(img, img.ids["string"][key])
      /\ node[1] \notin IndexedKinds => InData(img, key)
      /\ node[1] \in AlignedKinds => key % 4 = 0
      /\ node[1] = "directory" =>
           \A k \in DOMAIN img.data[key].params :
             LET refs == img.data[key].params[k].offset
             IN  refs % 4 = 0 /\ InData(img, refs)

CodeOffsetsOK(img, members) ==
  \A k \in DOMAIN members :
    LET o == ReadULeb128(members[k].code)
    IN  o = 0 \/
        /\ o % 4 = 0 /\ InData(img, o)
        /\ img.data[o].debug_info = 0 \/ InData(img, img.data[o].debug_info)

DeltasOK(members) == \A k \in 2..Len(members) : ReadULeb128(members[k].delta) # 0

ClassDataOK(img, c) ==
  LET offset == img.ids["class"][c].class_data
  IN  offset = 0 \/
      /\ offset >= img.header.data_off
      /\ \A part \in {"static_fields", "instance_fields", "direct_methods", "virtual_methods"} :
           DeltasOK(img.data[offset][part])
      /\ CodeOffsetsOK(img, img.data[offset].direct_methods)
      /\ CodeOffsetsOK(img, img.data[offset].virtual_methods)

ReaderAccepts(img) ==
  /\ ValidateHeader(img)
  /\ \A c \in DOMAIN img.ids["class"] :
       /\ ClassDataOK(img, c)
       /\ \A n \in DOMAIN GetClass(img, <<>>, c) : PointerOK(img, n)
=============================================================================
