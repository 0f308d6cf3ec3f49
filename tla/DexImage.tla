------------------------------ MODULE DexImage ------------------------------
(***************************************************************************)
(* What a .dex image says.  An image is a record:                          *)
(*   ids     for each indexed kind its table, from index 0 on              *)
(*   data    the items of the data section, by their file offset           *)
(*   header  the header and the map                                        *)
(* The structures are those of slicer/dex_format.h; a LEB128 number is the *)
(* sequence of its bytes, an index an integer, a file pointer an offset    *)
(* with 0 for null.  The operators of this module say what a class of an   *)
(* image means once every index and offset is resolved, by names: they are *)
(* the reference the rewriting of an image is compared with, and use no    *)
(* operator of the reader or the writer.                                   *)
(***************************************************************************)
EXTENDS DexEncoding, SequencesExt, TLC

CONSTANT Rank   \* the place of each string in the order of dex::Utf8Cmp

IndexedKinds == {"string", "type", "proto", "field", "method", "class"}

Sorted(S, Less(_, _)) ==
  [i \in 1..Cardinality(S) |->
     CHOOSE x \in S : Cardinality({y \in S : Less(y, x)}) = i - 1]
InOrder(S) == Sorted(S, <)

\* The value of a LEB128 number, whatever its length.
Unsigned(b) ==
  MapThenSumSet(LAMBDA i : (b[i] % Group) * Pow(Group, i - 1), DOMAIN b)
SignedValue(b) ==
  IF 2 * (b[Len(b)] % Group) >= Group THEN Unsigned(b) - Pow(Group, Len(b)) ELSE Unsigned(b)
LittleEndian(b) == MapThenSumSet(LAMBDA i : b[i] * Pow(Byte, i - 1), DOMAIN b)

-----------------------------------------------------------------------------
(* Indexed items *)

Text(img, i) == img.data[img.ids["string"][i]].text

TypeName(img, i) == Text(img, img.ids["type"][i])

TypeNames(img, offset) ==
  IF offset = 0 THEN <<>>
  ELSE LET types == img.data[offset].types
       IN  [k \in DOMAIN types |-> TypeName(img, types[k])]

ProtoMeaning(img, i) ==
  LET p == img.ids["proto"][i]
  IN  <<Text(img, p.shorty), TypeName(img, p.return_type), TypeNames(img, p.parameters)>>

FieldMeaning(img, i) ==
  LET f == img.ids["field"][i]
  IN  <<TypeName(img, f.parent), Text(img, f.name), TypeName(img, f.type)>>

MethodMeaning(img, i) ==
  LET m == img.ids["method"][i]
  IN  <<TypeName(img, m.parent), Text(img, m.name), ProtoMeaning(img, m.prototype)>>

Meaning(img, kind, i) ==
  CASE kind = "string" -> <<Text(img, i)>>
    [] kind = "type"   -> <<TypeName(img, i)>>
    [] kind = "proto"  -> ProtoMeaning(img, i)
    [] kind = "field"  -> FieldMeaning(img, i)
    [] kind = "method" -> MethodMeaning(img, i)

Nothing == <<>>
OptMeaning(img, kind, i) == IF i = NoIndex THEN Nothing ELSE Meaning(img, kind, i)

-----------------------------------------------------------------------------
(* Encoded values and annotations *)

References == [t \in {"string", "type", "field", "method", "enum"} |->
                 IF t = "enum" THEN "field" ELSE t]

RECURSIVE ValueMeaning(_, _), AnnotationMeaning(_, _)
ValueMeaning(img, v) ==
  CASE v.type \in {"null", "boolean"} -> <<v.type, v.arg>>
    [] v.type = "array" ->
         <<v.type, [k \in DOMAIN v.values |-> ValueMeaning(img, v.values[k])]>>
    [] v.type = "annotation" -> <<v.type, AnnotationMeaning(img, v.annotation)>>
    [] v.type \in DOMAIN References ->
         <<v.type, Meaning(img, References[v.type], LittleEndian(v.bytes))>>
    [] v.type \in {"float", "double"} ->
         <<v.type, [k \in 1..(Widths(v.type) - Len(v.bytes)) |-> 0] \o v.bytes>>
    [] OTHER ->
         LET n == LittleEndian(v.bytes)
         IN  <<v.type, IF v.type \in Signed /\ 2 * n >= Pow(Byte, Len(v.bytes))
                       THEN n - Pow(Byte, Len(v.bytes)) ELSE n>>

AnnotationMeaning(img, a) ==
  <<TypeName(img, Unsigned(a.type)),
    { <<Text(img, Unsigned(a.elements[k].name)), ValueMeaning(img, a.elements[k].value)>> :
        k \in DOMAIN a.elements }>>

SetMeaning(img, offset) ==
  IF offset = 0 THEN {}
  ELSE { LET item == img.data[offset].entries[k]
         IN  <<img.data[item].visibility, AnnotationMeaning(img, img.data[item])>> :
           k \in DOMAIN img.data[offset].entries }

\* What each parameter of a method is annotated with: no annotation for a null entry.
RefListMeaning(img, offset) ==
  [k \in DOMAIN img.data[offset].list |-> SetMeaning(img, img.data[offset].list[k])]

DirectoryMeaning(img, offset) ==
  IF offset = 0 THEN Nothing
  ELSE LET d == img.data[offset]
       IN  << SetMeaning(img, d.class),
              { <<FieldMeaning(img, d.fields[k].index), SetMeaning(img, d.fields[k].offset)>> :
                  k \in DOMAIN d.fields },
              { <<MethodMeaning(img, d.methods[k].index), SetMeaning(img, d.methods[k].offset)>> :
                  k \in DOMAIN d.methods },
              { <<MethodMeaning(img, d.params[k].index), RefListMeaning(img, d.params[k].offset)>> :
                  k \in DOMAIN d.params } >>

-----------------------------------------------------------------------------
(* Code *)

\* An instruction: its format, the kind of thing its index names, the index.
InsnMeaning(img, insn) ==
  CASE insn.kind = "none" -> <<insn.format>>
    [] insn.kind = "methodAndProto" ->
         <<insn.format, MethodMeaning(img, insn.index), ProtoMeaning(img, insn.proto)>>
    [] OTHER -> <<insn.format, Meaning(img, insn.kind, insn.index)>>

\* A number of the debug stream that is an index plus one.
DebugMeaning(img, kind, b) == OptMeaning(img, kind, (Unsigned(b) - 1) % U4)

DebugOpMeaning(img, op) ==
  CASE op.op = "ADVANCE_LINE" -> <<op.op, SignedValue(op.arg)>>
    [] op.op \in {"ADVANCE_PC", "END_LOCAL", "RESTART_LOCAL"} -> <<op.op, Unsigned(op.arg)>>
    [] op.op = "START_LOCAL" ->
         <<op.op, Unsigned(op.arg), DebugMeaning(img, "string", op.name),
           DebugMeaning(img, "type", op.type)>>
    [] op.op = "START_LOCAL_EXTENDED" ->
         <<op.op, Unsigned(op.arg), DebugMeaning(img, "string", op.name),
           DebugMeaning(img, "type", op.type), DebugMeaning(img, "string", op.signature)>>
    [] op.op = "SET_FILE" -> <<op.op, DebugMeaning(img, "string", op.name)>>
    [] OTHER -> <<op.op>>

DebugInfoMeaning(img, offset) ==
  IF offset = 0 THEN Nothing
  ELSE LET d == img.data[offset]
       IN  << Unsigned(d.line_start),
              [k \in DOMAIN d.parameters |-> DebugMeaning(img, "string", d.parameters[k])],
              [k \in DOMAIN d.ops |-> DebugOpMeaning(img, d.ops[k])] >>

\* The handlers of a try block, found at its offset in the list of handlers.
TryMeaning(img, code, t) ==
  LET h == code.handlers[t.handler_off]
  IN  << t.start, t.count,
         [k \in DOMAIN h.catches |-> <<TypeName(img, Unsigned(h.catches[k].type)),
                                       Unsigned(h.catches[k].addr)>>],
         [k \in DOMAIN h.catchAll |-> Unsigned(h.catchAll[k])] >>

CodeMeaning(img, offset) ==
  IF offset = 0 THEN Nothing
  ELSE LET c == img.data[offset]
       IN  << c.registers,
              [k \in DOMAIN c.insns |-> InsnMeaning(img, c.insns[k])],
              [k \in DOMAIN c.tries |-> TryMeaning(img, c, c.tries[k])],
              DebugInfoMeaning(img, c.debug_info) >>

-----------------------------------------------------------------------------
(* Classes *)

\* The indexes of a list of encoded members, kept as differences.
MemberIndex(members, k) ==
  MapThenSumSet(LAMBDA j : Unsigned(members[j].delta), 1..k)

Members(img, offset, part) == IF offset = 0 THEN <<>> ELSE img.data[offset][part]

FieldsMeaning(img, members) ==
  [k \in DOMAIN members |->
     <<FieldMeaning(img, MemberIndex(members, k)), Unsigned(members[k].flags)>>]

MethodsMeaning(img, members) ==
  [k \in DOMAIN members |->
     <<MethodMeaning(img, MemberIndex(members, k)), Unsigned(members[k].flags),
       CodeMeaning(img, Unsigned(members[k].code))>>]

\* Static values belong to the static fields in the order of the class data.
StaticMeaning(img, def) ==
  IF def.static_values = 0 THEN Nothing
  ELSE LET fields == FieldsMeaning(img, Members(img, def.class_data, "static_fields"))
           values == img.data[def.static_values].values
       IN  [k \in DOMAIN values |-> <<fields[k], ValueMeaning(img, values[k])>>]

ClassMeaning(img, c) ==
  LET def == img.ids["class"][c]
  IN  [ type       |-> TypeName(img, def.type),
        flags      |-> def.access_flags,
        super      |-> OptMeaning(img, "type", def.superclass),
        interfaces |-> TypeNames(img, def.interfaces),
        source     |-> OptMeaning(img, "string", def.source_file),
        statics    |-> ToSet(StaticMeaning(img, def)),
        fields     |-> ToSet(FieldsMeaning(img, Members(img, def.class_data, "static_fields")))
                         \X {"static"}
                       \cup ToSet(FieldsMeaning(img, Members(img, def.class_data, "instance_fields")))
                         \X {"instance"},
        methods    |-> ToSet(MethodsMeaning(img, Members(img, def.class_data, "direct_methods")))
                         \X {"direct"}
                       \cup ToSet(MethodsMeaning(img, Members(img, def.class_data, "virtual_methods")))
                         \X {"virtual"},
        annotations |-> DirectoryMeaning(img, def.annotations) ]

ClassCalled(img, name) ==
  CHOOSE c \in DOMAIN img.ids["class"] : TypeName(img, img.ids["class"][c].type) = name
=============================================================================
