------------------------------- MODULE DexIr -------------------------------
(***************************************************************************)
(* ir::DexFile (slicer/dex_ir.h, dex_ir.cc) and ir::Builder                *)
(* (dex_ir_builder.cc).  The IR is a record:                               *)
(*   nodes    the nodes, named as in DexReader                             *)
(*   order    the classes in the order of the vector that owns them        *)
(*   indexes  for each indexed kind the tracker of the original indexes    *)
(*                                                                         *)
(* The transforms ask the builder for items; it returns the node that      *)
(* exists or makes a new one under an index the source image does not use. *)
(* Normalize gives every indexed node its place in the new image and sorts *)
(* what the .dex format wants sorted.                                      *)
(***************************************************************************)
EXTENDS DexReader, IndexMap

CONSTANT Shorty   \* the shorty of each sequence of descriptors, return type first

EmptyIr == [ nodes |-> <<>>, order |-> <<>>, indexes |-> [k \in IndexedKinds |-> EmptyMap] ]

Keys(ir, kind) == {n[2] : n \in {n \in DOMAIN ir.nodes : n[1] = kind}}

\* A mutant: the reader does not mark the indexes of types.
CreateClassIrUnmarked(img, ir, c) ==
  LET nodes == GetClass(img, ir.nodes, c)
      New(kind) == {n[2] : n \in {n \in DOMAIN nodes \ DOMAIN ir.nodes : n[1] = kind}}
  IN  [ nodes   |-> nodes,
        order   |-> IF New("class") = {} THEN ir.order ELSE Append(ir.order, c),
        indexes |-> [kind \in IndexedKinds |->
                       IF kind = "type" THEN ir.indexes[kind]
                       ELSE FoldSet(LAMBDA i, m : Marked(m, i), ir.indexes[kind], New(kind))] ]

\* Reader::CreateClassIr: a class that was read before is found in classes_map.
CreateClassIr(img, ir, c) ==
  LET nodes == GetClass(img, ir.nodes, c)
      New(kind) == {n[2] : n \in {n \in DOMAIN nodes \ DOMAIN ir.nodes : n[1] = kind}}
  IN  [ nodes   |-> nodes,
        order   |-> IF New("class") = {} THEN ir.order ELSE Append(ir.order, c),
        indexes |-> [kind \in IndexedKinds |->
                       FoldSet(LAMBDA i, m : Marked(m, i), ir.indexes[kind], New(kind))] ]

-----------------------------------------------------------------------------
(* The builder *)

Holding(ir, kind, content) == {k \in Keys(ir, kind) : ir.nodes[<<kind, k>>] = content}
KeyOf(ir, kind, content) == Min(Holding(ir, kind, content))

Alloc(ir, kind, content) ==
  LET i == FreeIndex(ir.indexes[kind])
  IN  [ir EXCEPT !.nodes = (<<kind, i>> :> content) @@ @,
                 !.indexes[kind] = Allocated(@)]

Get(ir, kind, content) ==
  IF Holding(ir, kind, content) # {} THEN ir ELSE Alloc(ir, kind, content)

GetAsciiString(ir, text) == Get(ir, "string", text)
StringKey(ir, text) == KeyOf(ir, "string", text)

GetType(ir, descriptor) ==
  LET a == GetAsciiString(ir, descriptor) IN Get(a, "type", StringKey(a, descriptor))
TypeKey(ir, descriptor) == KeyOf(ir, "type", StringKey(ir, descriptor))
TypeKeys(ir, ds) == [k \in DOMAIN ds |-> TypeKey(ir, ds[k])]

\* A type list is no indexed item: a new one is a pointer no other list has.
GetTypeList(ir, types) ==
  IF types = <<>> \/ Holding(ir, "typeList", types) # {} THEN ir
  ELSE LET new == CHOOSE k \in 1..(Cardinality(DOMAIN ir.nodes) + 1) : k \notin Keys(ir, "typeList")
       IN  [ir EXCEPT !.nodes = (<<"typeList", new>> :> types) @@ @]
TypeListKey(ir, types) == IF types = <<>> THEN NoIndex ELSE KeyOf(ir, "typeList", types)

ProtoNode(ir, ret, params) ==
  [ shorty      |-> StringKey(ir, Shorty[<<ret>> \o params]),
    return_type |-> TypeKey(ir, ret),
    param_types |-> TypeListKey(ir, TypeKeys(ir, params)) ]

GetProto(ir, ret, params) ==
  LET a == FoldLeft(GetType, GetType(ir, ret), params)
      b == GetTypeList(a, TypeKeys(a, params))
      c == GetAsciiString(b, Shorty[<<ret>> \o params])
  IN  Get(c, "proto", ProtoNode(c, ret, params))
ProtoKey(ir, ret, params) == KeyOf(ir, "proto", ProtoNode(ir, ret, params))

FieldNode(ir, f) ==
  [name |-> StringKey(ir, f.name), type |-> TypeKey(ir, f.type), parent |-> TypeKey(ir, f.parent)]

GetFieldDecl(ir, f) ==
  LET a == GetAsciiString(GetType(GetType(ir, f.parent), f.type), f.name)
  IN  Get(a, "field", FieldNode(a, f))

MethodNode(ir, m) ==
  [ name |-> StringKey(ir, m.name), prototype |-> ProtoKey(ir, m.ret, m.params),
    parent |-> TypeKey(ir, m.parent) ]

GetMethodDecl(ir, m) ==
  LET a == GetType(GetAsciiString(GetProto(ir, m.ret, m.params), m.name), m.parent)
  IN  Get(a, "method", MethodNode(a, m))

-----------------------------------------------------------------------------
(* Normalization *)

LexLess(s, t) ==
  \E i \in 1..Len(t) :
    /\ i <= Len(s) + 1
    /\ \A j \in 1..(i - 1) : s[j] = t[j]
    /\ i = Len(s) + 1 \/ s[i] < t[i]

\* std::sort by a key, then the new index of each item is its place.  Items
\* with equal keys, which a table of the format never has, keep some order.
IndexItems(ir, kind, SortKey(_)) ==
  LET keys == Keys(ir, kind)
      by == [k \in keys |-> SortKey(ir.nodes[<<kind, k>>])]
  IN  [k \in keys |->
         Cardinality({j \in keys : LexLess(by[j], by[k]) \/ (by[j] = by[k] /\ j < k)})]

\* DFS from a class: what it extends and implements comes before it.
RECURSIVE TopSortClassIndex(_, _, _)
TopSortClassIndex(ir, sorted, c) ==
  LET class == ir.nodes[<<"class", c>>]
      interfaces == IF class.interfaces = NoIndex THEN <<>>
                    ELSE ir.nodes[<<"typeList", class.interfaces>>]
      above == (IF class.super_class = NoIndex THEN <<>> ELSE <<class.super_class>>) \o interfaces
      Defs(t) == {d \in Keys(ir, "class") : ir.nodes[<<"class", d>>].type = t}
      Visit(acc, t) == IF Defs(t) = {} THEN acc ELSE TopSortClassIndex(ir, acc, Min(Defs(t)))
  IN  IF c \in ToSet(sorted) THEN sorted ELSE Append(FoldLeft(Visit, sorted, above), c)

\* A mutant: the classes stay in the order they were read.
SortClassIndexesAsRead(ir) == ir.order

SortClassIndexes(ir) ==
  FoldLeft(LAMBDA sorted, c : TopSortClassIndex(ir, sorted, c), <<>>, ir.order)

Index(ir) ==
  LET str == IndexItems(ir, "string", LAMBDA s : <<Rank[s]>>)
      typ == IndexItems(ir, "type", LAMBDA d : <<str[d]>>)
      Types(list) == IF list = NoIndex THEN <<>>
                     ELSE [k \in DOMAIN ir.nodes[<<"typeList", list>>] |->
                             typ[ir.nodes[<<"typeList", list>>][k]]]
      pro == IndexItems(ir, "proto", LAMBDA p : <<typ[p.return_type]>> \o Types(p.param_types))
      sorted == SortClassIndexes(ir)
  IN  ("string" :> str) @@ ("type" :> typ) @@ ("proto" :> pro)
        @@ ("field" :> IndexItems(ir, "field",
                         LAMBDA f : <<typ[f.parent], str[f.name], typ[f.type]>>))
        @@ ("method" :> IndexItems(ir, "method",
                          LAMBDA m : <<typ[m.parent], str[m.name], pro[m.prototype]>>))
        @@ ("class" :> [c \in ToSet(sorted) |-> CHOOSE i \in 0..(Len(sorted) - 1) : sorted[i + 1] = c])

ByDecl(index, kind, members) ==
  SortSeq(members, LAMBDA a, b : index[kind][a.decl] < index[kind][b.decl])

NormalizeClass(index, class) ==
  [class EXCEPT !.static_fields   = ByDecl(index, "field", @),
                !.instance_fields = ByDecl(index, "field", @),
                !.direct_methods  = ByDecl(index, "method", @),
                !.virtual_methods = ByDecl(index, "method", @)]

\* All annotations are sorted, those inside encoded values too.
RECURSIVE NormalizeValue(_, _), NormalizeAnnotation(_, _)
NormalizeValue(index, v) ==
  CASE v.type = "array" ->
         [v EXCEPT !.values = [k \in DOMAIN @ |-> NormalizeValue(index, @[k])]]
    [] v.type = "annotation" -> [v EXCEPT !.annotation = NormalizeAnnotation(index, @)]
    [] OTHER -> v

NormalizeAnnotation(index, a) ==
  LET elements == [k \in DOMAIN a.elements |->
                     [a.elements[k] EXCEPT !.value = NormalizeValue(index, @)]]
  IN  [a EXCEPT !.elements =
         SortSeq(elements, LAMBDA x, y : index["string"][x.name] < index["string"][y.name])]

NormalizeSet(ir, index, set) ==
  SortSeq(set, LAMBDA a, b : index["type"][ir.nodes[<<"annotation", a>>].type]
                               < index["type"][ir.nodes[<<"annotation", b>>].type])

NormalizeDirectory(index, d) ==
  [d EXCEPT !.fields  = ByDecl(index, "field", @),
            !.methods = ByDecl(index, "method", @),
            !.params  = ByDecl(index, "method", @)]

Normalize(ir, index) ==
  [ir EXCEPT
     !.order = [k \in DOMAIN @ |-> CHOOSE c \in ToSet(@) : index["class"][c] = k - 1],
     !.nodes = [n \in DOMAIN @ |->
                  CASE n[1] = "class" -> NormalizeClass(index, @[n])
                    [] n[1] = "array" -> [k \in DOMAIN @[n] |-> NormalizeValue(index, @[n][k])]
                    [] n[1] = "annotation" -> NormalizeAnnotation(index, @[n])
                    [] n[1] = "set" -> NormalizeSet(ir, index, @[n])
                    [] n[1] = "directory" -> NormalizeDirectory(index, @[n])
                    [] OTHER -> @[n]]]
=============================================================================
