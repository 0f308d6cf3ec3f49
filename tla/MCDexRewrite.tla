---------------------------- MODULE MCDexRewrite ----------------------------
(***************************************************************************)
(* Class files for DexRewrite.  A number is given in more bytes than it    *)
(* needs now and then, as the format allows; the indexes of the classes    *)
(* read leave gaps; the items a transform adds sort before what is there.  *)
(***************************************************************************)
EXTENDS DexRewrite

CONSTANT Sample   \* the names of the images of the run

\* A number in n bytes, of either sign.
Padded(v, n) ==
  [i \in 1..n |-> (((v % (Group ^ n)) \div (Group ^ (i - 1))) % Group)
                    + (IF i < n THEN Group ELSE 0)]
U(v) == IF v < Group THEN Padded(v, 1) ELSE Padded(v, 2)
Offset(v) == Padded(v, 4)

Table(seq) == [i \in 0..(Len(seq) - 1) |-> seq[i + 1]]
Place(seq, x) == (CHOOSE i \in DOMAIN seq : seq[i] = x) - 1

\* All the strings, in order.
Texts == << "<init>", "A.java", "I", "J", "LA;", "LB;", "LC;", "LHook;", "LI;", "LNote;", "LObj;",
            "LUnread;", "V", "VJL", "VL", "[LObj;", "arg", "count", "enter", "f", "m", "name",
            "run", "sig", "value", "zz" >>
MCRank == [t \in ToSet(Texts) |-> Place(Texts, t)]
MCShorty == (<<"V">> :> "V") @@ (<<"V", "J", "[LObj;">> :> "VJL") @@ (<<"V", "LObj;">> :> "VL")

MCCalls ==
  { [parent |-> "LHook;", name |-> "enter", ret |-> "V", params |-> <<"J", "[LObj;">>],
    [parent |-> "LObj;", name |-> "<init>", ret |-> "V", params |-> <<>>] }
MCCheckedTypes == {"LC;"}
MCFieldUses == {[parent |-> "LObj;", type |-> "I", name |-> "f"]}

StringsAt == 512
Image(strings, types, protos, fields, methods, classes, data) ==
  LET map == <<[type |-> "header", size |-> 1, offset |-> 0]>>
  IN  [ ids |-> ("string" :> [i \in 0..(Len(strings) - 1) |-> StringsAt + 16 * i])
                  @@ ("type" :> Table([k \in DOMAIN types |-> Place(strings, types[k])]))
                  @@ ("proto" :> Table(protos)) @@ ("field" :> Table(fields))
                  @@ ("method" :> Table(methods)) @@ ("class" :> Table(classes)),
        data |-> data @@ [o \in {StringsAt + 16 * i : i \in 0..(Len(strings) - 1)} |->
                            [text |-> strings[(o - StringsAt) \div 16 + 1]]],
        size |-> 4000,
        header |-> [ file_size |-> 3996, header_size |-> HeaderSize, data_size |-> 3484,
                     data_off |-> StringsAt, map_off |-> 3900, map |-> map,
                     ids_off |-> [kind \in IndexedKinds |-> HeaderSize] ] ]

NoClass == [ access_flags |-> 1, superclass |-> NoIndex, source_file |-> NoIndex, interfaces |-> 0,
             annotations |-> 0, class_data |-> 0, static_values |-> 0 ]
NoData == [static_fields |-> <<>>, instance_fields |-> <<>>, direct_methods |-> <<>>,
           virtual_methods |-> <<>>]

-----------------------------------------------------------------------------
(* One class with everything, one that is never hooked *)

StringsA == << "<init>", "A.java", "I", "LA;", "LI;", "LNote;", "LObj;", "LUnread;", "V", "VL", "arg",
               "count", "f", "m", "name", "run", "sig", "value", "zz" >>
TypesA == << "I", "LA;", "LI;", "LNote;", "LObj;", "LUnread;", "V" >>
sa(text) == Place(StringsA, text)
ta(descriptor) == Place(TypesA, descriptor)
ProtosA == << [shorty |-> sa("V"), return_type |-> ta("V"), parameters |-> 0],
              [shorty |-> sa("VL"), return_type |-> ta("V"), parameters |-> 1024] >>
FieldsA == << [parent |-> ta("LA;"), type |-> ta("I"), name |-> sa("count")],
              [parent |-> ta("LA;"), type |-> ta("I"), name |-> sa("f")],
              [parent |-> ta("LA;"), type |-> ta("LObj;"), name |-> sa("name")],
              [parent |-> ta("LUnread;"), type |-> ta("I"), name |-> sa("count")] >>
MethodsA == << [parent |-> ta("LA;"), prototype |-> 0, name |-> sa("<init>")],
               [parent |-> ta("LA;"), prototype |-> 0, name |-> sa("m")],
               [parent |-> ta("LA;"), prototype |-> 1, name |-> sa("run")],
               [parent |-> ta("LObj;"), prototype |-> 0, name |-> sa("<init>")],
               [parent |-> ta("LUnread;"), prototype |-> 0, name |-> sa("zz")] >>
ClassesA == << [NoClass EXCEPT !.superclass = ta("LObj;"), !.source_file = sa("A.java"),
                               !.interfaces = 1032, !.annotations = 1500, !.class_data = 1400,
                               !.static_values = 1200] @@ [type |-> ta("LA;")],
               [NoClass EXCEPT !.class_data = 1450] @@ [type |-> ta("LUnread;")] >>

NestedNote == [type |-> U(ta("LNote;")),
               elements |-> << [name |-> U(sa("value")), value |-> [type |-> "boolean", arg |-> 1]] >>]
NoteElements ==
  << [name |-> U(sa("name")), value |-> [type |-> "annotation", annotation |-> NestedNote]],
     [name |-> U(sa("value")),
      value |-> [type |-> "array",
                 values |-> << [type |-> "enum", bytes |-> <<2>>], [type |-> "type", bytes |-> <<1>>],
                               [type |-> "string", bytes |-> <<0, 1>>],
                               [type |-> "method", bytes |-> <<3>>] >>]] >>

RunCode ==
  [ registers |-> 3, debug_info |-> 1160,
    insns |-> << [format |-> "21c", kind |-> "string", index |-> sa("zz")],
                 [format |-> "21c", kind |-> "field", index |-> 0],
                 [format |-> "22c", kind |-> "type", index |-> ta("LI;")],
                 [format |-> "31c", kind |-> "string", index |-> sa("arg")],
                 [format |-> "payload", kind |-> "none", units |-> 8],
                 [format |-> "11x", kind |-> "none"] >>,
    tries |-> << [start |-> 0, count |-> 2, handler_off |-> 7],
                 [start |-> 4, count |-> 5, handler_off |-> 2] >>,
    handlers |-> (2 :> [catches |-> << [type |-> Padded(ta("LNote;"), 2), addr |-> U(9)] >>,
                        catchAll |-> <<>>])
                   @@ (7 :> [catches |-> << [type |-> U(ta("LObj;")), addr |-> U(7)] >>,
                             catchAll |-> <<U(11)>>]) ]

RunDebug ==
  [ line_start |-> Padded(9, 2), parameters |-> << U(sa("arg") + 1), U(0) >>,
    ops |-> << [op |-> "ADVANCE_PC", arg |-> U(20)],
               [op |-> "START_LOCAL", arg |-> U(1), name |-> U(sa("name") + 1), type |-> U(ta("LA;") + 1)],
               [op |-> "ADVANCE_LINE", arg |-> Padded(-5, 2)],
               [op |-> "START_LOCAL_EXTENDED", arg |-> U(2), name |-> U(sa("arg") + 1), type |-> U(0),
                signature |-> U(sa("sig") + 1)],
               [op |-> "END_LOCAL", arg |-> U(1)], [op |-> "SET_FILE", name |-> U(sa("A.java") + 1)],
               [op |-> "RESTART_LOCAL", arg |-> U(1)], [op |-> "special"] >> ]

DataA ==
  (1024 :> [types |-> <<ta("LObj;")>>]) @@ (1032 :> [types |-> <<ta("LI;")>>])
  @@ (1160 :> RunDebug)
  @@ (1150 :> [line_start |-> U(3), parameters |-> <<>>, ops |-> << [op |-> "special"] >>])
  @@ (1200 :> [values |-> << [type |-> "int", bytes |-> <<12, 15>>], [type |-> "string", bytes |-> <<1, 1>>] >>])
  @@ (1300 :> [registers |-> 1, debug_info |-> 1150, tries |-> <<>>, handlers |-> <<>>,
               insns |-> << [format |-> "35c", kind |-> "method", index |-> 3],
                            [format |-> "10x", kind |-> "none"] >>])
  @@ (1340 :> RunCode)
  @@ (1400 :> [ static_fields |-> << [delta |-> U(0), flags |-> U(8)], [delta |-> U(2), flags |-> U(8)] >>,
                instance_fields |-> << [delta |-> U(1), flags |-> U(1)] >>,
                direct_methods |-> << [delta |-> U(0), flags |-> U(1), code |-> Offset(1300)],
                                      [delta |-> U(1), flags |-> U(2), code |-> Offset(1300)] >>,
                virtual_methods |-> << [delta |-> U(2), flags |-> U(1), code |-> Offset(1340)] >> ])
  @@ (1450 :> [NoData EXCEPT !.direct_methods = << [delta |-> U(4), flags |-> U(9), code |-> U(0)] >>,
                             !.static_fields = << [delta |-> U(3), flags |-> U(8)] >>])
  @@ (1500 :> [ class |-> 1600, fields |-> << [index |-> 0, offset |-> 1604] >>,
                methods |-> << [index |-> 1, offset |-> 1604], [index |-> 2, offset |-> 1600] >>,
                params |-> << [index |-> 2, offset |-> 1620] >> ])
  @@ (1600 :> [entries |-> <<1700, 1750>>]) @@ (1604 :> [entries |-> <<1750>>])
  @@ (1612 :> [entries |-> <<>>])
  @@ (1620 :> [list |-> <<1604, 1612>>])
  @@ (1700 :> [visibility |-> "build", type |-> U(ta("LI;")), elements |-> <<>>])
  @@ (1750 :> [visibility |-> "runtime", type |-> U(ta("LNote;")), elements |-> NoteElements])

ImageA == Image(StringsA, TypesA, ProtosA, FieldsA, MethodsA, ClassesA, DataA)

-----------------------------------------------------------------------------
(* A class, what it extends and what it implements, sharing what they can *)

StringsB == << "I", "LB;", "LC;", "LI;", "LObj;", "V", "m" >>
TypesB == << "I", "LB;", "LC;", "LI;", "LObj;", "V" >>
sb(text) == Place(StringsB, text)
tb(descriptor) == Place(TypesB, descriptor)
ProtosB == << [shorty |-> sb("V"), return_type |-> tb("V"), parameters |-> 0] >>
MethodsB == << [parent |-> tb("LB;"), prototype |-> 0, name |-> sb("m")],
               [parent |-> tb("LI;"), prototype |-> 0, name |-> sb("m")] >>
FieldsB == << [parent |-> tb("LB;"), type |-> tb("I"), name |-> sb("m")],
              [parent |-> tb("LC;"), type |-> tb("I"), name |-> sb("m")] >>
ClassesB == << [NoClass EXCEPT !.superclass = tb("LObj;")] @@ [type |-> tb("LI;")],
               [NoClass EXCEPT !.superclass = tb("LObj;"), !.interfaces = 1024, !.annotations = 1500,
                               !.class_data = 1440, !.static_values = 1200] @@ [type |-> tb("LC;")],
               [NoClass EXCEPT !.superclass = tb("LC;"), !.interfaces = 1024, !.annotations = 1500,
                               !.class_data = 1420, !.static_values = 1200] @@ [type |-> tb("LB;")] >>
DataB ==
  (1024 :> [types |-> <<tb("LI;")>>])
  @@ (1300 :> [registers |-> 2, debug_info |-> 0, tries |-> <<>>, handlers |-> <<>>,
               insns |-> << [format |-> "3rc", kind |-> "method", index |-> 1] >>])
  @@ (1420 :> [NoData EXCEPT !.virtual_methods = << [delta |-> U(0), flags |-> U(1), code |-> Offset(1300)] >>,
                             !.static_fields = << [delta |-> U(0), flags |-> U(8)] >>])
  @@ (1440 :> [NoData EXCEPT !.static_fields = << [delta |-> U(1), flags |-> U(8)] >>])
  @@ (1200 :> [values |-> << [type |-> "char", bytes |-> <<9, 13>>] >>])
  @@ (1500 :> [class |-> 1600, fields |-> <<>>, methods |-> <<>>, params |-> <<>>])
  @@ (1600 :> [entries |-> <<1700>>])
  @@ (1700 :> [visibility |-> "runtime", type |-> U(tb("LI;")), elements |-> <<>>])

ImageB == Image(StringsB, TypesB, ProtosB, FieldsB, MethodsB, ClassesB, DataB)

-----------------------------------------------------------------------------
(* As the first, but the first parameter of run has no annotations: its    *)
(* entry of the list is null (dex format: "the offset may be zero").       *)
ImageNull == [ImageA EXCEPT !.data[1620] = [list |-> <<0, 1604>>]]

MCImages == {[one |-> ImageA, family |-> ImageB, null |-> ImageNull][n] : n \in Sample}

\* A number comes back from either encoding: as the reader decodes it and as
\* the format says.
ASSUME Leb128Assumption ==
  /\ \A v \in 0..(U4 - 1) : ReadULeb128(WriteULeb128(v)) = v /\ Unsigned(WriteULeb128(v)) = v
  /\ \A v \in (-(U4 \div 2))..((U4 \div 2) - 1) :
       ReadSLeb128(WriteSLeb128(v)) = v /\ SignedValue(WriteSLeb128(v)) = v
ASSUME IntValueAssumption ==
  /\ \A type \in {"byte", "short"} :
       \A v \in {v \in (-128)..127 : FitsSigned(v, Byte, Widths(type))} :
         ParseIntValue(type, WriteIntValue(type, v)) = v
  /\ \A v \in 0..255 : ParseIntValue("char", WriteIntValue("char", v)) = v

\* The images are ones the reader accepts.
ASSUME SampleAssumption == \A image \in MCImages : ReaderAccepts(image)
=============================================================================
