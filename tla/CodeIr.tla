------------------------------- MODULE CodeIr -------------------------------
(***************************************************************************)
(* lir::CodeIr takes the code of one method apart into a list of           *)
(* instructions, transforms insert into the list, and the encoders put it  *)
(* together again: code units, try blocks and debug info.  In between      *)
(* everything that was an offset is a place in the list.                   *)
(*                                                                         *)
(* Offsets and sizes count 16 bit code units.  Registers and other         *)
(* operands, and with them the encoder's checks that they fit their bits,  *)
(* are left out (see Instrumentation); an instruction has a name, `id',    *)
(* that tells the method's own instructions from inserted ones (0), and is *)
(* not in the code.                                                        *)
(*                                                                         *)
(* A method is instrumented more than once when its class file goes        *)
(* through several environments (see JtikInit).                            *)
(***************************************************************************)
EXTENDS Integers, Sequences, SequencesExt, FiniteSetsExt

CONSTANTS
    Methods,      \* the methods considered
    Hooks,        \* what is inserted: its size, and the arguments it passes
    ShortRange,   \* a 16 bit branch reaches -ShortRange .. ShortRange - 1
    TryRange,     \* a try block is shorter than TryRange
    MaxHooks,     \* bound on insertions in one round
    Rounds        \* bound on how often a method is instrumented

ASSUME RangeAssumption == ShortRange \in Nat \ {0} /\ TryRange \in Nat \ {0}

VARIABLES
    method,   \* the method as it was loaded
    image,    \* ir::Code: insns, outs_count, tries, debug
    list,     \* CodeIr::instructions
    status,   \* "image", "list", "aborted": by a SLICER_CHECK
    round

vars == << method, image, list, status, round >>

\* The class's source_file.
SourceFile == 0

NoDebug == << >>

\* Offsets are unsigned, of 32 bits; any range past the code will do.
U4Range == 2 ^ 30

\* Where the instructions of a sequence start, and where it ends.
Offsets(s) ==
    LET at[i \in 1..(Len(s) + 1)] == IF i = 1 THEN 0 ELSE at[i - 1] + s[i - 1].size
    IN  at

Size(s) == Offsets(s)[Len(s) + 1]

IsPayload(e) == e.op \in {"payload", "data"}

Places(l, kind) == {i \in DOMAIN l : l[i].kind = kind}

InOrder(S, n) == SelectSeq([i \in 1..n |-> i], LAMBDA i : i \in S)

----------------------------------------------------------------------------
(* Disassembly                                                             *)

\* The switches that refer to the payload at an offset.
Referrers(s, offset) ==
    {i \in DOMAIN s : s[i].op = "switch" /\ Offsets(s)[i] + s[i].rel[1] = offset}

\* A second switch on one payload fails SLICER_CHECK(base_offset == kInvalidOffset).
SharedPayload(s) ==
    \E i \in DOMAIN s : s[i].op = "payload" /\ \E j, k \in Referrers(s, Offsets(s)[i]) : j # k

\* What branches and payloads count from.
Base(s, i) ==
    IF s[i].op = "payload"
    THEN Offsets(s)[CHOOSE j \in Referrers(s, Offsets(s)[i]) : TRUE]
    ELSE Offsets(s)[i]

\* DissasembleBytecode, FixupSwitches: labels are named by their offset.
DissasembleBytecode(s) ==
    [i \in DOMAIN s |->
        [kind   |-> IF IsPayload(s[i]) THEN "payload" ELSE "bytecode",
         offset |-> Offsets(s)[i],
         insn   |-> s[i],
         labels |-> [j \in DOMAIN s[i].rel |-> (Base(s, i) + s[i].rel[j]) % U4Range]]]

Magnitude(n) == IF n < 0 THEN -n ELSE n

\* The sign of a catch count says that a catch-all follows the typed
\* handlers, and so does a count of 0.
HasCatchAllNegative(count) == count < 0

HasCatchAll(count) == count < 1

TryBegins(tries) ==
    [i \in DOMAIN tries |-> [kind |-> "try_begin", offset |-> tries[i].start, id |-> i]]

TryEnds(tries) ==
    [i \in DOMAIN tries |->
        LET t == tries[i]
            n == Magnitude(t.catch_count)
        IN  [kind      |-> "try_end",
             offset    |-> t.start + t.insn_count,
             id        |-> i,
             handlers  |-> SubSeq(t.addresses, 1, n),
             catch_all |-> IF HasCatchAll(t.catch_count)
                           THEN << t.addresses[n + 1] >> ELSE << >>]]

Note(offset, op, n) == [kind |-> "dbg", offset |-> offset, op |-> op, n |-> n]

DBG_FIRST_SPECIAL == 10
DBG_LINE_BASE == -4
DBG_LINE_RANGE == 15

\* One step of the debug info's state machine.
DebugStep(s, o) ==
    CASE o.op = "advance_pc"   -> [s EXCEPT !.address = @ + o.n]
      [] o.op = "advance_line" -> [s EXCEPT !.line = @ + o.n]
      [] o.op = "special" ->
            LET adjusted == o.n - DBG_FIRST_SPECIAL
                line     == s.line + DBG_LINE_BASE + (adjusted % DBG_LINE_RANGE)
                address  == s.address + (adjusted \div DBG_LINE_RANGE)
            IN  [address |-> address, line |-> line,
                 notes   |-> Append(s.notes, Note(address, "line", line))]
      [] OTHER -> [s EXCEPT !.notes = Append(@, Note(s.address, o.op, o.n))]

\* DissasembleDebugInfo; file names and locals are other notes.
DissasembleDebugInfo(d) ==
    LET header == IF d.param_names = << >> THEN << >>
                  ELSE << Note(0, "header", d.param_names) >>
        first  == << Note(0, "file", SourceFile), Note(0, "line", d.line_start) >>
    IN  FoldLeft(DebugStep,
                 [address |-> 0, line |-> d.line_start, notes |-> header \o first],
                 d.data).notes

\* Every offset something refers to; payloads are aligned.
Labels(l, ends) ==
    LET Referred == UNION {ToSet(l[i].labels) : i \in DOMAIN l}
                      \cup UNION {ToSet(ends[i].handlers \o ends[i].catch_all) : i \in DOMAIN ends}
        Aligned == {l[i].labels[1] : i \in {j \in DOMAIN l : l[j].insn.op \in {"switch", "fill"}}}
    IN  [i \in 1..Cardinality(Referred) |->
            LET offset == CHOOSE o \in Referred : Cardinality({p \in Referred : p <= o}) = i
            IN  [kind |-> "label", offset |-> offset, aligned |-> offset \in Aligned]]

\* MergeInstructions: extra instructions go before the first one of the list
\* that has their offset, and to the end if there is none.
Merge(l, extra) ==
    LET Add(s, e) ==
            LET same == {i \in s.next..Len(s.list) : s.list[i].offset = e.offset}
                pos  == IF same = {} THEN Len(s.list) + 1 ELSE Min(same)
            IN  [list |-> InsertAt(s.list, pos, e), next |-> pos + 1]
    IN  FoldLeft(Add, [list |-> l, next |-> 1], extra).list

Dissasembled(m) ==
    LET code  == DissasembleBytecode(m.insns)
        ends  == TryEnds(m.tries)
        notes == IF m.debug = NoDebug THEN << >> ELSE DissasembleDebugInfo(m.debug)
    IN  Merge(Merge(Merge(Merge(code, notes), TryBegins(m.tries)), Labels(code, ends)), ends)

----------------------------------------------------------------------------
(* Assembly                                                                *)

\* goto is replaced by goto/16.
EncodedSize(e) ==
    IF e.kind \notin {"bytecode", "payload"} THEN 0
    ELSE IF e.insn.op = "goto" THEN 2 ELSE e.insn.size

\* A variant that does not align labels.
PaddedNever(e, offset) == 0

\* An aligned label at an odd offset writes a nop before itself.
Padded(e, offset) ==
    IF e.kind = "label" /\ e.aligned /\ offset % 2 = 1 THEN 1 ELSE 0

\* BytecodeEncoder::Visit sets the offset of each instruction of the list.
Place(l) ==
    LET at[i \in 1..(Len(l) + 1)] ==
            LET end == IF i = 1 THEN 0 ELSE at[i - 1] + EncodedSize(l[i - 1])
            IN  IF i > Len(l) THEN end ELSE end + Padded(l[i], end)
    IN  at

\* The new offset of the label that had an offset before.
LabelOffset(l, offset) ==
    Place(l)[CHOOSE i \in Places(l, "label") : l[i].offset = offset]

IsShort(insn) == insn.op \in {"goto", "goto16", "if"}

\* A signed number cut to 16 bits.
Pack_16(n) ==
    IF n < -ShortRange THEN n + 2 * ShortRange
    ELSE IF n >= ShortRange THEN n - 2 * ShortRange ELSE n

\* A variant in which payloads count from themselves.
EncodedBaseOwn(l, i) == Place(l)[i]

\* The switch a payload belongs to is found by the offset in it.
EncodedBase(l, i) ==
    IF l[i].insn.op = "payload"
    THEN Place(l)[CHOOSE j \in Places(l, "bytecode") :
                     l[j].insn.op = "switch" /\ LabelOffset(l, l[j].labels[1]) = Place(l)[i]]
    ELSE Place(l)[i]

Distances(l, i) ==
    [j \in DOMAIN l[i].labels |-> LabelOffset(l, l[i].labels[j]) - EncodedBase(l, i)]

\* The length of the try block that ends at i.
TryLength(l, i) ==
    Place(l)[i] - Place(l)[CHOOSE j \in Places(l, "try_begin") : l[j].id = l[i].id]

\* FixupLabels for branches forward, Visit(Bytecode) for branches back:
\* 16 bits are tested, not 15 and a sign.  Visit(TryBlockEnd*) for try blocks.
Encodable(l) ==
    /\ \A i \in Places(l, "bytecode") :
          IsShort(l[i].insn) =>
              Distances(l, i)[1] \in (-2 * ShortRange .. 2 * ShortRange - 1) \ {0}
    /\ \A i \in Places(l, "payload") : Place(l)[i] % 2 = 0
    /\ \A i \in Places(l, "try_end") : TryLength(l, i) \in 1..(TryRange - 1)

Nop == [id |-> 0, op |-> "nop", size |-> 1, rel |-> << >>, args |-> 0]

EncodedInsns(l) ==
    LET At(i) == IF i = 1 THEN 0 ELSE Place(l)[i - 1] + EncodedSize(l[i - 1])
        Encode(i) ==
            IF l[i].kind = "label" THEN IF Padded(l[i], At(i)) = 1 THEN << Nop >> ELSE << >>
            ELSE IF EncodedSize(l[i]) = 0 THEN << >>
            ELSE << [l[i].insn EXCEPT
                        !.op   = IF @ = "goto" THEN "goto16" ELSE @,
                        !.size = EncodedSize(l[i]),
                        !.rel  = [j \in DOMAIN @ |->
                                     IF IsShort(l[i].insn)
                                     THEN Pack_16(Distances(l, i)[j])
                                     ELSE Distances(l, i)[j]]] >>
    IN  FlattenSeq([i \in DOMAIN l |-> Encode(i)])

\* A variant that has room for the last call only.
OutsCountLast(l) == l[Max(Places(l, "bytecode"))].insn.args

OutsCount(l) == Max({0} \cup {l[i].insn.args : i \in Places(l, "bytecode")})

Op(op, n) == [op |-> op, n |-> n]

\* What moves the line by delta and enters the position.
LineOps(delta) ==
    LET adjusted == delta - DBG_LINE_BASE
    IN  IF adjusted \in 0..(DBG_LINE_RANGE - 1)
        THEN << Op("special", DBG_FIRST_SPECIAL + adjusted) >>
        ELSE << Op("advance_line", delta), Op("special", DBG_FIRST_SPECIAL - DBG_LINE_BASE) >>

\* A variant that keeps the address from which it has advanced.
AdvanceFromStart(s, offset) ==
    IF offset = s.address THEN s
    ELSE [s EXCEPT !.data = Append(@, Op("advance_pc", offset - s.address))]

Advance(s, offset) ==
    IF offset = s.address THEN s
    ELSE [s EXCEPT !.data = Append(@, Op("advance_pc", offset - s.address)), !.address = offset]

\* DebugInfoEncoder::Visit(DbgInfoAnnotation*)
EncodeNote(s, e) ==
    CASE e.op = "line" ->
            IF s.line_start = 0
            THEN [s EXCEPT !.line_start = e.n, !.line = e.n]
            ELSE [s EXCEPT !.data = @ \o LineOps(e.n - s.line), !.line = e.n]
      [] e.op = "file" ->
            IF s.file = e.n THEN s
            ELSE [s EXCEPT !.file = e.n, !.data = Append(@, Op("file", e.n))]
      [] e.op = "header" -> [s EXCEPT !.param_names = e.n]
      [] OTHER -> [s EXCEPT !.data = Append(@, Op(e.op, e.n))]

EncodedDebugInfo(l) ==
    LET Visit(s, i) == EncodeNote(Advance(s, Place(l)[i]), l[i])
        notes == InOrder(Places(l, "dbg"), Len(l))
        last  == FoldLeft(Visit, [data |-> << >>, line_start |-> 0, line |-> 0, address |-> 0,
                                  file |-> SourceFile, param_names |-> << >>], notes)
    IN  [line_start |-> last.line_start, param_names |-> last.param_names, data |-> last.data]

\* TryBlocksEncoder
EncodedTries(l) ==
    LET Encode(i) ==
            LET e   == l[i]
                n   == Len(e.handlers)
                all == e.handlers \o e.catch_all
            IN  [start       |-> Place(l)[i] - TryLength(l, i),
                 insn_count  |-> TryLength(l, i),
                 catch_count |-> IF e.catch_all = << >> THEN n ELSE -n,
                 addresses   |-> [j \in DOMAIN all |-> LabelOffset(l, all[j])]]
        ends == InOrder(Places(l, "try_end"), Len(l))
    IN  [k \in DOMAIN ends |-> Encode(ends[k])]

Assembled(m, l) ==
    [insns      |-> EncodedInsns(l),
     outs_count |-> OutsCount(l),
     tries      |-> EncodedTries(l),
     debug      |-> IF m.debug = NoDebug THEN NoDebug ELSE EncodedDebugInfo(l)]

----------------------------------------------------------------------------
(* One method and its instrumenters                                        *)

Init ==
    /\ method \in Methods
    /\ image = method
    /\ list = << >>
    /\ status = "image"
    /\ round = 0

Dissasemble ==
    /\ status = "image" /\ round < Rounds
    /\ IF SharedPayload(image.insns)
       THEN status' = "aborted" /\ UNCHANGED list
       ELSE status' = "list" /\ list' = Dissasembled(image)
    /\ round' = round + 1
    /\ UNCHANGED << method, image >>

\* Transforms insert before the first bytecode and before returns, and
\* AllocateScratchRegs before everything.
HookPlaces(l) ==
    {1, Min(Places(l, "bytecode"))} \cup {i \in Places(l, "bytecode") : l[i].insn.op = "return"}

HookCode(h) ==
    [kind |-> "bytecode", offset |-> -1, labels |-> << >>,
     insn |-> [id |-> 0, op |-> "hook", size |-> h.size, rel |-> << >>, args |-> h.args]]

InsertHook(h) ==
    /\ status = "list"
    /\ Cardinality({i \in Places(list, "bytecode") : list[i].insn.op = "hook"}) < MaxHooks * round
    /\ \E i \in HookPlaces(list) : list' = InsertAt(list, i, HookCode(h))
    /\ UNCHANGED << method, image, status, round >>

Assemble ==
    /\ status = "list"
    /\ IF Encodable(list)
       THEN image' = Assembled(image, list) /\ list' = << >> /\ status' = "image"
       ELSE status' = "aborted" /\ UNCHANGED << image, list >>
    /\ UNCHANGED << method, round >>

\* A transform has failed: the list is dropped.
Abandon ==
    /\ status = "list"
    /\ status' = "image"
    /\ list' = << >>
    /\ UNCHANGED << method, image, round >>

Done ==
    /\ status # "list" /\ (status = "aborted" \/ round = Rounds)
    /\ UNCHANGED vars

Next == Dissasemble \/ (\E h \in Hooks : InsertHook(h)) \/ Assemble \/ Abandon \/ Done

Spec == Init /\ [][Next]_vars

----------------------------------------------------------------------------
(* Properties                                                              *)

Ids(s) == {s[i].id : i \in DOMAIN s} \ {0}

Position(s, id) == CHOOSE i \in DOMAIN s : s[i].id = id

Address(s, id) == Offsets(s)[Position(s, id)]

\* The first of the method's own instructions that runs from an address on:
\* inserted ones lie in front of it.  0 if there is none, or if no instruction
\* starts at the address.
Landing(s, address) ==
    LET from == {i \in DOMAIN s : Offsets(s)[i] = address}
        own  == {i \in DOMAIN s : Offsets(s)[i] >= address /\ s[i].id # 0}
    IN  IF from = {} \/ own = {} THEN 0 ELSE s[Min(own)].id

\* The code is whole: the method's own instructions are there in their order,
\* between inserted ones, payloads are aligned, and outs_count has room for
\* every call.
CodeWhole ==
    /\ status \in {"image", "list", "aborted"} /\ round \in 0..Rounds
    /\ LET s == image.insns
       IN  /\ SelectSeq([i \in DOMAIN s |-> s[i].id], LAMBDA id : id # 0)
                 = [i \in DOMAIN method.insns |-> i]
           /\ \A i \in DOMAIN s :
                 /\ IsPayload(s[i]) => Offsets(s)[i] % 2 = 0
                 /\ s[i].args <= image.outs_count

Destinations(s, id) ==
    LET i == Position(s, id)
    IN  [j \in DOMAIN s[i].rel |-> Landing(s, Base(s, i) + s[i].rel[j])]

\* The short branch id reaches everything between its target t and the
\* instruction before that.
Reaches(s, id, t) ==
    LET from   == Position(s, id)
        to     == Position(s, t)
        before == Max({0} \cup {j \in 1..(to - 1) : s[j].id # 0})
    IN  /\ Offsets(s)[before + 1] - Offsets(s)[from] >= -ShortRange
        /\ Offsets(s)[to] - Offsets(s)[from] < ShortRange

\* Every short branch is still short enough.
BranchesFit ==
    \A id \in Ids(method.insns) :
        IsShort(method.insns[id]) => Reaches(image.insns, id, Destinations(method.insns, id)[1])

\* Branches, switches and their payloads lead where they led before, past
\* whatever has been inserted on the way and in front of their targets, if
\* 16 bits are enough for the distance.
BranchesReachTargets ==
    BranchesFit =>
        \A id \in Ids(method.insns) :
            Destinations(image.insns, id) = Destinations(method.insns, id)

Covered(m, t) ==
    {id \in Ids(m.insns) : Address(m.insns, id) \in t.start..(t.start + t.insn_count - 1)}

Handlers(m, t) == [j \in DOMAIN t.addresses |-> Landing(m.insns, t.addresses[j])]

\* Every try block covers the instructions it covered, has the same handlers in
\* the same order, and a catch-all if it had one.
TriesPreserved ==
    BranchesFit =>
        /\ Len(image.tries) = Len(method.tries)
        /\ \A i \in DOMAIN method.tries :
              LET old == method.tries[i]
                  new == image.tries[i]
              IN  /\ Covered(image, new) = Covered(method, old)
                  /\ Handlers(image, new) = Handlers(method, old)
                  /\ HasCatchAll(new.catch_count) = HasCatchAll(old.catch_count)

\* What a debugger has been told when it reaches an instruction: positions,
\* files and locals in their order.  (The first file and the first line are the
\* header's.)
Told(m, id) ==
    LET notes == DissasembleDebugInfo(m.debug)
        told  == SelectSeq(notes, LAMBDA e : e.offset <= Address(m.insns, id))
    IN  [i \in DOMAIN told |-> Op(told[i].op, told[i].n)]

ToldTheSame ==
    method.debug # NoDebug =>
        \A id \in Ids(method.insns) : Told(image, id) = Told(method, id)

\* Stack traces and breakpoints stay right: each instruction has the lines,
\* files and locals it had.
DebugInfoPreserved == method.debug # NoDebug /\ method.debug.line_start # 0 => ToldTheSame

\* debuginfo_encoder.cc:49-51: "it's not perfectly clear from the .dex
\* specification if initial line == 0 is valid, but a number of existing .dex
\* files do this so we have to support it".  It does not hold: the first
\* position of such a file becomes its initial line.
LineZeroSupported == method.debug # NoDebug /\ method.debug.line_start = 0 => ToldTheSame

\* As far as the places of instructions go the process is aborted only by a
\* payload that two switches share, by a branch that does not fit its 16 bits
\* now or did not fit them before, or by a try block that has grown too long:
\* the entry hook of a method that starts with one is inside it.
AbortsOnlyOnLimits ==
    status = "aborted" =>
        \/ SharedPayload(image.insns)
        \/ \E i \in Places(list, "try_end") : TryLength(list, i) >= TryRange
        \/ ~BranchesFit
        \/ \E i \in Places(list, "bytecode") :
              /\ IsShort(list[i].insn)
              /\ Distances(list, i)[1] \notin -ShortRange .. ShortRange - 1
=============================================================================
