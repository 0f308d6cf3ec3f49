-------------------------- MODULE Instrumentation --------------------------
(***************************************************************************)
(* What the transforms do to one method, and what the woven method then    *)
(* does, register by register.                                             *)
(*                                                                         *)
(* MethodInstrumenter applies the transforms of HookTransform::Apply to    *)
(* the instruction list of the method: ModifyParameter for each modified   *)
(* parameter, EntryHook (tweak ArrayParams), ExitHook (ReturnAsObject).    *)
(* Each inserts instructions and may add registers.  Arguments arrive in   *)
(* the last registers, so whoever adds registers also inserts moves that   *)
(* bring the arguments back to where the method's own code expects them.   *)
(*                                                                         *)
(* Abstractions.  The method's own code is one instruction, `body', that   *)
(* may jump to the method's first label and otherwise ends at one of the   *)
(* returns, with anything of its own in the registers of the arguments.    *)
(* A register holds a token that says where its content comes from; a wide *)
(* value is two tokens.  The verifier's verdict is passed where the        *)
(* execution reaches the instruction.  check-cast is left out.             *)
(***************************************************************************)
EXTENDS RegisterLayout, Sequences, SequencesExt

CONSTANTS
    Jobs  \* [method, hooks]: a method, see MethodShape, and what to hook,
          \* [enter, exit : BOOLEAN, params : ascending indices from 0]

VARIABLES
    method, hooks,
    transforms,  \* the transforms still to be applied
    registers,   \* code->registers
    code,        \* the instruction list
    status,      \* how far the method is
    regs,        \* the registers of the invocation
    pc,          \* the instruction it executes
    array,       \* the Object[] built for the entry hook
    pending,     \* result of the last invoke, for move-result
    left,        \* what the method's own code leaves at its return: in the
                 \* register of `this', and as its result
    looped,      \* body has jumped back, with its arguments kept or assigned
    calls        \* the calls of HookBridge so far

build == << method, hooks, transforms, registers, code >>
vars == << build, status, regs, pc, array, pending, left, looped, calls >>

----------------------------------------------------------------------------
(* Methods.                                                                *)

ParamType == {"ref", "int", "wide"}

Slots(type) ==
    CASE type = "wide" -> << "wide0", "wide1" >>
      [] type = "void" -> << >>
      [] OTHER -> << type >>

\* rets: the operands of the return instructions, and what the method's own
\* code leaves in the register of `this', unless it returns by way of it:
\* `this', another object, or something else.  own: the register is returned
\* as it stands, otherwise body computes the result into it.
MethodShape(m) ==
    /\ m.static \in BOOLEAN /\ m.loop \in BOOLEAN
    /\ m.ctor \in BOOLEAN /\ (m.ctor => ~m.static)
    /\ m.params \in Seq(ParamType)
    /\ m.locals \in Nat
    /\ m.ret \in ParamType \cup {"void"}
    /\ m.rets \in Seq([reg : Nat, own : BOOLEAN, this : {"kept", "object", "local"}])

\* Types of the argument registers, `this' included.
InTypes(m) ==
    (IF m.static THEN << >> ELSE << "ref" >>)
        \o FlattenSeq([i \in DOMAIN m.params |-> Slots(m.params[i])])

Ins(m) == Len(InTypes(m))
ThisIndex(m) == m.locals
RetCount(m) == Len(Slots(m.ret))

\* Argument register, counted from 0, of parameter idx (from 0 as well).
Slot(m, idx) ==
    (IF m.static THEN 0 ELSE 1)
        + Len(FlattenSeq([i \in 1..idx |-> Slots(m.params[i])]))

ASSUME ShapeAssumption ==
    /\ \A job \in Jobs : MethodShape(job.method)
    /\ \A job \in Jobs : /\ job.hooks.enter \in BOOLEAN /\ job.hooks.exit \in BOOLEAN
                         /\ job.hooks.params \in Seq(Nat)
                         /\ \A i, j \in DOMAIN job.hooks.params :
                               i < j => job.hooks.params[i] < job.hooks.params[j]
    /\ \A job \in Jobs :
          LET m == job.method
          IN  \A k \in DOMAIN m.rets :
                LET ret == m.rets[k]
                IN  /\ ret.reg + RetCount(m) <= m.locals + Ins(m)
                    /\ ret.own => /\ ret.reg >= m.locals
                                  /\ Slots(m.ret) = [j \in 1..RetCount(m) |->
                                        InTypes(m)[ret.reg - m.locals + j]]

----------------------------------------------------------------------------
(* Tokens, and instructions.                                               *)

Undef == << "undef", 0 >>
Junk  == << "junk", 0 >>      \* 0xFEFEFEFE
Local == << "local", 0 >>     \* of the method's own code
Object == << "object", 0 >>   \* a reference of the method's own code
ArrayRef == << "array", 0 >>
Id == << <<"id", 0>>, <<"id", 1>> >>
Arg(s) == << "arg", s >>      \* the argument that arrived in slot s
Mod(s) == << "mod", s >>      \* what a listener put in its place
Own(s) == << "own", s >>      \* what the method's own code put there
Box(s) == << "box", s >>
Number(n) == << "const", n >>

Const(dst, vals) == [op |-> "const", dst |-> dst, vals |-> vals]
Move(dst, src, n) == [op |-> "move", dst |-> dst, src |-> src, n |-> n]
BoxValue(src, n, dst) == [op |-> "box", dst |-> dst, src |-> src, n |-> n]
NewArray(dst, size) == [op |-> "new_array", dst |-> dst, size |-> size]
AputObject(src, arr, idx) ==
    [op |-> "aput", src |-> src, arr |-> arr, idx |-> idx]
MoveResult(dst, n) == [op |-> "move_result", dst |-> dst, n |-> n]
Label == [op |-> "label"]
Body == [op |-> "body"]
Return(k) == [op |-> "return", k |-> k]

\* invoke-static, with /range if the registers are contiguous.
Contiguous(args) == \A i \in 2..Len(args) : args[i] = args[i - 1] + 1
Invoke(hook, idx, args) ==
    [op |-> "invoke", hook |-> hook, idx |-> idx, args |-> args]

\* The method as compiled: it may have a label at its first instruction.
Compiled(m) ==
    (IF m.loop THEN << Label >> ELSE << >>)
        \o << Body >> \o [k \in DOMAIN m.rets |-> Return(k)]

\* Insert s before the first bytecode: after a label.
AtStart(c, s) ==
    IF Head(c) = Label THEN << Label >> \o s \o Tail(c) ELSE s \o c

\* Insert s before the k-th return of the method.
BeforeReturn(c, k, s) ==
    LET i == CHOOSE j \in DOMAIN c : c[j] = Return(k)
    IN  SubSeq(c, 1, i - 1) \o s \o SubSeq(c, i, Len(c))

\* A variant that moves the last argument first.
ShiftParamsBackwards(m, r, shift) ==
    LET first == r - Ins(m)
        this  == IF m.static THEN << >> ELSE << Move(first - shift, first, 1) >>
        param(i) == LET src == first + Slot(m, i - 1)
                    IN  Move(src - shift, src, Len(Slots(m.params[i])))
    IN  IF shift = 0 THEN << >>
        ELSE Reverse(this \o [i \in DOMAIN m.params |-> param(i)])

\* GenerateShiftParamsCode, when the method has r registers.
ShiftParams(m, r, shift) ==
    LET first == r - Ins(m)
        this  == IF m.static THEN << >> ELSE << Move(first - shift, first, 1) >>
        param(i) == LET src == first + Slot(m, i - 1)
                    IN  Move(src - shift, src, Len(Slots(m.params[i])))
    IN  IF shift = 0 THEN << >> ELSE this \o [i \in DOMAIN m.params |-> param(i)]

----------------------------------------------------------------------------
(* ModifyParameter::Apply, for parameter idx; first is                     *)
(* first_param_modifier_.                                                  *)

\* A variant that does not count `this'.
ModifyCodeFromThis(m, r, idx) ==
    LET src  == r - Ins(m) + Slot(m, idx) - IF m.static THEN 0 ELSE 1
        n    == Len(Slots(m.params[idx + 1]))
        args == << 0, 1, 2 >> \o (IF m.static THEN << >> ELSE << r - Ins(m) >>)
                    \o [i \in 1..n |-> src + i - 1]
    IN  << Const(0, Id), Const(2, << Number(idx) >>),
           Invoke("modify", idx, args), MoveResult(src, n) >>

ModifyCode(m, r, idx) ==
    LET src  == r - Ins(m) + Slot(m, idx)
        n    == Len(Slots(m.params[idx + 1]))
        args == << 0, 1, 2 >> \o (IF m.static THEN << >> ELSE << r - Ins(m) >>)
                    \o [i \in 1..n |-> src + i - 1]
    IN  << Const(0, Id), Const(2, << Number(idx) >>),
           Invoke("modify", idx, args), MoveResult(src, n) >>

\* The transform returns false if there is no such parameter.
ApplyModifyParameter(idx, first) ==
    LET shift == HeadRoom(registers, Ins(method))
        r     == registers + shift
    IN
    IF idx >= Len(method.params)
    THEN /\ transforms' = << >>
         /\ status' = "failed"
         /\ UNCHANGED << registers, code >>
    ELSE /\ transforms' = Tail(transforms)
         /\ registers' = r
         /\ code' = AtStart(code, ModifyCode(method, r, idx)
                        \o IF first THEN ShiftParams(method, r, shift) ELSE << >>)
         /\ UNCHANGED status

----------------------------------------------------------------------------
(* EntryHook::InjectArrayParamsHook                                        *)

\* The instructions that store argument number i of the array, from src on.
StoreArgument(type, src, i) ==
    IF type = "ref" THEN << Const(0, << Number(i) >>), AputObject(src, 2, 0) >>
    ELSE << BoxValue(src, Len(Slots(type)), 1),
            Const(0, << Number(i) >>), AputObject(1, 2, 0) >>

\* A variant that leaves no element for `this' in a static method.
EntryCodePacked(m, r) ==
    LET first == r - Ins(m)
        this  == IF m.static THEN << >> ELSE StoreArgument("ref", first, 0)
    IN  << Const(0, << Number(1 + Len(m.params)) >>), NewArray(2, 0) >>
        \o this
        \o FlattenSeq([i \in DOMAIN m.params |->
              StoreArgument(m.params[i], first + Slot(m, i - 1),
                            i - IF m.static THEN 1 ELSE 0)])
        \o << Const(0, Id), Invoke("enter", 0, << 0, 1, 2 >>) >>
        \o [i \in 1..3 |-> Const(i - 1, << Junk >>)]

\* Element 0 of the array is `this', or null in a static method.
EntryCode(m, r) ==
    LET first == r - Ins(m)
        this  == IF m.static THEN << >> ELSE StoreArgument("ref", first, 0)
    IN  << Const(0, << Number(1 + Len(m.params)) >>), NewArray(2, 0) >>
        \o this
        \o FlattenSeq([i \in DOMAIN m.params |->
              StoreArgument(m.params[i], first + Slot(m, i - 1), i)])
        \o << Const(0, Id), Invoke("enter", 0, << 0, 1, 2 >>) >>
        \o [i \in 1..3 |-> Const(i - 1, << Junk >>)]

ApplyEntryHook ==
    LET shift == HeadRoom(registers, Ins(method))
        r     == registers + shift
    IN  /\ transforms' = Tail(transforms)
        /\ registers' = r
        /\ code' = AtStart(code, EntryCode(method, r) \o ShiftParams(method, r, shift))
        /\ UNCHANGED status

----------------------------------------------------------------------------
(* ExitHook::Apply                                                         *)

\* A variant that passes the result before `this'.
ExitCodeSwapped(m, k, id) ==
    LET reg  == m.rets[k].reg
        args == << id, id + 1 >>
                    \o [i \in 1..RetCount(m) |-> reg + i - 1]
                    \o (IF m.static THEN << >> ELSE << ThisIndex(m) >>)
    IN  << Const(id, Id), Invoke("exit", 0, args) >>
        \o IF m.ret = "void" THEN << >> ELSE << MoveResult(reg, RetCount(m)) >>

ExitCode(m, k, id) ==
    LET reg  == m.rets[k].reg
        args == << id, id + 1 >>
                    \o (IF m.static THEN << >> ELSE << ThisIndex(m) >>)
                    \o [i \in 1..RetCount(m) |-> reg + i - 1]
    IN  << Const(id, Id), Invoke("exit", 0, args) >>
        \o IF m.ret = "void" THEN << >> ELSE << MoveResult(reg, RetCount(m)) >>

\* A variant that takes the register of `this' and the one after it.
InstrumentReturnOverThis(m, x, k) ==
    LET reg   == IF m.ret = "void" THEN 0 ELSE m.rets[k].reg
        add   == ExitScratch(x.registers, ThisIndex(m), m.static, reg, RetCount(m))
        r     == x.registers + add
        id    == IF Enough(ThisIndex(m), RetCount(m)) THEN reg + RetCount(m) ELSE ThisIndex(m)
        moves == IF Ins(m) = 0 THEN << >> ELSE ShiftParams(m, r, add)
    IN  [registers |-> r, code |-> moves \o BeforeReturn(x.code, k, ExitCode(m, k, id))]

\* Instrument the k-th return of x, an instruction list and its registers.
\* AllocateScratchRegs adds registers, and the moves before everything.
InstrumentReturn(m, x, k) ==
    LET reg   == IF m.ret = "void" THEN 0 ELSE m.rets[k].reg
        add   == ExitScratch(x.registers, ThisIndex(m), m.static, reg, RetCount(m))
        r     == x.registers + add
        id    == MethodIdReg(ThisIndex(m), m.static, reg, RetCount(m))
        moves == IF Ins(m) = 0 THEN << >> ELSE ShiftParams(m, r, add)
    IN  [registers |-> r, code |-> moves \o BeforeReturn(x.code, k, ExitCode(m, k, id))]

\* A variant that stops at the first return.
ApplyExitHookOnce ==
    LET x == InstrumentReturn(method, [registers |-> registers, code |-> code], 1)
    IN  /\ transforms' = Tail(transforms)
        /\ registers' = x.registers
        /\ code' = x.code
        /\ UNCHANGED status

ApplyExitHook ==
    LET instrumented[k \in 0..Len(method.rets)] ==
            IF k = 0 THEN [registers |-> registers, code |-> code]
            ELSE InstrumentReturn(method, instrumented[k - 1], k)
        x == instrumented[Len(method.rets)]
    IN  /\ transforms' = Tail(transforms)
        /\ registers' = x.registers
        /\ code' = x.code
        /\ UNCHANGED status

----------------------------------------------------------------------------
(* MethodInstrumenter::InstrumentMethod                                    *)

\* A variant that queues the entry hook before the modifiers.
TransformsEntryFirst(h) ==
    (IF h.enter THEN << << "enter" >> >> ELSE << >>)
        \o [i \in DOMAIN h.params |-> << "param", h.params[i], i = 1 >>]
        \o (IF h.exit THEN << << "exit" >> >> ELSE << >>)

\* HookTransform::Apply queues the transforms in this order.
Transforms(h) ==
    [i \in DOMAIN h.params |-> << "param", h.params[i], i = 1 >>]
        \o (IF h.enter THEN << << "enter" >> >> ELSE << >>)
        \o (IF h.exit THEN << << "exit" >> >> ELSE << >>)

Init ==
    /\ \E job \in Jobs : method = job.method /\ hooks = job.hooks
    /\ transforms = Transforms(hooks)
    /\ registers = method.locals + Ins(method)
    /\ code = Compiled(method)
    /\ status = "transform"
    /\ regs = << >> /\ pc = 1 /\ array = << >> /\ pending = << >>
    /\ left = [this |-> Undef, result |-> << >>] /\ looped = "no" /\ calls = << >>

ApplyTransform ==
    /\ status = "transform"
    /\ transforms # << >>
    /\ LET tr == Head(transforms) IN
          CASE tr[1] = "param" -> ApplyModifyParameter(tr[2], tr[3])
            [] tr[1] = "enter" -> ApplyEntryHook
            [] tr[1] = "exit"  -> ApplyExitHook
    /\ UNCHANGED << method, hooks, regs, pc, array, pending, left, looped, calls >>

Invokes == {i \in DOMAIN code : code[i].op = "invoke"}

\* An invoke-static without /range has four bits for each register and for
\* their number: a check in BytecodeEncoder aborts the process (Pack_4_4_4_4).
TooHigh(i) ==
    ~Contiguous(code[i].args) /\ \E j \in 1..Len(code[i].args) : j <= 5 /\ code[i].args[j] > 15

\* With more than five registers it encodes an instruction that does not exist.
TooMany(i) == ~Contiguous(code[i].args) /\ Len(code[i].args) > 5

\* Assemble.
Assemble ==
    /\ status = "transform"
    /\ transforms = << >>
    /\ status' = CASE \E i \in Invokes : TooHigh(i) -> "aborted"
                   [] \E i \in Invokes : TooMany(i) -> "rejected"
                   [] OTHER -> "ready"
    /\ UNCHANGED << build, regs, pc, array, pending, left, looped, calls >>

\* A transform failed: InstrumentMethod returns before Assemble, so that the
\* method keeps its instructions, and the registers that were added.
BailOut ==
    /\ status = "failed"
    /\ code' = Compiled(method)
    /\ status' = "ready"
    /\ UNCHANGED << method, hooks, transforms, registers, regs, pc, array,
                    pending, left, looped, calls >>

----------------------------------------------------------------------------
(* The woven method runs.                                                  *)

\* The runtime puts the arguments in the last registers.
Enter ==
    /\ status = "ready"
    /\ status' = "running"
    /\ regs' = [r \in 0..(registers - 1) |->
            IF r < registers - Ins(method) THEN Undef
            ELSE Arg(r - (registers - Ins(method)))]
    /\ UNCHANGED << build, pc, array, pending, left, looped, calls >>

\* `this' of a constructor is no object until the constructor's own code has
\* called another one.
Uninitialized(v) ==
    method.ctor /\ v = Arg(0) /\ \E j \in DOMAIN code : j >= pc /\ code[j] = Body

TypeOf(v) ==
    CASE Uninitialized(v)           -> "uninitialized"
      [] v[1] \in {"arg", "mod", "own"} -> InTypes(method)[v[2] + 1]
      [] v[1] = "id"                -> << "wide0", "wide1" >>[v[2] + 1]
      [] v[1] \in {"result", "new"} -> Slots(method.ret)[v[2] + 1]
      [] v[1] \in {"box", "array", "object"} -> "ref"
      [] v[1] \in {"const", "junk"} -> "int"
      [] OTHER -> v[1]

\* The parameter types of the methods of HookBridge.
HookTypes(m, hook, idx) ==
    LET this == IF m.static THEN << >> ELSE << "ref" >> IN
    << "wide0", "wide1" >> \o
        CASE hook = "enter"  -> << "ref" >>
          [] hook = "modify" -> << "int" >> \o this \o Slots(m.params[idx + 1])
          [] hook = "exit"   -> this \o Slots(m.ret)

Reads(i) ==
    CASE i.op \in {"move", "box"} -> i.src .. (i.src + i.n - 1)
      [] i.op = "new_array" -> {i.size}
      [] i.op = "aput"      -> {i.src, i.arr, i.idx}
      [] i.op = "invoke"    -> Range(i.args)
      [] i.op = "body"      -> ThisIndex(method) .. (ThisIndex(method) + Ins(method) - 1)
      [] i.op = "return"    -> LET reg == method.rets[i.k].reg
                               IN  reg .. (reg + RetCount(method) - 1)
      [] OTHER -> {}

Writes(i) ==
    CASE i.op = "const" -> i.dst .. (i.dst + Len(i.vals) - 1)
      [] i.op \in {"move", "move_result"} -> i.dst .. (i.dst + i.n - 1)
      [] i.op \in {"box", "new_array"} -> {i.dst}
      [] OTHER -> {}

\* The verifier accepts the instruction in the state that regs describes.
Verifies(i) ==
    /\ Reads(i) \cup Writes(i) \subseteq DOMAIN regs
    /\ \A r \in Reads(i) : regs[r] # Undef
    /\ i.op = "invoke" =>
          [j \in DOMAIN i.args |-> TypeOf(regs[i.args[j]])]
              = HookTypes(method, i.hook, i.idx)
    /\ i.op = "box" => [j \in 1..i.n |-> TypeOf(regs[i.src + j - 1])]
                          = IF i.n = 2 THEN << "wide0", "wide1" >> ELSE << "int" >>
    /\ i.op = "aput" => TypeOf(regs[i.src]) = "ref" /\ regs[i.arr] = ArrayRef

Reject ==
    /\ status = "running"
    /\ ~Verifies(code[pc])
    /\ status' = "rejected"
    /\ UNCHANGED << build, regs, pc, array, pending, left, looped, calls >>

At(op) == status = "running" /\ code[pc].op = op /\ Verifies(code[pc])

Write(dst, vals) ==
    regs' = [r \in DOMAIN regs |->
        IF dst <= r /\ r < dst + Len(vals) THEN vals[r - dst + 1] ELSE regs[r]]

RegsFrom(reg, n) == [i \in 1..n |-> regs[reg + i - 1]]

Straight == pc' = pc + 1 /\ UNCHANGED << build, status, looped >>

\* const, const-wide, move*/16, valueOf and move-result-object.
Compute ==
    LET i == code[pc] IN
    /\ \/ At("const") /\ Write(i.dst, i.vals)
       \/ At("move") /\ Write(i.dst, RegsFrom(i.src, i.n))
       \/ At("box") /\ Write(i.dst, << Box(regs[i.src][2]) >>)
       \/ At("label") /\ UNCHANGED regs
    /\ Straight
    /\ UNCHANGED << array, pending, left, calls >>

Allocate ==
    LET i == code[pc] IN
    /\ At("new_array")
    /\ Write(i.dst, << ArrayRef >>)
    /\ array' = [j \in 1..regs[i.size][2] |-> Undef]
    /\ Straight
    /\ UNCHANGED << pending, left, calls >>

Store ==
    LET i == code[pc] IN
    /\ At("aput")
    /\ array' = [array EXCEPT ![regs[i.idx][2] + 1] = regs[i.src]]
    /\ Straight
    /\ UNCHANGED << regs, pending, left, calls >>

\* A call of HookBridge.  The listener keeps the value or returns another.
Call ==
    LET i    == code[pc]
        vals == [j \in DOMAIN i.args |-> regs[i.args[j]]]
        n    == CASE i.hook = "enter" -> 0
                  [] i.hook = "modify" -> Len(Slots(method.params[i.idx + 1]))
                  [] i.hook = "exit" -> RetCount(method)
        given == SubSeq(vals, Len(vals) - n + 1, Len(vals))
        other == [j \in 1..n |-> IF i.hook = "exit" THEN << "new", j - 1 >>
                                 ELSE Mod(Slot(method, i.idx) + j - 1)]
    IN
    /\ At("invoke")
    /\ pending' \in {given, other}
    /\ calls' = Append(calls, [hook |-> i.hook, idx |-> i.idx, vals |-> vals,
                               out |-> pending',
                               array |-> IF i.hook = "enter" THEN array ELSE << >>])
    /\ Straight
    /\ UNCHANGED << regs, array, left >>

MoveResultBack ==
    /\ At("move_result")
    /\ Write(code[pc].dst, pending)
    /\ pending' = << >>
    /\ Straight
    /\ UNCHANGED << array, left, calls >>

\* The jump back to the label at the first instruction, once.  The loop may
\* have assigned to the parameters.
BodyLoops ==
    LET first == ThisIndex(method) + IF method.static THEN 0 ELSE 1 IN
    /\ At("body")
    /\ method.loop /\ looped = "no"
    /\ looped' \in {"kept", "assigned"}
    /\ regs' = [r \in DOMAIN regs |->
            IF looped' = "assigned" /\ first <= r /\ r < method.locals + Ins(method)
            THEN Own(r - ThisIndex(method)) ELSE regs[r]]
    /\ pc' = CHOOSE j \in DOMAIN code : code[j] = Label
    /\ UNCHANGED << build, status, array, pending, left, calls >>

LeftInThis(what) ==
    CASE what = "kept"   -> regs[ThisIndex(method)]
      [] what = "object" -> Object
      [] what = "local"  -> Local

\* The method's own code reaches its k-th return.  Branches go to the label
\* before the return, and so before the exit hook.
BodyReturns ==
    /\ At("body")
    /\ \E k \in DOMAIN method.rets :
          LET reg == method.rets[k].reg
              val == IF method.rets[k].own THEN RegsFrom(reg, RetCount(method))
                     ELSE [j \in 1..RetCount(method) |-> << "result", j - 1 >>]
          IN  /\ regs' = [r \in DOMAIN regs |->
                    IF reg <= r /\ r < reg + RetCount(method) THEN val[r - reg + 1]
                    ELSE IF r = ThisIndex(method) /\ ~method.static
                         THEN LeftInThis(method.rets[k].this)
                    ELSE IF r < method.locals + Ins(method) THEN Local ELSE regs[r]]
              /\ left' = [this   |-> IF method.static THEN Undef ELSE regs'[ThisIndex(method)],
                          result |-> val]
              /\ pc' = CHOOSE j \in DOMAIN code : j > pc
                          /\ (j = pc + 1 \/ code[j - 1].op = "return")
                          /\ \E i \in j..Len(code) : code[i] = Return(k)
                                /\ \A h \in j..(i - 1) : code[h].op # "return"
    /\ UNCHANGED << build, status, array, pending, looped, calls >>

Leave ==
    /\ At("return")
    /\ status' = "returned"
    /\ UNCHANGED << build, regs, pc, array, pending, left, looped, calls >>

Done ==
    /\ status \in {"returned", "rejected", "aborted"}
    /\ UNCHANGED vars

Next ==
    \/ ApplyTransform \/ Assemble \/ BailOut \/ Enter \/ Reject
    \/ Compute \/ Allocate \/ Store \/ Call \/ MoveResultBack
    \/ BodyLoops \/ BodyReturns \/ Leave \/ Done

Spec == Init /\ [][Next]_vars

----------------------------------------------------------------------------
(* Properties                                                              *)

Token == {"undef", "junk", "local", "object", "array", "id", "arg", "mod", "own", "box",
          "const", "result", "new"} \X Nat

Instruction ==
    [op : {"const"}, dst : Nat, vals : Seq(Token)]
        \cup [op : {"move", "box"}, dst : Nat, src : Nat, n : Nat]
        \cup [op : {"new_array"}, dst : Nat, size : Nat]
        \cup [op : {"aput"}, src : Nat, arr : Nat, idx : Nat]
        \cup [op : {"invoke"}, hook : {"enter", "modify", "exit"}, idx : Nat, args : Seq(Nat)]
        \cup [op : {"move_result"}, dst : Nat, n : Nat]
        \cup [op : {"label", "body"}]
        \cup [op : {"return"}, k : Nat]

HookCall == [hook : {"enter", "modify", "exit"}, idx : Nat, vals : Seq(Token),
             out : Seq(Token), array : Seq(Token)]

Transform == ({"param"} \X Nat \X BOOLEAN) \cup {<< "enter" >>, << "exit" >>}

TypeOK ==
    /\ \E job \in Jobs : method = job.method /\ hooks = job.hooks
    /\ status \in {"transform", "failed", "ready", "running", "returned",
                   "rejected", "aborted"}
    /\ transforms \in Seq(Transform)
    /\ registers \in Nat /\ registers >= method.locals + Ins(method)
    /\ code \in Seq(Instruction)
    /\ status = "running" => pc \in DOMAIN code /\ regs \in [0..(registers - 1) -> Token]
    /\ array \in Seq(Token) /\ pending \in Seq(Token)
    /\ left \in [this : Token, result : Seq(Token)]
    /\ looped \in {"no", "kept", "assigned"}
    /\ calls \in Seq(HookCall)

CallsOf(hook) == {i \in DOMAIN calls : calls[i].hook = hook}

\* instrumentation.h:44-46: the entry hook is "forwarded the original incoming
\* arguments", here in an array.  So it is although parameter modifiers are
\* woven before it, registers have been added by any of the transforms, and
\* wide arguments take two of them.  The array starts with `this', or null in
\* a static method, not as instrumentation.h:54-55 has it: "Zero-th element of
\* the array is the method signature."
EntrySeesOriginals ==
    \A i \in CallsOf("enter") :
        /\ Len(calls[i].array) = 1 + Len(method.params)
        /\ calls[i].array[1] = IF method.static THEN Undef ELSE Arg(0)
        /\ \A j \in DOMAIN method.params :
              calls[i].array[j + 1] =
                  LET s == Slot(method, j - 1)
                  IN  IF method.params[j] = "ref" THEN Arg(s) ELSE Box(s)

\* ModifyParameter passes each listener the index, the object and the
\* incoming value of its own parameter, also when other parameters have been
\* replaced before and their registers are still to be moved back.
ModifierSeesItsParameter ==
    \A i \in CallsOf("modify") :
        LET c == calls[i]
            s == Slot(method, c.idx)
        IN  c.vals = Id \o << Number(c.idx) >>
                \o (IF method.static THEN << >> ELSE << Arg(0) >>)
                \o [j \in 1..Len(Slots(method.params[c.idx + 1])) |-> Arg(s + j - 1)]

IndexesExist ==
    \A i \in DOMAIN hooks.params : hooks.params[i] < Len(method.params)

\* The calls of listeners that have returned a value for argument slot s.
ResultsFor(s) ==
    {i \in CallsOf("modify") :
        LET b == Slot(method, calls[i].idx) IN b <= s /\ s < b + Len(calls[i].out)}

\* The latest value of argument slot s, as the listeners, or the method's
\* own code, have left it.
Current(s) ==
    IF looped = "assigned" /\ (method.static \/ s > 0) THEN Own(s)
    ELSE IF ResultsFor(s) = {} THEN Arg(s)
    ELSE LET i == CHOOSE i \in ResultsFor(s) : \A j \in ResultsFor(s) : j <= i
         IN  calls[i].out[s - Slot(method, calls[i].idx) + 1]

\* instrumentation.cc:307-308: "we don't have enough registers, so we allocate
\* more, we will shift params to their original registers later."  When the
\* method's own code starts, and no modifier is for a parameter that does not
\* exist, each argument is where it was compiled to be,
\* with the value its modifier returned, whichever of the three transforms
\* added registers and however often.
ParamsInPlace ==
    IndexesExist /\ status = "running" /\ code[pc] = Body =>
        \A s \in 0..(Ins(method) - 1) : regs[ThisIndex(method) + s] = Current(s)

\* The method's own code leaves `this' in its register, at every return.
ThisStays(m) ==
    m.static \/ \A k \in DOMAIN m.rets :
        LET reg == m.rets[k].reg
        IN  IF ThisIndex(m) \in reg .. (reg + RetCount(m) - 1) THEN m.rets[k].own
            ELSE m.rets[k].this = "kept"

\* instrumentation.h:88-90: the exit hook is passed the original result: the
\* jmethodID is not written over it.  As the object it is passed what the
\* method's own code has left in the register of `this', which is `this' for
\* a method that does not reuse it, even if the jmethodID goes next to it.
ExitSeesResult ==
    \A i \in CallsOf("exit") :
        /\ calls[i].vals =
              Id \o (IF method.static THEN << >> ELSE << left.this >>) \o left.result
        /\ ~method.static /\ ThisStays(method) => left.this = Arg(0)

\* The hooks the caller asked for that run before the method's own code.
Opening(h) ==
    (IF h.enter THEN << << "enter", 0 >> >> ELSE << >>)
        \o Reverse([i \in DOMAIN h.params |-> << "modify", h.params[i] >>])

\* All of them, in the order in which they run.
Expected == Opening(hooks) \o IF hooks.exit THEN << << "exit", 0 >> >> ELSE << >>

\* The calls made are these.
Made(hs) == [i \in DOMAIN calls |-> << calls[i].hook, calls[i].idx >>] = hs

\* An invocation that returns has called every hook exactly once, whichever
\* return it took: entry hook, modifiers, exit hook, and it returns what the
\* exit hook returned.
CallsInOrder ==
    IndexesExist /\ status = "returned" =>
        /\ Made(Expected)
        /\ hooks.exit => \E k \in DOMAIN method.rets :
              /\ code[pc] = Return(k)
              /\ RegsFrom(method.rets[k].reg, RetCount(method)) = calls[Len(calls)].out

\* The exit hook finds two registers for the jmethodID.
ExitFits(m, r) ==
    \A k \in DOMAIN m.rets :
        LET reg == IF m.ret = "void" THEN 0 ELSE m.rets[k].reg
        IN  Usable(MethodIdReg(ThisIndex(m), m.static, reg, RetCount(m)),
                   r, ThisIndex(m), m.static, reg, RetCount(m))

\* At each return there is an object in the register of `this'.
ThisIsObject(m) ==
    m.static \/ \A k \in DOMAIN m.rets :
        LET reg == m.rets[k].reg
        IN  IF ThisIndex(m) \in reg .. (reg + RetCount(m) - 1) THEN m.ret = "ref"
            ELSE m.rets[k].this # "local"

\* Which methods can be woven: at most 16 registers, no modified wide
\* parameter in an instance method, no index past the parameters; for the
\* exit hook, two free registers after the result if the method has two
\* registers besides it, and an object in the register of `this' at each
\* return; and of a constructor the exit alone.  These are accepted by the
\* encoder and by the verifier.
WeavingVerifies ==
    /\ registers <= 16
    /\ IndexesExist
    /\ \A i \in DOMAIN hooks.params :
          method.static \/ method.params[hooks.params[i] + 1] # "wide"
    /\ hooks.exit => ExitFits(method, registers) /\ ThisIsObject(method)
    /\ method.ctor => ~hooks.enter /\ hooks.params = << >>
    => status \notin {"rejected", "aborted"}

----------------------------------------------------------------------------
(* What has been woven: where the arguments are before each instruction.   *)

\* b is the position of the method's own code in c; the returns follow it.
Skeleton(m, c, b) ==
    /\ b \in DOMAIN c /\ c[b] = Body
    /\ \A j \in DOMAIN c : c[j].op = "body" => j = b
    /\ \A j \in DOMAIN c : c[j].op = "return" => j > b
    /\ \A k \in DOMAIN m.rets : \E j \in DOMAIN c : c[j] = Return(k)
    /\ c[Len(c)].op \in {"body", "return"}
    /\ m.loop <=> \E j \in DOMAIN c : c[j].op = "label"
    /\ \A i, j \in DOMAIN c : c[i].op = "label" /\ c[j].op = "label" => i = j /\ i < b
    /\ \A j \in DOMAIN c : c[j].op = "invoke" /\ c[j].hook = "modify" =>
          c[j].idx < Len(m.params)

\* The registers of the arguments, if they are in one block from register r on.
Block(m, r) == [s \in 0..(Ins(m) - 1) |-> r + s]

\* Argument s is in register p[s]: where it is after instruction i.
Moved(i, p) ==
    [s \in DOMAIN p |-> IF i.op = "move" /\ i.src <= p[s] /\ p[s] < i.src + i.n
                        THEN p[s] - i.src + i.dst ELSE p[s]]

\* Where the arguments are before each of the first b instructions, when they
\* arrive in the last of r registers.
Places(m, c, r, b) ==
    LET place[j \in 1..b] ==
            IF j = 1 THEN Block(m, r - Ins(m)) ELSE Moved(c[j - 1], place[j - 1])
    IN  place

\* The move-result at j is for the parameter that argument slot s belongs to.
IsResultFor(m, c, j, s) ==
    /\ c[j].op = "move_result"
    /\ Slot(m, c[j - 1].idx) <= s /\ s < Slot(m, c[j - 1].idx) + c[j].n

\* Instruction j of c overwrites none of the arguments, which are at p, but
\* that it moves, and but the parameter that a listener has been passed.
Passes(m, c, j, p) ==
    LET i == c[j] IN
    /\ i.op \notin {"body", "return"}
    /\ i.op = "move" =>
          \A s \in DOMAIN p : i.dst <= p[s] /\ p[s] < i.dst + i.n
                                => i.src <= p[s] /\ p[s] < i.src + i.n
    /\ i.op = "const" =>
          \A s \in DOMAIN p : ~ (i.dst <= p[s] /\ p[s] < i.dst + Len(i.vals))
    /\ i.op \in {"box", "new_array"} => \A s \in DOMAIN p : p[s] # i.dst
    /\ i.op = "invoke" /\ i.hook = "modify" =>
          j + 1 \in DOMAIN c /\ c[j + 1].op = "move_result"
    /\ i.op = "move_result" =>
          /\ j > 1 /\ c[j - 1].op = "invoke" /\ c[j - 1].hook = "modify"
          /\ i.n = Len(Slots(m.params[c[j - 1].idx + 1]))
          /\ \A s \in DOMAIN p :
                IF IsResultFor(m, c, j, s)
                THEN p[s] = i.dst + s - Slot(m, c[j - 1].idx)
                ELSE ~ (i.dst <= p[s] /\ p[s] < i.dst + i.n)

\* From where they arrive the arguments come to where they were compiled to be.
Woven(m, c, r, b) ==
    LET p == Places(m, c, r, b) IN
    /\ p[b] = Block(m, ThisIndex(m))
    /\ \A j \in 1..(b - 1) : Passes(m, c, j, p[j])
    /\ m.loop => /\ b > 1 /\ c[b - 1] = Label
                 /\ \A j \in 1..(b - 1) : c[j].op \in {"move", "label"}

\* On the way to the method's own code each argument is in its place, with
\* its latest value, or that value is about to be moved there.
ArgumentsKept(b) ==
    LET p == Places(method, code, registers, b) IN
    /\ code[pc].op = "move_result" => Len(pending) = code[pc].n
    /\ \A s \in 0..(Ins(method) - 1) :
          /\ p[pc][s] \in DOMAIN regs
          /\ IF IsResultFor(method, code, pc, s)
             THEN pending[s - Slot(method, code[pc - 1].idx) + 1] = Current(s)
             ELSE regs[p[pc][s]] = Current(s)

\* Indexes exist, and methods that start with a loop have an exit hook only.
Regular == IndexesExist /\ (method.loop => ~hooks.enter /\ hooks.params = << >>)

\* The transforms that are left are the last of those that were queued, and
\* the first of them has made room.
TransformsLeft ==
    LET all  == Transforms(hooks)
        done == Len(all) - Len(transforms)
    IN  /\ done >= 0
        /\ \A i \in DOMAIN transforms : transforms[i] = all[done + i]
        /\ done > 0 /\ hooks.params # << >> => HeadRoom(registers, Ins(method)) = 0

\* The method is only entered when it has been woven.
NotEntered ==
    status \in {"transform", "failed", "ready"} => pc = 1 /\ calls = << >> /\ looped = "no"

\* The instruction list keeps its shape, and brings the arguments to where the
\* method's own code, at b, expects them.
ArgumentsArrive ==
    \E b \in DOMAIN code :
        /\ Skeleton(method, code, b)
        /\ Regular => /\ status # "failed"
                      /\ Woven(method, code, registers, b)
                      /\ status = "running" /\ pc <= b => ArgumentsKept(b)

\* The inductive invariant behind ParamsInPlace.
WeavingInv ==
    /\ TypeOK
    /\ NotEntered
    /\ looped # "no" => method.loop
    /\ status = "transform" => TransformsLeft
    /\ ArgumentsArrive

----------------------------------------------------------------------------
(* What is passed to the listeners, and when.                              *)

\* Instruction j of c makes the t-th call of Opening.
Makes(h, c, j, t) == c[j].op = "invoke" /\ << c[j].hook, c[j].idx >> = Opening(h)[t]

\* Each transform that has been applied has inserted its call, in front of the
\* calls that were there.
InOrder(h, c, b, done) ==
    LET n   == Len(Opening(h))
        way == 1..(b - 1)
    IN  /\ \A j \in way : c[j].op = "invoke" => \E t \in 1..n : t > n - done /\ Makes(h, c, j, t)
        /\ \A i, j \in way, s, t \in 1..n :
              Makes(h, c, i, s) /\ Makes(h, c, j, t) => (i < j <=> s < t)
        /\ \A t \in 1..n : t > n - done => \E j \in way : Makes(h, c, j, t)

\* The array of the entry hook: its elements but for the one of a static
\* method's `this', and the argument slot element x is from.
Elements(m) == (IF m.static THEN 1 ELSE 0)..Len(m.params)
ElementSlot(m, x) == IF x = 0 THEN 0 ELSE Slot(m, x - 1)
IsBoxed(m, x) == x # 0 /\ m.params[x] # "ref"
Original(m, x) == IF IsBoxed(m, x) THEN Box(ElementSlot(m, x)) ELSE Arg(ElementSlot(m, x))

\* Instruction j of c stores element x.
StoresElement(c, j, x) ==
    /\ c[j].op = "aput" /\ c[j].idx = 0
    /\ j > 1 /\ c[j - 1] = Const(0, << Number(x) >>)

\* Before instruction j of c the registers it reads have been filled with what
\* it is for; the arguments are at p.
Prepared(m, c, j, p) ==
    LET i == c[j] IN
    /\ i.op = "invoke" /\ i.hook = "modify" =>
          /\ j > 2 /\ c[j - 2] = Const(0, Id) /\ c[j - 1] = Const(2, << Number(i.idx) >>)
          /\ i.args = << 0, 1, 2 >> \o (IF m.static THEN << >> ELSE << p[0] >>)
                \o [h \in 1..Len(Slots(m.params[i.idx + 1])) |-> p[Slot(m, i.idx) + h - 1]]
    /\ i.op = "new_array" =>
          j > 1 /\ c[j - 1] = Const(0, << Number(1 + Len(m.params)) >>) /\ i = NewArray(2, 0)
    /\ i.op = "aput" =>
          \E x \in Elements(m) :
              /\ StoresElement(c, j, x)
              /\ IF IsBoxed(m, x)
                 THEN /\ j > 2 /\ i.src = 1
                      /\ c[j - 2] = BoxValue(p[ElementSlot(m, x)], Len(Slots(m.params[x])), 1)
                 ELSE i.src = p[ElementSlot(m, x)]

\* The array is there when the entry hook is called, and all that is done
\* with it comes before.
ArrayBuilt(m, c, b) ==
    LET calling == {e \in 1..(b - 1) : c[e].op = "invoke" /\ c[e].hook = "enter"}
        making  == {a \in 1..(b - 1) : c[a].op = "new_array"}
    IN  /\ \A e \in calling : \E a \in making : a < e
        /\ \A a \in making, x \in Elements(m) :
              \E j \in (a + 1)..(b - 1) : StoresElement(c, j, x)
        /\ \A j \in 1..(b - 1) : c[j].op \in {"new_array", "aput", "box"} =>
              \E e \in calling : j < e

\* The register of the jmethodID at the k-th return.
IdReg(m, k) ==
    MethodIdReg(ThisIndex(m), m.static, IF m.ret = "void" THEN 0 ELSE m.rets[k].reg, RetCount(m))

\* Behind the method's own code there are only the returns, the first n of them
\* each behind the code of the exit hook.
Endings(m, c, b, n) ==
    /\ \A i, j \in DOMAIN c : c[i].op = "return" /\ c[i] = c[j] => i = j
    /\ \A j \in DOMAIN c : c[j].op = "return" =>
          /\ c[j].k \in DOMAIN m.rets
          /\ LET e     == IF c[j].k <= n THEN ExitCode(m, c[j].k, IdReg(m, c[j].k)) ELSE << >>
                 start == j - Len(e)
             IN  /\ start > b /\ c[start - 1].op \in {"body", "return"}
                 /\ \A i \in DOMAIN e : c[start + i - 1] = e[i]

\* What the first transforms have done to a method with hooks.
Applied == Len(Transforms(hooks)) - Len(transforms)

CallsWoven(m, h, c, r, b, done) ==
    /\ InOrder(h, c, b, done)
    /\ \A j \in 1..(b - 1) : Prepared(m, c, j, Places(m, c, r, b)[j])
    /\ ArrayBuilt(m, c, b)

\* How many returns have their exit hook: all or none.
Hooked == IF hooks.exit /\ transforms = << >> THEN Len(method.rets) ELSE 0

\* The scratch registers hold what the last two instructions have put there.
ScratchKept(p) ==
    \A h \in {pc - 2, pc - 1} \cap DOMAIN code :
        LET holds(r, v) == h = pc - 1 \/ r \notin Writes(code[pc - 1])
                              => r \in DOMAIN regs /\ regs[r] = v
        IN  /\ code[h].op = "const" =>
                  \A i \in DOMAIN code[h].vals : holds(code[h].dst + i - 1, code[h].vals[i])
            /\ code[h].op = "box" =>
                  \A s \in DOMAIN p[h] : p[h][s] = code[h].src => holds(code[h].dst, Box(s))

\* The array holds each argument that is not still to be stored.
ArrayFilled(b) ==
    (\E a \in 1..(pc - 1) : code[a].op = "new_array") =>
        /\ Len(array) = 1 + Len(method.params)
        /\ method.static => array[1] = Undef
        /\ \A x \in Elements(method) :
              (\A j \in pc..(b - 1) : ~StoresElement(code, j, x))
                  => array[x + 1] = Original(method, x)

\* On the way to the method's own code the calls behind the invocation are made
\* and those ahead are not.
Underway(b) ==
    /\ Len(calls) <= Len(Opening(hooks)) /\ Made(SubSeq(Opening(hooks), 1, Len(calls)))
    /\ \A j \in 1..(b - 1), t \in DOMAIN Opening(hooks) :
          Makes(hooks, code, j, t) => (j < pc <=> t <= Len(calls))
    /\ ScratchKept(Places(method, code, registers, b))
    /\ ArrayFilled(b)

\* On the way from the method's own code to its k-th return: what the exit hook
\* is passed is there until it is called, and then what it has returned.
Returning(k) ==
    LET op    == code[pc].op
        reg   == method.rets[k].reg
        id    == IdReg(method, k)
        this  == ThisIndex(method)
        last  == calls[Len(calls)].out
    IN  /\ Made(IF op \in {"const", "invoke"} THEN Opening(hooks) ELSE Expected)
        /\ op \in {"const", "invoke"} =>
              /\ RegsFrom(reg, RetCount(method)) = left.result
              /\ ~method.static =>
                    /\ regs[this] = left.this \/ (op = "invoke" /\ this \in {id, id + 1})
                    /\ ThisStays(method) => left.this = Arg(0)
        /\ op = "invoke" => regs[id] = Id[1] /\ regs[id + 1] = Id[2]
        /\ op = "move_result" => pending = last /\ Len(last) = RetCount(method)
        /\ op = "return" /\ hooks.exit => RegsFrom(reg, RetCount(method)) = last

\* The return that instruction j of c leads to.
ReturnAhead(c, j, i) ==
    i \in j..Len(c) /\ c[i].op = "return" /\ \A h \in j..(i - 1) : c[h].op # "return"

\* The calls of an invocation of a method that has been woven.
CallsTold ==
    \E b \in DOMAIN code :
        /\ Skeleton(method, code, b)
        /\ CallsWoven(method, hooks, code, registers, b, Applied)
        /\ Endings(method, code, b, Hooked)
        /\ status = "running" /\ pc <= b => Underway(b)
        /\ status = "returned" => pc \in DOMAIN code /\ pc > b /\ code[pc].op = "return"
        /\ status \in {"running", "returned"} /\ pc > b =>
              \E i \in DOMAIN code : ReturnAhead(code, pc, i) /\ Returning(code[i].k)

\* Each modifier has returned a value for its parameter and for nothing else.
Replacements ==
    \A i \in CallsOf("modify") :
        /\ calls[i].idx < Len(method.params)
        /\ Len(calls[i].out) = Len(Slots(method.params[calls[i].idx + 1]))

\* A modifier of a parameter that does not exist: nothing is woven.
NothingTold ==
    /\ calls = << >>
    /\ status = "transform" =>
          \E i \in DOMAIN transforms : transforms[i][1] = "param"
                                         /\ transforms[i][2] >= Len(method.params)
    /\ status \notin {"transform", "failed"} => code = Compiled(method)

\* The inductive invariant, with WeavingInv, behind what the listeners are passed.
HooksInv ==
    /\ status # "transform" => transforms = << >>
    /\ ~IndexesExist => NothingTold
    /\ Regular =>
          /\ CallsTold /\ Replacements
          /\ EntrySeesOriginals /\ ModifierSeesItsParameter /\ ExitSeesResult

\* The whole of the inductive invariant: the arguments come to where they belong,
\* and each listener is called once, in its turn, with what it is for.
IInv == WeavingInv /\ HooksInv

\* instrumentation.h:44: "Insert a call to the "entry hook" at the start of the
\* instrumented method": an invocation calls it once.  It does not hold if the
\* method's first instruction is the target of a jump, as in a method that
\* starts with a loop: the call is inserted after that label.
EntryOnce == \A i, j \in CallsOf("enter") : i = j
=============================================================================
