# jtik: a TLA+ verification project

Jtik hooks Java methods of a running Android process. A caller names a method
and gives a `MethodHook` with up to three kinds of listeners: one on entry, one
on exit that may replace the result, and one for each parameter it wants to
modify. Jtik has a JVMTI agent retransform the class; a copy of the *slicer* DEX
library inserts calls of `HookBridge` into the method's bytecode; `HookBridge`
looks the callback up and calls its listeners.

## Inventory

| component | source | state it keeps | operations |
|---|---|---|---|
| Jtik | `Jtik.java`, `UnHooker.java` | `sHookers` (method to callback), `sInitialized`, the monitor of the class | `init`, `hook`, `unHook`, `handleMethodEnter/Exit/ParamModify`, `hasHooked` |
| agent | `agent/jtik_agent.cc`, `jtik.cc`, `transform/hook_transform.*` | `current_transform` (one per thread), `sAgentJvmtiEnv`, `sHookerClassLoader` | `Agent_OnAttach`, `agent_do_transform`, `agent_do_unHook_transform`, `HookClassFileLoadHook` |
| initialisation | `Jtik.init`, `jtik.cc`, `Utils.FileCopy` | `mOrgJdwpState`, the state of JDWP and of `debuggable` in the runtime, the copied library | `SetDebuggableRelease`, attach, `JtikInitAfterAgent`, copy |
| HookBridge | `HookBridge.java`, `MethodHook.java` | `hookClassLoader`; one copy of the class per class loader | `checkHooked`, `onMethodEnter`, `onMethodExit`, `onModifyParameter` and their overloads |
| transforms | `dexter/instrumentation.cc`, `transform/modify_parameter_transform.cc` | the instruction list and the register count of one method | `ModifyParameter`, `EntryHook`, `ExitHook`, `AllocateScratchRegs`, `InstrumentMethod` |
| code IR and encoder | `dexter/code_ir.cc`, `dexter/bytecode_encoder.cc` | instructions, labels, fixups | disassemble, assemble, encode |
| dex IR | `dexter/dex_ir.cc`, `dex_ir_builder.cc`, `slicer/hash_table.h`, `slicer/index_map.h` | interned strings, types, protos, methods, their indexes | lookup, create, `Normalize` |
| reader | `dexter/reader.cc`, `slicer/reader.h` | the image, the nodes found so far by index or offset | `FindClassIndex`, `CreateClassIr`, `GetX`, `ParseX`, `ExtractX` |
| writer | `dexter/writer.cc`, `slicer/writer.h`, `slicer/buffer.h`, `slicer/dex_leb128.h` | the sections, `node_offset_` | `CreateImage`: `CreateXSection`, `WriteX`, `FillX` |

How they interact. `Jtik.hook` holds the monitor of `Jtik.class` and calls, on
the same thread, the agent; the agent leaves a transform in a `thread_local`
and calls `RetransformClasses`; the runtime calls `HookClassFileLoadHook` back
on that thread, for every class of that call, and also for every class the
thread happens to load later. The load hook runs the transforms on the
*original* class file. Only after that does `hook` put the callback into
`sHookers`. Meanwhile any other thread may run the woven method: its calls of
`HookBridge` are not synchronized with anything.

What is hard here.

- Interleavings: two threads that hook the same class; invocations that overlap
  with `hook` and `unHook`; class loads and other agents' retransformations
  between any two steps; a callback that is replaced while the bytecode of the
  first hook runs.
- State kept from one call to another: the thread's transform survives the call
  that made it, also one the runtime refused; `mOrgJdwpState`, `sAgentJvmtiEnv`
  survive a failed `init`; the copied library survives the process.
- Which of two copies of a class comes first: application classes and boot
  classes have a `HookBridge` of their own and both load one library.
- Names that change their meaning on the way: an item is an original index in
  the old image and in code that has been read or woven, a node in the IR, a new
  index and an offset in the new image. Every one hidden in an instruction,
  handler, debug opcode, encoded value or annotation has to be found, twice.
- Registers: three transforms each may add registers and move arguments, with
  wide values, at every boundary of the frame's size.

What makes the components correct.

- Jtik and agent: what is woven is what `sHookers` says, outside the windows the
  code leaves open; whatever is woven, on any thread, is what some thread asked for last.
- HookBridge: a dispatch ends, meets no assertion error, misses its callback
  only while `hook` or `unHook` of that method is under way, and calls listeners of the
  kinds that were registered.
- Initialisation: `true` means ready, after any history of failures.
- Reader, IR and writer: a class means in the new image what it meant in the
  old one and what was added to it; the image is one the runtime, and the reader
  itself, accepts.
- Transforms: listeners see the arguments and the result of the invocation;
  the method's own code finds its arguments where it was compiled to find them;
  the result returned is the one the exit listener gave.

## Modules

| module | models | state and actions |
|---|---|---|
| `HookLifecycle` | Jtik, agent | `sHookers`, `lock`, each thread's place (`pc`) and `current_transform`, the code of each method as the set of kinds woven into it and the jmethodID they pass. `HookBegin`, `HookRetransform`, `HookFail`, `HookPut`, `UnHookBegin`, `UnHookRetransform`, `UnHookFail`, `Leave` are the steps of the two synchronized methods between which others can see their effect; `LoadClass` and `ForeignRetransform` are the runtime's |
| `HookSlots` | what `hook` and `unHook` amount to | the abstract specification of `HookLifecycle`: what is woven, what is in the window, what is registered; no threads, transforms or monitor. `Install`, `Register`, `Clear`, `Refuse`, `Revive` |
| `HookedCalls` | HookBridge, EXTENDS `HookLifecycle` | invocations by threads `Caller`, each with its stage (entry, parameter, body, exit), the two copies of `hookClassLoader`, the owner of the public library; one action per step of `checkHooked`, lookup and dispatch |
| `JtikInit` | initialisation | one action per step of `Jtik.init` that may fail, `Weave`/`Unweave` for later hooks, `LoadPub`, `Restart` |
| `RegisterLayout` | which registers the transforms use | arithmetic only |
| `Instrumentation` | transforms on one method, then one invocation of it | first `ApplyTransform` per queued transform and `Assemble` or `BailOut` change the instruction list; then the instructions are executed on registers that hold tokens naming where a value comes from |
| `CodeIr` | code IR and encoders | a method's code (`image`) or the list its instructions, labels, try blocks and debug info are merged into; `Dissasemble`, `InsertHook`, `Assemble`, `Abandon` |
| `InternTable` | what Builder and Reader rely on | a set and the answer of the last lookup |
| `HashTable` | `slicer::HashTable`, its partitions as sets of values | the hash function, `full`, `ins`, `failed` (a `SLICER_CHECK` aborts); `Find` and `Intern` are Builder's `Find...` and `Get...` |
| `HashBuckets` | the same with the array of buckets and its chains, EXTENDS `HashTable` | `full_table` and `insertion_table`, a partition being `buckets_` and `hash_buckets_`; `full` and `ins` record what they hold |
| `DexEncoding` | LEB128, integers and floats of encoded values | pure operators over sequences of digits; `Group`, `Byte`, `U2`, `U4` are 2^7, 2^8, 2^16 and 2^32 in the code |
| `DexImage` | what an image says | an image is a record of index tables, items by offset, and the header; `ClassMeaning` resolves every index and offset of a class to names. The reference of the pipeline, written from the structures of `dex_format.h`; it shares with the reader and the writer only names of kinds |
| `DexReader` | `dex::Reader` | `Parse` (an item to a node), `Mentions` (the nodes it gets on the way), `ReadClosure` (the IR of a class), `ReaderAccepts` (its `SLICER_CHECK`s) |
| `IndexMap` | the tracker of used indexes | `Marked`, `FreeIndex`, `Allocated` |
| `DexIr` | `ir::DexFile`, `ir::Builder` | nodes by kind and original index or offset; `GetType` ... `GetMethodDecl`, `Index` and `Normalize` |
| `DexWriter` | `dex::Writer` and its sections | a record with the offset, the offsets of the nodes, the items and the sections; `WriteX`, `XSize`, `XOK` (the checks), `CreateSection`, `CreateMapSection`, `CreateImage` |
| `DexLayout` | what the layout of an image promises | the abstract specification of the sections: `Place` puts one behind the last |
| `DexRewrite` | the load hook's work on a class file, EXTENDS `DexWriter` | `ReadClass`, `Apply`, `AddInvoke`, `AddCheckCast`, `AddFieldUse`, `NormalizeIr`, `WriteSection`, `Finish`, `NoMemory`, `Abort` |
| `HookLifecycleProofs`, `HookSlotsProofs`, `HookedCallsProofs`, `JtikInitProofs`, `InstrumentationProofs` (with `RegisterLayout`), `WovenCallsProofs`, `HashTableProofs`, `DexProofs` (`IndexMap` and `DexLayout`) | theorems | |
| `MC...` | instances for TLC | |

Bytecode is abstracted twice, on purpose: as a set of kinds where threads
interleave, and as instructions over registers where one method is woven. The
join is `Transforms(h)` of `Instrumentation`, the order in which
`HookTransform::Apply` queues them, and `StageAfter` of `HookedCalls`, the order
in which an invocation meets the hooks.

`RetransformClasses` is one step: the runtime runs it with all threads
suspended at the switch. A call that fails before it changes anything is a
stuttering step. A listener's own effects are left out, other than the value it
returns; so is the use of a `MethodHook.Builder` after `build()`.

The class file is the third view of the code. In `DexRewrite` an instruction is
its format and the item it names, and those a transform adds come last in their
method: `CodeIr` says where they go, and `DexRewrite` what their operands denote
in the end. The reader allocates code, debug info and lists of parameter
annotations for each use, so their content lies inside the node that owns
them; type lists, arrays, annotations and sets are shared by offset, as in the
reader's maps. Items of a section that the format does not order are written
in the order of their keys, where the code uses the order of allocation; no
property depends on it. `CreateFullIr` is `ReadClass` for every class.
`GetFieldDecl` is part of the builder's interface; Jtik's transforms do not call it.

Operators called "a variant" or "a mutant" change one definition the way a slip in the code
would. Nothing uses them in the specifications; each one is known to break the
property that should notice it.

## What the runs check

Runs that pass:

- `hook_lifecycle` (444 254 states): two threads, two classes of one name in two
  loaders, three methods, two callbacks with different listeners, retransformations
  that fail at any time, and another agent that retransforms on any thread, those two included.
  `WovenIsRegistered`: a woven method has its callback in `sHookers`, except
  between the retransformation and `put`, and except for what a refused hook
  left on the thread. `KindsMatchCallback`: the hooks woven are those the
  registered callback listens to, unless another agent has brought them back.
  `WovenAsLastAsked`: whatever is woven, by `hook`, a class load or another agent on
  any thread, is what some thread has asked for in its current or last call. So hooks
  that `unHook` removed on one thread do come back, from the transform
  of another thread that had hooked the method, and on no other way. `ImplementsSlots`: each
  behaviour is one of `HookSlots`, where a class is a slot for the hooks of one
  method, and a hook that is installed evicts the others. `IInv` is the inductive invariant the proofs use.
- `hooked_calls` (511 916 states): one hooking thread, one caller, an
  application class and a boot class, with another agent on the hooking thread. `NoAssertionError`: the lookups after
  `checkHooked` never meet a missing callback or listener they do not handle.
  `MissedOnlyInWindow`: an invocation with hooks finds no callback only if
  `hook` is between weaving and `put`. `NullListenerOnlyIfReplaced`: a listener
  is missing only when the callback was replaced meanwhile, or the invocation began in the window or
  with hooks that another agent had brought back. `CallsEnd`: every
  invocation ends. `CallsInv` is the inductive invariant of the proofs.
- `jtik_init` (18 328 states): every failure of `init`, any number of retries and
  restarts, at most two attached environments, an agent that does not export the function
  that saves the class loader, and a load hook that could not be enabled (the result of
  `SetEventNotificationMode` is dropped, `jtik_agent.cc:143`: `init` returns `true` and
  nothing is ever woven). `InitializedIsReady`,
  `ReleaseRestored`, and the inductive invariant `IInv` of their proofs.
- `instrumentation` (78 293 states): every combination of hooks on methods with
  0 to 4 registers before the arguments, none to two parameters of one or two
  registers, results in the first register, the last before the arguments, or
  an argument, on methods that have put another object, a number or a result into the register of
  `this` by the time they return, on constructors, and with 14 to 17 registers before the arguments. The
  transforms decide on differences around 2 and 3 registers and the encoder
  around 16, and these bounds lie on both sides of them; a third parameter would be shifted by
  the same rule as the second. `EntrySeesOriginals`,
  `ModifierSeesItsParameter`, `ExitSeesResult`: what each listener is passed.
  `ParamsInPlace`: where the arguments are when the body starts.
  `CallsInOrder`: each hook once, in order, and the result returned is the exit
  hook's. `WeavingVerifies`: which woven methods the encoder and the runtime
  accept. `IInv`, which is `WeavingInv` and, on top of it, `HooksInv`, is the
  inductive invariant of the proofs. Methods that start with a loop are here with an exit hook only.
- `code_ir` (316 688 states): methods with every combination of short, 16 and 32 bit
  branches over three instructions, with try blocks (typed, catch-all, both) and debug info
  (line moves at both ends of a special opcode's range and past them, files,
  locals), with switches, array data and a shared payload; instrumented twice with
  hooks of one or three code units before everything, before the first instruction and before returns.
  `CodeWhole`: no instruction is lost or moved, payloads stay aligned, `outs_count`
  suffices. `BranchesReachTargets`: every branch and switch case leads where it
  led, past what was inserted, as long as branches fit 16 bits. `TriesPreserved`:
  the same instructions are covered, with the same handlers.
  `DebugInfoPreserved`: at each instruction a debugger has been told the same
  lines, files and locals. `AbortsOnlyOnLimits`: as far as the places of instructions go,
  no `SLICER_CHECK` fails but for a shared payload, a branch out of range or a try block that has
  grown too long. The checks of registers and argument counts (`TooHigh`, `TooMany`) are those of `Instrumentation`,
  where `WeavingVerifies` says which methods pass them.
- `hash_table` (1 274 states up to symmetry): eight keys and hash functions that
  send all of them, or half of them, to one bucket in all or some sizes of the
  table; with two buckets at first the table grows twice. `BInv`: the inductive
  invariant of the proofs, that of the sets and that of the arrays. `ChainsWellFormed`: each
  bucket is in one chain, the one its key belongs to. `GrowthHasRoom`: growing
  does not abort. `ImplementsTable`: array and chains are what `HashTable` says.
  `ImplementsInterning`: what was interned is found ever after, and nothing
  else is.
- `dex_rewrite` (8 974 states): two class files. One has a class with everything
  (typed and catch-all handlers in a list whose offsets change, all debug opcodes,
  nested annotations, values of every kind, a code item that two methods share)
  and one that is not hooked; the other a class, its superclass and an interface
  without members, which share what they can. Their classes are read in any order,
  any subset, and at most two instructions are added, with items that sort
  before and between the old ones. `MeaningPreserved`: a class means what it
  meant, with the instructions added. `TablesSorted`: index tables strictly
  increasing, classes behind what they extend, annotations in order.
  `ReaderAcceptsImage`: the image can be read again. `MapDescribesImage`: the map
  has each section with items, in order, with the right count.
  `AbortsOnlyOnWideIndex`: no check of the writer fails but that of a 16-bit
  operand. `IndexesKeepTheirNodes`: an original index never comes to denote
  another item. `ImplementsLayout`: the sections behave as `DexLayout`.

Runs that show where the code departs from what its documents and comments say:

- `system_hooks`: both copies of `HookBridge` load the public library, and the
  runtime binds a library to one loader. If the application's copy is first,
  hooks of boot classes never find a callback.
- `double_attach`: an `init` that failed past the attach and is called again
  attaches a second environment, and every hook runs twice.
- `loop_entry`: in a method whose first instruction is a jump target, the entry
  hook runs in every iteration. The moves of the arguments stand there too, so
  that what the loop has assigned to its parameters is lost.
- `line_zero`: `debuginfo_encoder.cc:49` says that debug info whose initial line
  is 0 has to be supported. The encoder takes 0 for "not set yet": the first
  position after it becomes the initial line and is lost as a position.
- `dex_mirror`: `slicer/dex_ir.h:39` says of the IR that it "can mirror any .dex
  file". A null entry in a list of parameter annotations stands for a parameter
  without any; the reader leaves it out (`reader.cc:358`), the list gets shorter, and the
  annotations of the parameters behind it move to others.

Three more things contradict a document and are visible in runs that pass:

- `README.md:5` promises hooks "at the granularity of Java methods". Hooking or unhooking
  a method removes the hooks of all others of its class, since each retransformation starts
  from the original class file and the thread's transform names one method, while
  `sHookers` keeps their callbacks. `HookSlots.Install` says so, and `hook_lifecycle` checks it.
- `instrumentation.h:54-56` says of the array that the entry hook is passed that its first
  element is the method signature and the next one `this`. The code leaves the
  signature out: `this`, or null in a static method, comes first, as `EntrySeesOriginals` has it.
- `onMethodExit` for `boolean` passes its listener `null` for the result
  (`HookBridge.java:236`, `PassesNull` of `HookedCalls`), where `instrumentation.h:89` promises
  the original return value. A listener that returns what it was given makes the cast throw.

No document denies the rest: between weaving and
`put` an invocation returns 0, `false` or `null`, since `onMethodExit` finds no
callback and drops the result (`MissedOnlyInWindow` confines it there); to modify
a `long` or `double` of an instance method the code emits an invoke of six
registers without range, which `WeavingVerifies` excludes; a branch
that insertions stretch past what 15 bits and a sign can express is encoded
with the wrong sign, and only past 16 bits does the process abort; the process
also aborts on two switches that share a payload; a position inside an
instruction moves to the end of the method, and all that follow with it; the exit hook puts
the jmethodID into the two registers after the result, which hold `this` when
the result is in the last register before it (`WeavingVerifies` excludes such
methods, `LastRegisterUnusable` says that they always fail); it passes as the object whatever
the register of `this` holds at a return (`instrumentation.cc:543`), another object if the compiler has put
one there, and if it is a number the runtime rejects the class (`ThisIsObject`); of a
constructor only the exit can be hooked, since at its entry `this` is uninitialized; an insertion at the
start of a try block is inside it, and past 16 bits the process aborts; an invocation that the hooker's own
`HookBridge` does not find loads the public copy of the library, whose
`JNI_OnLoad` takes over the natives of the hooker's `Jtik` without an agent path, so that every
later `hook` and `unHook` fails (`NativesKnowAgent`); `hook` succeeds on a
method without code; `init` succeeds when the library was not copied; with 16
registers before `this` the exit hook makes the encoder abort the process; a
transform that fails after another leaves registers it had added.

Bounds. `MaxEnvs` in `JtikInit` stops at two attached environments (the second
already shows what a third would repeat). `BodyLoops` jumps back once. The
table starts with 2 buckets in place of 127, the smallest number with which it
can grow twice, of eight keys. In `CodeIr` a short branch reaches 8 code units in
place of 32768, so that methods of four instructions come to lie on both sides of
that limit and of twice it; a try block is shorter than 9 in place of 65536 (`TryRange`), `MaxHooks` is two insertions in a round, enough
for one before a branch and one after it, and `Rounds` is two, as for the
environments. In `HookLifecycle` the runtime refuses one method, any number of times (`MCOneRefused`), in
`HookedCalls` the application's (`MCRefused`): a refused hook matters to its method and its thread's transform,
and the same for any other. All methods of these runs have code; one without behaves as
if its callback had no listeners. `HookedCalls` has one hooking thread, since
the threads that hook exclude each other (`Mutex`), and another agent on it. In `DexRewrite` a LEB128 byte has three bits (`Group` 8), a byte of
a value four (`Byte` 16), a word fourteen (`U4`), so that indexes and offsets take one to
five bytes in images of a few kilobytes; `U2` is 24, so that 16-bit indexes of strings
run out in some behaviours and not in others. `MaxAdded` is two instructions: one that
moves the indexes of what is there and one more that may meet the first one's items.
That numbers survive both encodings is an assumption of `MCDexRewrite`,
which TLC evaluates for every number of a word. Indexes of types and prototypes in
items and offsets of handlers are cut to 16 bits as in the writer, which does not ask whether they fit
(`AsU2`); in the images they stay below `U2`, so that the runs do not show the cut. A pointer of the
reader is checked for the first byte of what it points to (`InData`), where the code takes the whole structure.
The other constants are finite sets and no counter needs a bound.

Fairness. `HookLifecycle` states none and has no liveness property: Java's `synchronized` frees
the monitor. `HookedCalls` has weak fairness for the steps of an
invocation that has begun; the code has no wait on its way. Nobody has to start a hook, a call or a load.
`DexRewrite` states no fairness: it is one call of the load hook, and ends when
the image is done. Deadlock is checked in all runs but those of `DexRewrite`, which
stop there; finished work in `Instrumentation` stutters
explicitly (`Done`), as it does in `CodeIr`.

## What is proved

`HookLifecycleProofs`, for any sets of threads, classes, methods and callbacks
that satisfy the assumptions of `HookLifecycle`: `Invariance`
(`Spec => []IInv`), from it `TypeCorrect`, `Registered`,
`KindsMatch`, and `WovenOnRequest` for the action property.

The assumptions: every method has a class, every callback a set of listeners;
methods with code are methods; the null values are
not members; name and signature identify a method in its class. Nothing is assumed of
the threads another agent runs on, nor of which retransformations fail. That is why
`WovenOnRequest` does not say that an unhooked method stays without hooks: a class load or
another agent's retransformation on a thread that has called `hook` brings hooks back which
another thread has removed or replaced. It says that there is no other way, and
that a thread's own `unHook` ends its part in it.

`WovenIsRegistered` is not inductive: a class load weaves whatever transform is
on its thread. `IInv` adds what is known of each thread's transform:
`Mutex` (only the owner of the monitor is inside), `CallTransform` (the
transform of a thread inside agrees with its target and callback),
`LeftoverTransform` (a transform that has been left behind names a method of a
loaded class that is registered or that the runtime refused), `UnHookerLoaded` (who holds an UnHooker has a loaded
class), `WindowKinds` (what is woven in the window). The proof goes action by
action, and for each action conjunct by conjunct.

`HookSlotsProofs`: `Refinement`, `Spec => ImplementsSlots`. The refinement maps
the code of the classes to the set of hooks in place (`WovenHooks`) and the
thread between `RetransformClasses` and `put` to `window` (`Windows`). Most
steps stutter; `IInv` is needed to show that a class load weaves nothing but
what `Stale` allows, and that nobody else is in the window when a hook is
installed.

`JtikInitProofs`, for any bound on the attached agents: `Invariance`, and from it
`TypeCorrect`, `InitReady` and `DebugRestored`. `ReleaseRestored` is not inductive:
`init` restores a state it must have remembered from before its first change,
perhaps several failed calls ago. `IInv` adds `AgentProgress` (how far `init` is
says what the agent has been told), `LoadOrder` (the public copy and hooks come
after `init`), `OrgRemembered` (once loaded the library remembers what JDWP was
when the process started), and that the state is already restored while the
library is being copied.

`InstrumentationProofs`, for methods with any number of parameters of any types, in
any number of registers, and any selection of hooks: `WeavingInvariance`
(`Spec => []WeavingInv`), from it `TypeCorrect` and `ArgumentsInPlace`. `ParamsInPlace`
says what holds when the body starts; whether it will is decided when the
instructions are inserted, and no state of the run shows it. `WeavingInv`
therefore speaks of the instruction list. `Places` follows each argument from the
register it arrives in through the moves in the list; `Woven` says that this ends where the method
was compiled to find it, and that no instruction on the way overwrites an argument
that it does not move (`Passes`), but for the result of a modifier, which goes to the parameter
it is for. Three facts make up the proof:

1. Each inserted piece carries the arguments from one block of registers to
   another and meets nothing else (`Carries`). For the moves this is the order in
   which they are generated: `this` first, each parameter in turn, always to lower
   registers, so that a move never overwrites what a later one reads
   (`ShiftCarries`). For the code of a modifier and of the entry hook it is that
   v0, v1 and v2 are below the arguments (`ModifyCarries`, `EntryCarries`,
   from `HeadRoomIsEnough`).
2. Inserting such a piece before the first instruction, or after the label, keeps
   `Woven` for the new number of registers, and inserting before a return does not
   touch it (`WovenBefore`, `WovenAfter`, `TransformFits`). `TransformsLeft` is needed here: only the first
   modifier moves the arguments back, because after it the later ones add no registers.
3. An invocation keeps `ArgumentsKept` at each instruction: each argument is in its
   place with its latest value, or that value is in the result of the call just
   made and the next instruction moves it there (one lemma per action: `StepsConst`,
   `StepsMove`, `Calls`, `MovesResultBack`, `LoopsBack` ...).

Two hypotheses, both needed. `Regular` leaves out modifiers of parameters that do
not exist: their transform fails with the registers already changed, and the list is
not woven. `ArgumentsInPlace` takes methods that start with the target of
a jump with an exit hook only, as do the runs: other hooks would be in the loop
(`loop_entry`). The facts on data are lemmas too: `FlattenSeq`, the slots
and the returns are handled by the least counterexample again.

`InstrumentationProofs` also states, for methods of any size, `HeadRoomIsEnough` (after
`EntryHook` or `ModifyParameter` no argument is in v0, v1, v2), `ScratchIsUsable` and
`EnoughIsUsable` (when the registers the exit hook takes are usable), and
`LastRegisterUnusable` (when they never are).

`WovenCallsProofs`, on top of it and for the same methods and hooks: `HooksInvariance`
(`Spec => []HooksInv`), with the above `Invariance` (`Spec => []IInv`), and from it `EntrySeesOriginalsHolds`,
`ModifierSeesItsParameterHolds`, `ExitSeesResultHolds` and `CallsInOrderHolds`. What a
listener is passed has been put together by the instructions before the call, and was
decided when these were inserted; `HooksInv` has a part for each of the two.

1. Of the instruction list. `InOrder`: what the transforms have inserted so far are the last
   calls of `Opening`, each once and in its order, since each transform inserts in front of
   those before it. `Prepared`: directly before a call, a store or an allocation stand the instructions that
   fill the registers it reads, and these are the registers the arguments are in at that point (`Places`). `ArrayBuilt`: between the
   allocation of the array and the call of the entry hook each element is stored. `Endings`: behind the
   method's own code there is nothing but the returns, each with the exit hook's code in
   front of it once that transform is done. Each piece has these properties by itself (`ModifyOpens`,
   `EntryOpens`, `MovesOpen`), keeps them when pieces are put in front of each other
   (`WeavesPrepended`), and when code is put in front of a return (`ReturnWeaves`); the loop of the
   exit hook over the returns is `ExitHookWeaves`, and the transforms together `TransformTells`.
2. Of the invocation. Up to the method's own code (`Underway`): the calls made are those of
   `Opening` whose instructions lie behind, in that order; the scratch registers
   hold what the last two instructions have put there, unless the last one has written over it;
   the array holds each argument that is not still to be stored. The
   originals reach the entry hook although modifiers replace arguments: by `InOrder` the
   modifiers come later, so that at each store `Current` is the incoming value. For a modifier
   it is that the modifiers are of distinct parameters (`HooksAscend`).
   From there to a return (`Returning`): the result, and what the method's own code left in the register
   of `this` unless the jmethodID has been written over it, are in their registers until the call, and then the registers
   of the result get what it returned. There is one lemma for each action and side of the
   method's own code (`WayConst`, `WayCall`, `BackCall`, `ReturnTells` ...).

Hypotheses: as above, methods that start with the target of a jump have an exit hook only (`NoLoopEntry`).
`ExitSeesResultHolds` speaks of what the method's own code has left in the register of `this` at the return
(`left`), whatever that is: the code of the exit hook reads the register without asking (`instrumentation.cc:543`).
That it is the object follows for methods that do not reuse the register (`ThisStays`). If a modified parameter does not exist nothing is woven and no listener is called (`NothingTold`).

`HashTableProofs`, for any keys, hash function and initial number of buckets
above one: `Invariance`, `NeverAborts` and `Refinement` (to `InternTable`). A
partition holds at most twice as many values as it has buckets, even when they
all collide. What goes into the new partition is what the full one held, which is
two steps of growth behind, and two steps by 1.6 at least double the buckets: so
all of it fits at one bucket per value, and one more value too. `IInv` therefore
keeps how the sizes of the two partitions are related (`SizesBounded`). With one
bucket at first the argument fails, and so does the table.

The same module proves that the arrays of buckets implement these sets:
`BucketsInvariance` (`BucketsSpec => []BInv`), from it `ChainsStayWellFormed`,
`BucketsRefinement` (to `HashTable`), `BucketsNeverAbort` and `BucketsIntern` (to
`InternTable`). `ChainsWellFormed` is not inductive: that every bucket is in
the chain of its key does not say that the chain leads to it. `PartitionOK` keeps what
`Insert` really does to a chain. A new bucket comes second, so the first bucket
of a chain points to the newest one, and every other to the newest of those
older than itself (`NextIsNewest`). A walk therefore goes to ever older
buckets, ends, and misses none: what it meets is determined (`WalkUnique`) and
is what was inserted (`WalkExists`, `LookupIsChainHas`). Two inserts with one
key would break the count of buckets, hence `ValuesDistinct`; the sizes of the sets
are the lengths of the arrays (`Contents`). `Lookup` and `InsertAll` are recursive
functions in the model. The library's theorems on recursion and induction take
operators and cannot be used, so the proof shows that a function exists which satisfies the recursive
equation (`WalkExists`, `InsertedExists`), and reasons from a least
counterexample (`Least`) instead of by induction.

`HookedCallsProofs`, for any callers besides any hooking threads:
`CallsImplementLifecycle` (`CallsSpec => Spec`: with invocations running, every
theorem on `HookLifecycle` still holds), `CallsInvariance`
(`CallsSpec => []CallsInv`), and from it `CallbackStaysFound`, `MissedInWindow` and
`NullListenerReplaced`. None of the three is inductive, because an invocation learns
something in one step and uses it in a later one, with `hook` and `unHook` in
between. `FrameOK` says what an invocation may rely on at each step of its way: the
method its hooks name has a callback, is in the window of a `hook`, or was refused;
once `checkHooked` has found a callback there is one ever after, since `unHook` takes nothing
out of `sHookers`; and the hooks are those the callback registered at the
start listens to, so only another callback can have a null listener there.

`DexProofs`, for any sequence of indexes: `FreeIndexIsFree` (the search of
`AllocateIndex` finds an index, and it is not in use), `MarkedOK`, `AllocatedOK` (both
operations keep what the search relies on, `MapOK`: every index below `alloc_pos_` is in use
and none is past the end). `TypeOK` of the run says that the trackers in the IR hold
exactly the indexes of its nodes.

The same module, for any set of sections: `LayoutSound` (sections are aligned, none
overlaps another or the header), `LayoutCovers` (no byte behind the header is
outside them) and `SectionsStay` (a section is never moved once placed). The
inductive invariant joins `LayoutTypeOK`, `SectionsAligned`, `SectionsDisjoint` and
`NothingBetween`: a new section is disjoint from the old ones because these end at
`offset`. That the writer implements `DexLayout` is model-checked (`ImplementsLayout`).

Only model-checked: the pipeline of `DexRewrite`, whose reader and writer
recurse over values and classes; liveness (`CallsEnd`); `CodeIr`, whose
operators over instruction lists are folds; and of `Instrumentation` only which woven
methods the encoder and the verifier accept (`WeavingVerifies`), which needs the type of every
register at every instruction, and that the method could be verified before it was woven.

## Plan

1. Done: `HookLifecycle`, `HookedCalls`, `JtikInit`, `RegisterLayout`,
   `Instrumentation`, `CodeIr`, `HookSlots`, the interning tables, the class file from
   reader to writer, and the proofs above.
2. A mapping of `DexRewrite` to `CodeIr` in one run: instructions inserted where
   the code IR puts them, in an image of several methods.
3. The `Builder` of `MethodHook`, used again after `build()`.
4. Proofs of `WeavingVerifies`, on top of `HooksInv`, and of LEB128 for numbers of a given length.

## Not modelled

Text utilities (MUTF-8, descriptors; the order of strings is the constant `Rank`,
their shorties `Shorty`), the table of opcodes, logging, the checksum, the
growth of a buffer by `realloc`, the vendored JVMTI header, the demo application.
`DetourHook`, register renumbering and the tweaks of `EntryHook` Jtik does not use.
Call sites, method handles and the instructions that name them (`invoke-polymorphic`,
`invoke-custom`, `const-method-handle`, `const-method-type`): the reader and the writer leave these
operands as they are and have no tables for them, so that an image with them
does not survive; `InsnMeaning` names them, the sample images have none. An empty
type list, which the format forbids, is not written, and a pointer to it makes
`FilePointer` abort (`Skipped`, `FillOK`); the images have none. LEB128 numbers past 2^28 would
overrun the array of `PushULeb128` (`buffer.h:130`); no number of an image comes near it.
