-------------------------- MODULE HookedCallsProofs --------------------------
(***************************************************************************)
(* Proofs about HookedCalls, for any number of callers, of threads that    *)
(* hook and unhook, and of methods of application and boot classes.        *)
(*                                                                         *)
(* A step of HookedCalls is one of HookLifecycle or leaves its variables   *)
(* alone, so that IInv is at hand.  The callers then need one fact about   *)
(* the other steps: callbacks never leave sHookers, and a window ends with *)
(* the registration (StepKeepsRegistered).                                 *)
(***************************************************************************)
EXTENDS HookedCalls, HookLifecycleProofs

\* Invocations change nothing of what hook(), unHook() and the runtime do.
LEMMA CallsStepIsStep == [CallsNext]_allVars => [Next]_vars
<1> SUFFICES ASSUME [CallsNext]_allVars PROVE [Next]_vars
  OBVIOUS
<1>1. CASE \E p \in Caller, m \in Method : Invoke(p, m)
  BY <1>1 DEF Invoke
<1>2. CASE \E p \in Caller : Call(p)
  BY <1>2 DEF Call, Body, Return, CheckHere, CheckElsewhere, ModifyParameter,
       MethodEnter, MethodExit, Dispatching
<1>3. CASE ApplicationCreated
  BY <1>3 DEF ApplicationCreated
<1>4. CASE UNCHANGED allVars
  BY <1>4 DEF allVars
<1> QED BY <1>1, <1>2, <1>3, <1>4 DEF CallsNext

\* The threads that hook and unhook, the class loads and the other agents
\* behave as HookLifecycle says, whoever calls the methods meanwhile: each of
\* its theorems is one about the composition.
THEOREM CallsImplementLifecycle == CallsSpec => Spec
<1>1. CallsInit => Init
  BY DEF CallsInit
<1> QED BY <1>1, CallsStepIsStep, PTL DEF CallsSpec, Spec

\* The invariant of HookLifecycle in the composition.
LEMMA CallsIInv == CallsSpec => []IInv
BY CallsImplementLifecycle, Invariance, PTL

\* A registered callback is replaced but never removed, and a window ends with
\* the registration of its callback.
LEMMA StepKeepsRegistered ==
    ASSUME IInv, [Next]_vars, NEW i \in Method
    PROVE  /\ sHookers[i] # NoCallback => sHookers'[i] # NoCallback
           /\ \A t \in Thread : InWindow(t, i) =>
                 sHookers'[i] # NoCallback \/ InWindow(t, i)'
<1>1. CASE \E t \in Thread : HookPut(t)
  <2>1. PICK t \in Thread : HookPut(t)
    BY <1>1
  <2>2. /\ target[t] \in Method /\ callback[t] # NoCallback
        /\ \A u \in Thread : pc[u] # "idle" => u = t
    <3>1. target[t] # NoMethod
      BY <2>1 DEF HookPut, IInv, CallTransform
    <3>2. target[t] \in Method
      BY <3>1 DEF IInv, TypeOK
    <3> QED BY <2>1, <3>1, <3>2 DEF HookPut, IInv, CallTransform, Mutex
  <2>3. sHookers' = [sHookers EXCEPT ![target[t]] = callback[t]]
    BY <2>1 DEF HookPut
  <2>4. \A u \in Thread : InWindow(u, i) => i = target[t]
    BY <2>2 DEF InWindow
  <2> QED BY <2>2, <2>3, <2>4 DEF IInv, TypeOK
<1>2. CASE \E t \in Thread : HookRetransform(t)
  <2>1. PICK t \in Thread : HookRetransform(t)
    BY <1>2
  <2>2. UNCHANGED << sHookers, target >> /\ pc' = [pc EXCEPT ![t] = "put"]
    BY <2>1 DEF HookRetransform
  <2> QED BY <2>2 DEF InWindow, IInv, TypeOK
<1>3. CASE \E t \in Thread, m \in Method, b \in Callback : HookBegin(t, m, b)
  <2>1. PICK t \in Thread : \E m \in Method, b \in Callback : HookBegin(t, m, b)
    BY <1>3
  <2>2. /\ UNCHANGED sHookers /\ pc[t] # "put"
        /\ \A u \in Thread : u # t => pc'[u] = pc[u] /\ target'[u] = target[u]
    BY <2>1 DEF HookBegin, IInv, TypeOK
  <2> QED BY <2>2 DEF InWindow
<1>4. CASE \E t \in Thread, m \in Method : UnHookBegin(t, m)
  <2>1. PICK t \in Thread : \E m \in Method : UnHookBegin(t, m)
    BY <1>4
  <2>2. /\ UNCHANGED sHookers /\ pc[t] # "put"
        /\ \A u \in Thread : u # t => pc'[u] = pc[u] /\ target'[u] = target[u]
    BY <2>1 DEF UnHookBegin, IInv, TypeOK
  <2> QED BY <2>2 DEF InWindow
<1>5. CASE \E t \in Thread : HookFail(t) \/ UnHookRetransform(t) \/ UnHookFail(t)
  <2>1. PICK t \in Thread : HookFail(t) \/ UnHookRetransform(t) \/ UnHookFail(t)
    BY <1>5
  <2>2. /\ UNCHANGED sHookers /\ pc[t] # "put"
        /\ \A u \in Thread : u # t => pc'[u] = pc[u] /\ target'[u] = target[u]
    BY <2>1 DEF HookFail, UnHookRetransform, UnHookFail, Leave, IInv, TypeOK
  <2> QED BY <2>2 DEF InWindow
<1>6. CASE Runtime \/ UNCHANGED vars
  <2>1. UNCHANGED << sHookers, pc, target >>
    BY <1>6 DEF Runtime, LoadClass, ForeignRetransform, vars
  <2> QED BY <2>1 DEF InWindow
<1> QED BY <1>1, <1>2, <1>3, <1>4, <1>5, <1>6 DEF Next, Hook, UnHook

\* What the runtime has refused stays on record.
LEMMA StepKeepsRefused == [Next]_vars => refused \subseteq refused'
BY DEF Next, Hook, UnHook, Runtime, HookBegin, HookRetransform, HookFail, HookPut,
       UnHookBegin, UnHookRetransform, UnHookFail, LoadClass, ForeignRetransform,
       history, vars

----------------------------------------------------------------------------
(* Frames.                                                                 *)

Stage == HookStage \cup {"idle", "body", "done"}

\* The stages of a method follow each other, and a hook runs only if it has
\* been woven in.
LEMMA StageAfterType ==
    ASSUME NEW kinds \in SUBSET Kind, NEW s \in Stage
    PROVE  /\ StageAfter(kinds, s) \in Stage \ {"idle"}
           /\ StageAfter(kinds, s) \in HookStage => StageAfter(kinds, s) \in kinds
BY DEF StageAfter, Stage, HookStage

\* What a caller's step leaves alone, and what it may change.
Keeps(f, g) ==
    /\ g.method = f.method /\ g.id = f.id /\ g.kinds = f.kinds /\ g.seen = f.seen

LEMMA FrameFields ==
    ASSUME NEW f \in Frame
    PROVE  /\ f.method \in Method \cup {NoMethod} /\ f.id \in Method \cup {NoMethod}
           /\ f.kinds \in SUBSET Kind /\ f.stage \in Stage
           /\ f.thrown \in {"none", "Assertion", "NullListener", "Unboxing", "Body"}
BY DEF Frame, Stage

\* Advance goes on to a hook that is woven, to the body or to the end.
LEMMA AdvanceFrame ==
    ASSUME CallsTypeOK, NEW p \in Caller, NEW f \in Frame, Advance(p, f)
    PROVE  /\ frame' \in [Caller -> Frame]
           /\ \A q \in Caller : q # p => frame'[q] = frame[q]
           /\ Keeps(f, frame'[p])
           /\ frame'[p].stage \in Stage \ {"idle"}
           /\ frame'[p].stage \in HookStage => frame'[p].stage \in f.kinds
           /\ frame'[p].route = "unchecked" /\ frame'[p].thrown = f.thrown
<1> DEFINE s == StageAfter(f.kinds, f.stage)
           g == [f EXCEPT !.stage = s, !.route = "unchecked"]
<1>1. s \in Stage \ {"idle"} /\ (s \in HookStage => s \in f.kinds)
  BY FrameFields, StageAfterType
<1> HIDE DEF s
<1>2. /\ g \in Frame /\ Keeps(f, g) /\ g.stage = s /\ g.route = "unchecked"
      /\ g.thrown = f.thrown
  <2>1. g \in Frame
    BY <1>1 DEF Frame, Stage
  <2>2. Keeps(f, g) /\ g.stage = s /\ g.route = "unchecked" /\ g.thrown = f.thrown
    BY DEF Frame, Keeps
  <2> QED BY <2>1, <2>2
<1>3. frame' = [frame EXCEPT ![p] = g]
  BY DEF Advance, s
<1> HIDE DEF g
<1> QED BY <1>1, <1>2, <1>3 DEF CallsTypeOK

\* An exception ends the invocation.
LEMMA ThrowFrame ==
    ASSUME CallsTypeOK, NEW p \in Caller, NEW f \in Frame,
           NEW e \in {"none", "Assertion", "NullListener", "Unboxing", "Body"}, Throw(p, f, e)
    PROVE  /\ frame' \in [Caller -> Frame]
           /\ \A q \in Caller : q # p => frame'[q] = frame[q]
           /\ Keeps(f, frame'[p])
           /\ frame'[p].stage = "done" /\ frame'[p].route = "unchecked"
           /\ frame'[p].thrown = e
<1> DEFINE g == [f EXCEPT !.stage = "done", !.thrown = e, !.route = "unchecked"]
<1>1. /\ g \in Frame /\ Keeps(f, g) /\ g.stage = "done" /\ g.route = "unchecked"
      /\ g.thrown = e
  BY DEF Frame, Stage, Keeps
<1>2. frame' = [frame EXCEPT ![p] = g]
  BY DEF Throw
<1> HIDE DEF g
<1> QED BY <1>1, <1>2 DEF CallsTypeOK

----------------------------------------------------------------------------
(* The inductive step.                                                     *)

\* A caller that makes no step keeps what is known of its invocation, whatever
\* hook() and unHook() do meanwhile.
LEMMA FrameKept ==
    ASSUME IInv, [Next]_vars, NEW p \in Caller, CallsTypeOK, FrameOK(frame[p]),
           frame'[p] = frame[p]
    PROVE  FrameOK(frame[p])'
<1> DEFINE f == frame[p]
<1>1. f \in Frame
  BY DEF CallsTypeOK
<1>2. f.id \in Method =>
         /\ sHookers[f.id] # NoCallback => sHookers'[f.id] # NoCallback
         /\ \A t \in Thread : InWindow(t, f.id) =>
               sHookers'[f.id] # NoCallback \/ InWindow(t, f.id)'
  BY StepKeepsRegistered
<1>3. f.route \in {"here", "other"} => f.id \in Method
  BY DEF FrameOK
<1> HIDE DEF f
<1>4. /\ f.stage # "idle" => f.method \in Method
      /\ f.stage \in HookStage => f.stage \in f.kinds
      /\ f.kinds # {} =>
            /\ f.id \in Method
            /\ \/ f.id \in refused
               \/ sHookers[f.id] # NoCallback
               \/ \E t \in Thread : InWindow(t, f.id)
      /\ f.route # "unchecked" => f.stage \in HookStage
      /\ f.route \in {"here", "other"} => sHookers[f.id] # NoCallback
      /\ f.seen # NoCallback /\ f.id = f.method => f.kinds = Listeners[f.seen]
  BY DEF FrameOK, f
<1>5. f.kinds # {} =>
         /\ f.id \in Method
         /\ \/ f.id \in refused'
            \/ sHookers'[f.id] # NoCallback
            \/ \E t \in Thread : InWindow(t, f.id)'
  BY <1>2, <1>4, StepKeepsRefused
<1>6. f.route \in {"here", "other"} => sHookers'[f.id] # NoCallback
  BY <1>2, <1>3, <1>4
<1>7. f' = f
  BY DEF f
<1> QED BY <1>4, <1>5, <1>6, <1>7 DEF FrameOK, f, InWindow

\* A step of hook(), unHook() or the runtime, between those of the callers.
LEMMA LifecycleStep ==
    ASSUME CallsInv, IInv, Next, UNCHANGED callVars
    PROVE  CallsInv'
<1>1. UNCHANGED << frame, application, hookClassLoader, pubOwner >>
  BY DEF callVars
<1>2. CallsTypeOK'
  BY <1>1 DEF CallsInv, CallsTypeOK
<1>3. \A p \in Caller : FrameOK(frame[p])'
  BY <1>1, FrameKept DEF CallsInv
<1> QED BY <1>1, <1>2, <1>3 DEF CallsInv, NoAssertionError

\* What a caller's own step has to give.
LEMMA CallerStep ==
    ASSUME CallsInv, IInv, UNCHANGED vars, NEW p \in Caller,
           frame' \in [Caller -> Frame],
           \A q \in Caller : q # p => frame'[q] = frame[q],
           FrameOK(frame[p])', frame'[p].thrown # "Assertion",
           application' \in BOOLEAN, hookClassLoader' \in [Copy -> BOOLEAN],
           pubOwner' \in Copy \cup {"none"}
    PROVE  CallsInv'
<1>1. CallsTypeOK'
  BY DEF CallsTypeOK
<1>2. ASSUME NEW q \in Caller PROVE FrameOK(frame[q])' /\ frame'[q].thrown # "Assertion"
  <2>1. CASE q = p
    BY <2>1
  <2>2. CASE q # p
    <3>1. FrameOK(frame[q]) /\ frame[q].thrown # "Assertion" /\ frame'[q] = frame[q]
      BY <2>2 DEF CallsInv, NoAssertionError
    <3> QED BY <3>1, FrameKept DEF CallsInv
  <2> QED BY <2>1, <2>2
<1> QED BY <1>1, <1>2 DEF CallsInv, NoAssertionError

\* The invocation goes on, with its method, its hooks and its callback: there
\* is nothing to show of a hook it has left, and of the next one only that it
\* is woven.
LEMMA FrameGoesOn ==
    ASSUME CallsInv, UNCHANGED vars, NEW p \in Caller,
           Keeps(frame[p], frame'[p]), frame[p].stage # "idle",
           frame'[p].stage \in HookStage => frame'[p].stage \in frame[p].kinds,
           frame'[p].route # "unchecked" => frame'[p].stage \in HookStage,
           frame'[p].route \in {"here", "other"} => sHookers[frame[p].id] # NoCallback
    PROVE  FrameOK(frame[p])'
<1>1. FrameOK(frame[p])
  BY DEF CallsInv
<1>2. \A t, i : InWindow(t, i)' <=> InWindow(t, i)
  BY DEF InWindow, vars
<1>3. UNCHANGED << sHookers, refused >>
  BY DEF vars
<1> QED BY <1>1, <1>2, <1>3 DEF FrameOK, Keeps

\* The listener for this hook is missing.
MissesListener(f) == f.stage \in HookStage /\ f.stage \notin Listeners[sHookers[f.id]]

\* What leaving a stage does to the frames: checkHooked starts afresh for the
\* next hook, and what is thrown is an exception of the method, of a cast, or
\* that of the missing listener.
StageLeft(p) ==
    /\ \A q \in Caller : q # p => frame'[q] = frame[q]
    /\ frame'[p].route = "unchecked"
    /\ \/ frame'[p].thrown \in {frame[p].thrown, "Unboxing", "Body"}
       \/ frame'[p].thrown = "NullListener" /\ MissesListener(frame[p])

\* The two ways to leave a stage: both keep what is known of the invocation.
LEMMA LeaveStage ==
    ASSUME CallsInv, IInv, UNCHANGED << vars, application, hookClassLoader, pubOwner >>,
           NEW p \in Caller, frame[p].stage # "idle",
           \/ Advance(p, frame[p])
           \/ \E e \in {"Unboxing", "Body"} : Throw(p, frame[p], e)
           \/ Throw(p, frame[p], "NullListener") /\ MissesListener(frame[p])
    PROVE  CallsInv' /\ StageLeft(p)
<1> DEFINE f == frame[p]
<1>1. CallsTypeOK /\ f \in Frame /\ f.thrown # "Assertion"
  BY DEF CallsInv, CallsTypeOK, NoAssertionError
<1>2. /\ frame' \in [Caller -> Frame]
      /\ \A q \in Caller : q # p => frame'[q] = frame[q]
      /\ Keeps(f, frame'[p])
      /\ frame'[p].stage \in HookStage => frame'[p].stage \in f.kinds
      /\ frame'[p].route = "unchecked"
      /\ \/ frame'[p].thrown \in {frame[p].thrown, "Unboxing", "Body"}
         \/ frame'[p].thrown = "NullListener" /\ MissesListener(frame[p])
  <2>1. CASE Advance(p, f)
    BY <1>1, <2>1, AdvanceFrame
  <2>2. CASE \E e \in {"Unboxing", "Body"} : Throw(p, f, e)
    <3>1. PICK e \in {"Unboxing", "Body"} : Throw(p, f, e)
      BY <2>2
    <3> QED BY <1>1, <3>1, ThrowFrame DEF HookStage
  <2>3. CASE Throw(p, f, "NullListener") /\ MissesListener(frame[p])
    BY <1>1, <2>3, ThrowFrame DEF HookStage
  <2> QED BY <2>1, <2>2, <2>3
<1>3. Keeps(frame[p], frame'[p]) /\ f.kinds = frame[p].kinds /\ frame'[p].thrown # "Assertion"
  BY <1>1, <1>2 DEF Keeps
<1>4. FrameOK(frame[p])'
  BY <1>2, <1>3, FrameGoesOn
<1>5. CallsInv'
  BY <1>1, <1>2, <1>3, <1>4, CallerStep DEF CallsTypeOK
<1> QED BY <1>2, <1>5 DEF StageLeft

\* The invocation begins with the bytecode the method has now: the hooks woven
\* into it are registered or in their window, and outside it they are those
\* the callback listens to.
LEMMA InvokeStep ==
    ASSUME CallsInv, IInv, NEW p \in Caller, NEW m \in Method, Invoke(p, m)
    PROVE  CallsInv'
<1> DEFINE i == code[m].id
           window == \E t \in Thread : InWindow(t, i)
           open == m \in revived \/ window
           seen == IF i = NoMethod \/ open THEN NoCallback ELSE sHookers[i]
           s == StageAfter(code[m].kinds, "idle")
           g == [NoFrame EXCEPT !.method = m, !.id = i, !.kinds = code[m].kinds,
                                !.stage = s, !.seen = seen]
<1>1. /\ i \in Method \cup {NoMethod} /\ code[m].kinds \in SUBSET Kind
      /\ sHookers \in [Method -> Callback \cup {NoCallback}]
  BY DEF IInv, TypeOK
<1>2. s \in Stage \ {"idle"} /\ (s \in HookStage => s \in code[m].kinds)
  BY <1>1, StageAfterType DEF Stage
<1>3. frame' = [frame EXCEPT ![p] = g]
  BY DEF Invoke
<1>4. UNCHANGED << vars, application, hookClassLoader, pubOwner >>
  BY DEF Invoke
<1>5. /\ g \in Frame
      /\ g.stage = s /\ g.kinds = code[m].kinds /\ g.id = i /\ g.method = m
      /\ g.route = "unchecked" /\ g.seen = seen /\ g.thrown = "none"
  <2>1. seen \in Callback \cup {NoCallback}
    BY <1>1
  <2> HIDE DEF seen, s, i
  <2>2. NoFrame \in Frame
    BY DEF NoFrame, Frame
  <2>3. g \in Frame
    BY <1>1, <1>2, <2>1, <2>2 DEF Frame, Stage
  <2> QED BY <2>3 DEF NoFrame
<1> HIDE DEF g
<1>6. frame' \in [Caller -> Frame] /\ frame'[p] = g
      /\ \A q \in Caller : q # p => frame'[q] = frame[q]
  BY <1>3, <1>5 DEF CallsInv, CallsTypeOK
<1>7. code[m].kinds # {} =>
         /\ i \in Method
         /\ i \in refused \/ sHookers[i] # NoCallback \/ window
  <2> SUFFICES ASSUME code[m].kinds # {}
               PROVE  /\ i \in Method
                      /\ i \in refused \/ sHookers[i] # NoCallback \/ window
    OBVIOUS
  <2>1. CASE i \in refused
    BY <2>1 DEF IInv, TypeOK
  <2>2. CASE i \notin refused
    BY <2>2 DEF IInv, WovenIsRegistered, Woven
  <2> QED BY <2>1, <2>2
<1>8. seen # NoCallback /\ i = m => code[m].kinds = Listeners[seen]
  BY DEF IInv, KindsMatchCallback
<1>9. FrameOK(g) /\ g.thrown = "none"
  <2> HIDE DEF s, seen, i, window
  <2> QED BY <1>2, <1>5, <1>7, <1>8 DEF FrameOK, window
<1>10. FrameOK(frame[p])'
  <2>1. \A t, j : InWindow(t, j)' <=> InWindow(t, j)
    BY <1>4 DEF InWindow, vars
  <2>2. UNCHANGED << sHookers, refused >>
    BY <1>4 DEF vars
  <2> QED BY <1>6, <1>9, <2>1, <2>2 DEF FrameOK
<1> QED
  BY <1>4, <1>6, <1>9, <1>10, CallerStep DEF CallsInv, CallsTypeOK

\* The caller returns to whoever called it.
LEMMA ReturnStep ==
    ASSUME CallsInv, IInv, NEW p \in Caller, Return(p)
    PROVE  CallsInv'
<1>1. NoFrame \in Frame
  BY DEF NoFrame, Frame
<1>2. /\ frame' = [frame EXCEPT ![p] = NoFrame]
      /\ UNCHANGED << vars, application, hookClassLoader, pubOwner >>
  BY DEF Return
<1>3. frame' \in [Caller -> Frame] /\ frame'[p] = NoFrame
      /\ \A q \in Caller : q # p => frame'[q] = frame[q]
  BY <1>1, <1>2 DEF CallsInv, CallsTypeOK
<1>4. FrameOK(frame[p])' /\ NoFrame.thrown # "Assertion"
  BY <1>3 DEF FrameOK, NoFrame, HookStage
<1> QED BY <1>2, <1>3, <1>4, CallerStep DEF CallsInv, CallsTypeOK

\* The method's own code returns or throws.
LEMMA BodyStep ==
    ASSUME CallsInv, IInv, NEW p \in Caller, Body(p)
    PROVE  CallsInv' /\ StageLeft(p)
BY LeaveStage DEF Body

\* checkHooked, here and in the hooker's Jtik: a hook goes on to a callback only
\* if it has seen one.
LEMMA CheckStep ==
    ASSUME CallsInv, IInv, NEW p \in Caller, CheckHere(p) \/ CheckElsewhere(p)
    PROVE  CallsInv'
<1> DEFINE f == frame[p]
<1>1. f \in Frame /\ FrameOK(f) /\ f.thrown # "Assertion" /\ f.stage \in HookStage
  BY DEF CallsInv, CallsTypeOK, NoAssertionError, CheckHere, CheckElsewhere
<1>2. PICK r \in {"here", "elsewhere", "other", "missing"} :
          /\ frame' = [frame EXCEPT ![p].route = r]
          /\ r \in {"here", "other"} => sHookers[f.id] # NoCallback
  BY DEF CheckHere, CheckElsewhere
<1>3. /\ UNCHANGED << vars, application >>
      /\ hookClassLoader' \in [Copy -> BOOLEAN] /\ pubOwner' \in Copy \cup {"none"}
  <2>1. CASE CheckHere(p)
    BY <2>1 DEF CheckHere, CallsInv, CallsTypeOK
  <2>2. CASE CheckElsewhere(p)
    <3>1. CopyOf(f.method) \in Copy
      BY DEF CopyOf, Copy
    <3>2. hookClassLoader \in [Copy -> BOOLEAN] /\ pubOwner \in Copy \cup {"none"}
          /\ application \in BOOLEAN
      BY DEF CallsInv, CallsTypeOK
    <3>3. \A x \in Copy : CanLoad(x) \in BOOLEAN
      BY DEF CanLoad
    <3>4. hookClassLoader' \in [Copy -> BOOLEAN]
      <4> DEFINE x == CopyOf(f.method)
                 loads == ~hookClassLoader[x] /\ CanLoad(x)
      <4>1. PICK found \in BOOLEAN :
                hookClassLoader' = [hookClassLoader EXCEPT ![x] =
                                        hookClassLoader[x] \/ (loads /\ found)]
        BY <2>2, CallsAssumption DEF CheckElsewhere
      <4>2. hookClassLoader[x] \/ (loads /\ found) \in BOOLEAN
        BY <3>1, <3>2, <3>3
      <4> QED BY <3>1, <3>2, <4>1, <4>2
    <3>5. pubOwner' \in Copy \cup {"none"} /\ UNCHANGED << vars, application >>
      BY <2>2, <3>1, <3>2 DEF CheckElsewhere
    <3> QED BY <3>4, <3>5
  <2> QED BY <2>1, <2>2
<1>4. [f EXCEPT !.route = r] \in Frame
  BY <1>1 DEF Frame
<1>5. /\ frame' \in [Caller -> Frame]
      /\ \A q \in Caller : q # p => frame'[q] = frame[q]
      /\ frame'[p] = [f EXCEPT !.route = r]
  BY <1>2, <1>4 DEF CallsInv, CallsTypeOK
<1>6. /\ Keeps(f, frame'[p]) /\ frame'[p].stage = f.stage /\ frame'[p].route = r
      /\ frame'[p].thrown # "Assertion"
  BY <1>1, <1>5 DEF Keeps, Frame
<1>7. f.stage # "idle" /\ f.stage \in f.kinds
  BY <1>1 DEF FrameOK, HookStage
<1>8. FrameOK(frame[p])'
  BY <1>1, <1>2, <1>3, <1>6, <1>7, FrameGoesOn
<1> QED BY <1>3, <1>5, <1>6, <1>8, CallerStep DEF CallsInv, CallsTypeOK

\* A hook that dispatches has been woven, and if checkHooked let it through its
\* callback is there: the AssertionError of Jtik.handleMethod... is out of
\* reach.
LEMMA DispatchFacts ==
    ASSUME CallsInv, NEW p \in Caller, NEW s \in HookStage, Dispatching(p, s)
    PROVE  /\ CallsTypeOK /\ frame[p] \in Frame /\ FrameOK(frame[p])
           /\ frame[p].stage # "idle"
           /\ frame[p].route # "missing" =>
                 \/ Lookup(frame[p], s) = "called"
                 \/ Lookup(frame[p], s) = "NullListener" /\ MissesListener(frame[p])
           /\ UNCHANGED << vars, application, hookClassLoader, pubOwner >>
<1>1. CallsTypeOK /\ frame[p] \in Frame /\ FrameOK(frame[p])
  BY DEF CallsInv, CallsTypeOK
<1>2. frame[p].stage = s /\ s # "idle"
  BY DEF Dispatching, HookStage
<1>3. frame[p].route \in {"here", "other", "missing"}
  BY DEF Dispatching
<1>4. frame[p].route # "missing" => sHookers[frame[p].id] # NoCallback
  BY <1>1, <1>3 DEF FrameOK
<1>5. frame[p].route # "missing" =>
         \/ Lookup(frame[p], s) = "called"
         \/ Lookup(frame[p], s) = "NullListener" /\ MissesListener(frame[p])
  BY <1>2, <1>4 DEF Lookup, MissesListener
<1>6. UNCHANGED << vars, application, hookClassLoader, pubOwner >>
  BY DEF Dispatching
<1> QED BY <1>1, <1>2, <1>5, <1>6

LEMMA MethodEnterStep ==
    ASSUME CallsInv, IInv, NEW p \in Caller, MethodEnter(p)
    PROVE  CallsInv' /\ StageLeft(p)
<1>1. Dispatching(p, "enter") /\ "enter" \in HookStage
  BY DEF MethodEnter, HookStage
<1>2. /\ frame[p] \in Frame /\ frame[p].stage # "idle"
      /\ frame[p].route # "missing" =>
            \/ Lookup(frame[p], "enter") = "called"
            \/ Lookup(frame[p], "enter") = "NullListener" /\ MissesListener(frame[p])
      /\ UNCHANGED << vars, application, hookClassLoader, pubOwner >>
  BY <1>1, DispatchFacts
<1>3. \/ Advance(p, frame[p])
      \/ Throw(p, frame[p], "NullListener") /\ MissesListener(frame[p])
  BY <1>2 DEF MethodEnter
<1> QED BY <1>2, <1>3, LeaveStage

LEMMA ModifyParameterStep ==
    ASSUME CallsInv, IInv, NEW p \in Caller, ModifyParameter(p)
    PROVE  CallsInv' /\ StageLeft(p)
<1>1. Dispatching(p, "param") /\ "param" \in HookStage
  BY DEF ModifyParameter, HookStage
<1>2. /\ frame[p] \in Frame /\ frame[p].stage # "idle"
      /\ frame[p].route # "missing" =>
            \/ Lookup(frame[p], "param") = "called"
            \/ Lookup(frame[p], "param") = "NullListener" /\ MissesListener(frame[p])
      /\ UNCHANGED << vars, application, hookClassLoader, pubOwner >>
  BY <1>1, DispatchFacts
<1>3. \/ Advance(p, frame[p])
      \/ Throw(p, frame[p], "Unboxing")
      \/ Throw(p, frame[p], "NullListener") /\ MissesListener(frame[p])
  BY <1>2 DEF ModifyParameter, Unbox
<1> QED BY <1>2, <1>3, LeaveStage

LEMMA MethodExitStep ==
    ASSUME CallsInv, IInv, NEW p \in Caller, MethodExit(p)
    PROVE  CallsInv' /\ StageLeft(p)
<1>1. Dispatching(p, "exit") /\ "exit" \in HookStage
  BY DEF MethodExit, HookStage
<1>2. /\ frame[p] \in Frame /\ frame[p].stage # "idle"
      /\ frame[p].route # "missing" =>
            \/ Lookup(frame[p], "exit") = "called"
            \/ Lookup(frame[p], "exit") = "NullListener" /\ MissesListener(frame[p])
      /\ UNCHANGED << vars, application, hookClassLoader, pubOwner >>
  BY <1>1, DispatchFacts
<1>3. \/ Advance(p, frame[p])
      \/ Throw(p, frame[p], "Unboxing")
      \/ Throw(p, frame[p], "NullListener") /\ MissesListener(frame[p])
  BY <1>2 DEF MethodExit, UnboxResult, Unbox
<1> QED BY <1>2, <1>3, LeaveStage

----------------------------------------------------------------------------
\* Nobody is in a method at first.
LEMMA InitCallsInv == CallsInit => CallsInv
<1> SUFFICES ASSUME CallsInit PROVE CallsInv
  OBVIOUS
<1>1. NoFrame \in Frame
  BY DEF NoFrame, Frame
<1>2. CallsTypeOK
  BY <1>1 DEF CallsInit, CallsTypeOK
<1>3. \A p \in Caller : FrameOK(frame[p]) /\ frame[p].thrown # "Assertion"
  BY DEF CallsInit, FrameOK, NoFrame, HookStage
<1> QED BY <1>2, <1>3 DEF CallsInv, NoAssertionError

LEMMA NextCallsInv == CallsInv /\ IInv /\ [CallsNext]_allVars => CallsInv'
<1> SUFFICES ASSUME CallsInv, IInv, [CallsNext]_allVars PROVE CallsInv'
  OBVIOUS
<1>1. CASE Next /\ NativesKnowAgent /\ UNCHANGED callVars
  BY <1>1, LifecycleStep
<1>2. CASE \E p \in Caller, m \in Method : Invoke(p, m)
  BY <1>2, InvokeStep
<1>3. CASE \E p \in Caller : Call(p)
  BY <1>3, BodyStep, ReturnStep, CheckStep, MethodEnterStep, ModifyParameterStep,
     MethodExitStep DEF Call
<1>4. CASE ApplicationCreated \/ UNCHANGED allVars
  <2>1. UNCHANGED << vars, frame, hookClassLoader, pubOwner >> /\ application' \in BOOLEAN
    BY <1>4 DEF ApplicationCreated, allVars, callVars, CallsInv, CallsTypeOK
  <2>2. CallsTypeOK'
    BY <2>1 DEF CallsInv, CallsTypeOK
  <2>3. \A p \in Caller : FrameOK(frame[p])'
    BY <2>1, FrameKept DEF CallsInv
  <2> QED BY <2>1, <2>2, <2>3 DEF CallsInv, NoAssertionError
<1> QED BY <1>1, <1>2, <1>3, <1>4 DEF CallsNext

\* What is known of the invocations holds in every reachable state.
THEOREM CallsInvariance == CallsSpec => []CallsInv
<1>1. CallsInit => CallsInv
  BY InitCallsInv
<1>2. CallsInv /\ IInv /\ [CallsNext]_allVars => CallsInv'
  BY NextCallsInv
<1> QED BY <1>1, <1>2, CallsIInv, PTL DEF CallsSpec

\* handleMethodEnter and its siblings never find the callback gone that
\* checkHooked has seen, whoever unhooks in between.
THEOREM CallbackStaysFound == CallsSpec => []NoAssertionError
<1>1. CallsInv => NoAssertionError
  BY DEF CallsInv
<1> QED BY <1>1, CallsInvariance, PTL

----------------------------------------------------------------------------
\* Invoke and Return write a whole frame.
LEMMA FreshFrame ==
    ASSUME CallsInv, NEW p \in Caller, Return(p) \/ \E m \in Method : Invoke(p, m)
    PROVE  /\ \A q \in Caller : q # p => frame'[q] = frame[q]
           /\ frame'[p].route = "unchecked" /\ frame'[p].thrown = "none"
<1>1. frame \in [Caller -> Frame]
  BY DEF CallsInv, CallsTypeOK
<1>2. CASE Return(p)
  BY <1>1, <1>2 DEF Return, NoFrame
<1>3. CASE \E m \in Method : Invoke(p, m)
  <2>1. PICK m \in Method : Invoke(p, m)
    BY <1>3
  <2> DEFINE i == code[m].id
             open == m \in revived \/ \E t \in Thread : InWindow(t, i)
             b == IF i = NoMethod \/ open THEN NoCallback ELSE sHookers[i]
             g == [NoFrame EXCEPT !.method = m, !.id = i, !.kinds = code[m].kinds,
                                  !.stage = StageAfter(code[m].kinds, "idle"), !.seen = b]
  <2>2. frame' = [frame EXCEPT ![p] = g]
    BY <2>1 DEF Invoke
  <2> HIDE DEF b, i
  <2>3. g.route = "unchecked" /\ g.thrown = "none"
    BY DEF NoFrame
  <2> HIDE DEF g
  <2> QED BY <1>1, <2>2, <2>3
<1> QED BY <1>2, <1>3

\* checkHooked writes the route.
LEMMA CheckFrame ==
    ASSUME CallsInv, NEW p \in Caller, CheckHere(p) \/ CheckElsewhere(p)
    PROVE  /\ \A q \in Caller : q # p => frame'[q] = frame[q]
           /\ frame'[p].thrown = frame[p].thrown
           /\ frame[p].stage \in HookStage
           /\ frame[p].route = "unchecked" /\ frame'[p].route = "elsewhere"
                 /\ CopyOf(frame[p].method) = "app"
              => sHookers[frame[p].id] = NoCallback
<1>1. frame \in [Caller -> Frame]
  BY DEF CallsInv, CallsTypeOK
<1>2. PICK r \in {"here", "elsewhere", "other", "missing"} :
          /\ frame' = [frame EXCEPT ![p].route = r]
          /\ CheckHere(p) /\ r = "elsewhere" /\ CopyOf(frame[p].method) = "app"
             => sHookers[frame[p].id] = NoCallback
  BY DEF CheckHere, CheckElsewhere
<1>3. /\ frame'[p].thrown = frame[p].thrown /\ frame'[p].route = r
      /\ \A q \in Caller : q # p => frame'[q] = frame[q]
  <2>1. frame[p] \in Frame
    BY <1>1
  <2>2. [frame[p] EXCEPT !.route = r].thrown = frame[p].thrown
        /\ [frame[p] EXCEPT !.route = r].route = r
    BY <2>1 DEF Frame
  <2> QED BY <1>1, <1>2, <2>2
<1>4. frame[p].stage \in HookStage /\ (CheckElsewhere(p) => frame[p].route = "elsewhere")
  BY DEF CheckHere, CheckElsewhere
<1> QED BY <1>2, <1>3, <1>4

\* Every step of the composition, as one caller sees it.
LEMMA FrameSteps ==
    ASSUME CallsInv, IInv, [CallsNext]_allVars, NEW p \in Caller
    PROVE  \/ frame'[p] = frame[p]
           \/ frame'[p].route = "unchecked" /\ frame'[p].thrown = "none"
           \/ CheckHere(p) \/ CheckElsewhere(p)
           \/ StageLeft(p)
<1>1. ASSUME NEW q \in Caller, NEW m \in Method, Invoke(q, m)
      PROVE  \/ frame'[p] = frame[p]
             \/ frame'[p].route = "unchecked" /\ frame'[p].thrown = "none"
  BY <1>1, FreshFrame
<1>2. ASSUME NEW q \in Caller, Return(q)
      PROVE  \/ frame'[p] = frame[p]
             \/ frame'[p].route = "unchecked" /\ frame'[p].thrown = "none"
  BY <1>2, FreshFrame
<1>3. ASSUME NEW q \in Caller, CheckHere(q) \/ CheckElsewhere(q)
      PROVE  frame'[p] = frame[p] \/ CheckHere(p) \/ CheckElsewhere(p)
  BY <1>3, CheckFrame
<1>4. ASSUME NEW q \in Caller,
             Body(q) \/ MethodEnter(q) \/ ModifyParameter(q) \/ MethodExit(q)
      PROVE  frame'[p] = frame[p] \/ StageLeft(p)
  <2>1. StageLeft(q)
    BY <1>4, BodyStep, MethodEnterStep, ModifyParameterStep, MethodExitStep
  <2> QED BY <2>1 DEF StageLeft
<1>5. CASE (Next /\ NativesKnowAgent /\ UNCHANGED callVars) \/ ApplicationCreated \/ UNCHANGED allVars
  BY <1>5 DEF callVars, ApplicationCreated, allVars
<1> QED BY <1>1, <1>2, <1>3, <1>4, <1>5 DEF CallsNext, Call

\* A hook that the hooker's own copy of HookBridge does not find is that of a
\* hook() on its way to sHookers.put, or one the runtime refused.
LEMMA MissedStep ==
    ASSUME CallsInv, IInv, [CallsNext]_allVars, NEW p \in Caller,
           frame[p].route = "unchecked", frame'[p].route = "elsewhere",
           CopyOf(frame[p].method) = "app", frame[p].id \notin refused
    PROVE  \E t \in Thread : InWindow(t, frame[p].id)
<1>1. CheckHere(p) \/ CheckElsewhere(p)
  BY FrameSteps DEF StageLeft
<1>2. frame[p].stage \in HookStage /\ sHookers[frame[p].id] = NoCallback
  BY <1>1, CheckFrame
<1>3. FrameOK(frame[p])
  BY DEF CallsInv
<1> QED BY <1>2, <1>3 DEF FrameOK

\* With a complete set of hooks for the callback seen at the start, a listener
\* is missing only in another callback.
LEMMA NullListenerStep ==
    ASSUME CallsInv, IInv, [CallsNext]_allVars, NEW p \in Caller,
           frame[p].thrown = "none", frame'[p].thrown = "NullListener",
           frame[p].id = frame[p].method, frame[p].seen # NoCallback
    PROVE  sHookers[frame[p].id] # frame[p].seen
<1>1. ~CheckHere(p) /\ ~CheckElsewhere(p)
  BY CheckFrame
<1>2. MissesListener(frame[p])
  BY <1>1, FrameSteps DEF StageLeft
<1>3. FrameOK(frame[p])
  BY DEF CallsInv
<1> QED BY <1>2, <1>3 DEF FrameOK, MissesListener

\* checkHooked fails in the hooker's own copy only inside the window of the
\* first hook() of the method, or for a hook the runtime refused.
THEOREM MissedInWindow == CallsSpec => MissedOnlyInWindow
<1>1. CallsInv /\ IInv /\ [CallsNext]_allVars =>
        [\A p \in Caller :
            LET f == frame[p] IN
            /\ f.route = "unchecked" /\ frame'[p].route = "elsewhere"
            /\ CopyOf(f.method) = "app"
            /\ f.id \notin refused
            => \E t \in Thread : InWindow(t, f.id)]_allVars
  BY MissedStep
<1> QED BY <1>1, CallsInvariance, CallsIInv, PTL DEF CallsSpec, MissedOnlyInWindow

\* A null listener is called only when the callback has been replaced since the
\* invocation began, or the invocation began inside the window.
THEOREM NullListenerReplaced == CallsSpec => NullListenerOnlyIfReplaced
<1>1. CallsInv /\ IInv /\ [CallsNext]_allVars =>
        [\A p \in Caller :
            LET f == frame[p] IN
            /\ f.thrown = "none" /\ frame'[p].thrown = "NullListener"
            /\ f.id = f.method
            /\ f.seen # NoCallback
            => sHookers[f.id] # f.seen]_allVars
  BY NullListenerStep
<1> QED BY <1>1, CallsInvariance, CallsIInv, PTL DEF CallsSpec, NullListenerOnlyIfReplaced
=============================================================================
