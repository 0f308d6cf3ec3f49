---------------------------- MODULE HookedCalls ----------------------------
(***************************************************************************)
(* Invocations of hooked methods, while hooks come and go.                 *)
(*                                                                         *)
(* A thread that invokes a method runs the bytecode the method has at that *)
(* moment, to the end, whatever happens to the class meanwhile.  Each      *)
(* woven hook calls HookBridge, which finds out whether the jmethodID is    *)
(* known (checkHooked) and then dispatches to Jtik.handleMethod..., which  *)
(* looks the callback up again.  A method of a boot class path class calls *)
(* the copy of HookBridge that the boot class loader defines: the copy's own  *)
(* sHookers is empty and it reaches the hooker's Jtik by reflection, once  *)
(* it has loaded the public copy of the native library.  When the hooker's  *)
(* own copy loads it, that Jtik gets the natives of the public copy, which *)
(* do not know the agent.                                                  *)
(*                                                                         *)
(* Abstractions.  A method has at most one modified parameter.  Of the     *)
(* values that hooks return only those matter that make the caller's cast  *)
(* throw.                                                                  *)
(***************************************************************************)
EXTENDS HookLifecycle

CONSTANTS
    Caller,          \* threads that invoke methods
    BootClass,       \* classes whose HookBridge is the boot loader's copy
    PubCopied,       \* init() has copied the native library (Jtik.java 52-58)
    HookerLoader,    \* whether getHookerClassLoader() may find the loader
    Static,          \* static methods
    ReturnType,      \* [Method -> {"void", "boolean", "primitive", "object"}]
    PrimitiveParam   \* methods whose modified parameter is primitive

ASSUME CallsAssumption ==
    /\ BootClass \subseteq Class
    /\ PubCopied \in BOOLEAN
    /\ HookerLoader \in SUBSET BOOLEAN \ {{}}
    /\ Static \subseteq Method
    /\ PrimitiveParam \subseteq Method
    /\ ReturnType \in [Method -> {"void", "boolean", "primitive", "object"}]

VARIABLES
    frame,            \* the invocation each caller is in
    application,      \* ActivityThread.currentApplication() is set
    hookClassLoader,  \* HookBridge.hookClassLoader is set, in each copy
    pubOwner          \* the copy whose class loader loaded the pub library

callVars == << frame, application, hookClassLoader, pubOwner >>
allVars == << vars, callVars >>

Copy == {"app", "boot"}
HookStage == {"param", "enter", "exit"}

Frame ==
    [method : Method \cup {NoMethod},     \* the method invoked
     id     : Method \cup {NoMethod},     \* jmethodID its hooks pass
     kinds  : SUBSET Kind,                \* hooks in the bytecode it runs
     stage  : HookStage \cup {"idle", "body", "done"},
     route  : {"unchecked", "elsewhere", "here", "other", "missing"},
     thrown : {"none", "Assertion", "NullListener", "Unboxing", "Body"},
     seen   : Callback \cup {NoCallback}] \* callback its hooks were woven for

NoFrame ==
    [method |-> NoMethod, id |-> NoMethod, kinds |-> {}, stage |-> "idle",
     route |-> "unchecked", thrown |-> "none", seen |-> NoCallback]

CallsTypeOK ==
    /\ frame \in [Caller -> Frame]
    /\ application \in BOOLEAN
    /\ hookClassLoader \in [Copy -> BOOLEAN]
    /\ pubOwner \in Copy \cup {"none"}

CallsInit ==
    /\ Init
    /\ frame = [p \in Caller |-> NoFrame]
    /\ application = FALSE
    /\ hookClassLoader = [x \in Copy |-> FALSE]
    /\ pubOwner = "none"

----------------------------------------------------------------------------
(* The order of the hooks in a woven method: HookTransform::Apply inserts  *)
(* the parameter modifier, then the entry hook, each before the first      *)
(* bytecode of what is there, so that the entry hook runs first.           *)

\* A variant that always ends with an exit hook.
StageAfterToExit(kinds, s) ==
    CASE s = "idle" /\ "enter" \in kinds              -> "enter"
      [] s \in {"idle", "enter"} /\ "param" \in kinds
            /\ (s = "enter" \/ "enter" \notin kinds)  -> "param"
      [] s = "body"  -> "exit"
      [] s = "exit"  -> "done"
      [] OTHER       -> "body"

StageAfter(kinds, s) ==
    CASE s = "idle" /\ "enter" \in kinds              -> "enter"
      [] s \in {"idle", "enter"} /\ "param" \in kinds
            /\ (s = "enter" \/ "enter" \notin kinds)  -> "param"
      [] s = "body"  -> IF "exit" \in kinds THEN "exit" ELSE "done"
      [] s = "exit"  -> "done"
      [] OTHER       -> "body"

\* Go on to the next stage.
Advance(p, f) ==
    frame' = [frame EXCEPT ![p] =
                [f EXCEPT !.stage = StageAfter(f.kinds, f.stage),
                          !.route = "unchecked"]]

\* An exception leaves the method; its remaining hooks do not run.
Throw(p, f, e) ==
    frame' = [frame EXCEPT ![p] =
                [f EXCEPT !.stage = "done", !.thrown = e, !.route = "unchecked"]]

\* seen is the registered callback, unless a hook() is in its window or the
\* hooks are not those the last hook() has woven.
Invoke(p, m) ==
    LET i == code[m].id
        open == m \in revived \/ \E t \in Thread : InWindow(t, i)
    IN
    /\ frame[p].stage = "idle"
    /\ ClassOf[m] \in loaded
    /\ frame' = [frame EXCEPT ![p] =
            [NoFrame EXCEPT !.method = m, !.id = i, !.kinds = code[m].kinds,
                            !.stage = StageAfter(code[m].kinds, "idle"),
                            !.seen = IF i = NoMethod \/ open THEN NoCallback
                                     ELSE sHookers[i]]]
    /\ UNCHANGED << vars, application, hookClassLoader, pubOwner >>

\* The method's own code: it returns, or throws past its exit hook.
Body(p) ==
    /\ frame[p].stage = "body"
    /\ Advance(p, frame[p]) \/ Throw(p, frame[p], "Body")
    /\ UNCHANGED << vars, application, hookClassLoader, pubOwner >>

Return(p) ==
    /\ frame[p].stage = "done"
    /\ frame' = [frame EXCEPT ![p] = NoFrame]
    /\ UNCHANGED << vars, application, hookClassLoader, pubOwner >>

----------------------------------------------------------------------------
(* HookBridge.checkHooked                                                  *)

CopyOf(m) == IF ClassOf[m] \in BootClass THEN "boot" ELSE "app"

\* Jtik.hasHooked, in this copy's Jtik.
CheckHere(p) ==
    LET f == frame[p] IN
    /\ f.stage \in HookStage
    /\ f.route = "unchecked"
    /\ frame' = [frame EXCEPT ![p].route =
            IF CopyOf(f.method) = "app" /\ sHookers[f.id] # NoCallback
            THEN "here" ELSE "elsewhere"]
    /\ UNCHANGED << vars, application, hookClassLoader, pubOwner >>

\* Utils.getCurrentApplication and System.load succeed.  ART binds a library
\* path to the class loader that first loads it and refuses any other.
CanLoad(x) == application /\ PubCopied /\ pubOwner \in {"none", x}

\* A variant that waits until the library can be loaded.
CheckElsewhereWaiting(p) ==
    LET f == frame[p]
        x == CopyOf(f.method)
    IN
    /\ f.stage \in HookStage
    /\ f.route = "elsewhere"
    /\ hookClassLoader[x] \/ CanLoad(x)
    /\ hookClassLoader' = [hookClassLoader EXCEPT ![x] = TRUE]
    /\ pubOwner' = IF hookClassLoader[x] THEN pubOwner ELSE x
    /\ frame' = [frame EXCEPT ![p].route =
            IF sHookers[f.id] # NoCallback THEN "other" ELSE "missing"]
    /\ UNCHANGED << vars, application >>

\* hasHooked of the hooker's Jtik, by reflection, once hookClassLoader is set.
\* getHookerClassLoader() returns null if the agent is not found, or has no
\* loader.
CheckElsewhere(p) ==
    LET f == frame[p]
        x == CopyOf(f.method)
        loads == ~hookClassLoader[x] /\ CanLoad(x)
    IN
    /\ f.stage \in HookStage
    /\ f.route = "elsewhere"
    /\ pubOwner' = IF loads THEN x ELSE pubOwner
    /\ \E found \in HookerLoader :
          LET reached == hookClassLoader[x] \/ (loads /\ found) IN
          /\ hookClassLoader' = [hookClassLoader EXCEPT ![x] = reached]
          /\ frame' = [frame EXCEPT ![p].route =
                IF reached /\ sHookers[f.id] # NoCallback THEN "other" ELSE "missing"]
    /\ UNCHANGED << vars, application >>

----------------------------------------------------------------------------
(* HookBridge.onMethodEnter, onModifyParameter, onMethodExit: dispatch to  *)
(* Jtik.handleMethod..., here or by reflection in the hooker's Jtik.       *)

\* How Jtik.handleMethod... ends for a hook of kind k.
Lookup(f, k) ==
    IF sHookers[f.id] = NoCallback THEN "Assertion"
    ELSE IF k \notin Listeners[sHookers[f.id]] THEN "NullListener"
    ELSE "called"

Dispatching(p, s) ==
    /\ frame[p].stage = s
    /\ frame[p].route \in {"here", "other", "missing"}
    /\ UNCHANGED << vars, application, hookClassLoader, pubOwner >>

\* onMethodEnter.  The reflective path swallows whatever is thrown.
MethodEnter(p) ==
    LET f == frame[p]  r == Lookup(f, "enter") IN
    /\ Dispatching(p, "enter")
    /\ IF f.route = "here" /\ r # "called" THEN Throw(p, f, r) ELSE Advance(p, f)

\* What the bridge got is null, and it casts it to the type of the parameter
\* or result.
Unbox(p, f, primitive) ==
    IF primitive THEN Throw(p, f, "Unboxing") ELSE Advance(p, f)

\* onModifyParameter: what the listener returns replaces the argument, or a
\* default value where no callback is known.  Reflection that fails returns null.
ModifyParameter(p) ==
    LET f == frame[p]  r == Lookup(f, "param") IN
    /\ Dispatching(p, "param")
    /\ \/ (f.route = "missing" \/ r = "called") /\ Advance(p, f)
       \/ f.route = "here" /\ r # "called" /\ Throw(p, f, r)
       \/ /\ f.route = "other" /\ r # "called"
          /\ Unbox(p, f, f.method \in PrimitiveParam)

UnboxResult(p, f) == Unbox(p, f, ReturnType[f.method] \in {"boolean", "primitive"})

\* onMethodExit of boolean passes null (HookBridge.java 236, 238), every other
\* overload of a primitive type its orgReturn.
PassesNull(f) == ReturnType[f.method] = "boolean" /\ f.method \notin Static

\* onMethodExit, onStaticMethodExit.  The listener returns the value it was
\* given or another.
MethodExit(p) ==
    LET f == frame[p]  r == Lookup(f, "exit") IN
    /\ Dispatching(p, "exit")
    /\ \/ (f.route = "missing" \/ r = "called") /\ Advance(p, f)
       \/ f.route # "missing" /\ r = "called" /\ PassesNull(f) /\ UnboxResult(p, f)
       \/ f.route = "here" /\ r # "called" /\ Throw(p, f, r)
       \/ f.route = "other" /\ r # "called" /\ UnboxResult(p, f)

----------------------------------------------------------------------------
\* The application object comes into being after the first calls.
ApplicationCreated ==
    /\ ~application
    /\ application' = TRUE
    /\ UNCHANGED << vars, frame, hookClassLoader, pubOwner >>

Call(p) ==
    \/ Body(p) \/ Return(p)
    \/ CheckHere(p) \/ CheckElsewhere(p)
    \/ ModifyParameter(p) \/ MethodEnter(p) \/ MethodExit(p)

\* JNI_OnLoad of the public copy registers its natives with the Jtik of the
\* loader that loads it.  It has no agent path, so that hook() and unHook() of
\* the hooker's Jtik return at once from then on.
NativesKnowAgent ==
    pubOwner = "app" => \A t \in Thread : pc[t] = "idle" => pc'[t] = "idle"

CallsNext ==
    \/ Next /\ NativesKnowAgent /\ UNCHANGED callVars
    \/ \E p \in Caller, m \in Method : Invoke(p, m)
    \/ \E p \in Caller : Call(p)
    \/ ApplicationCreated

CallsSpec == CallsInit /\ [][CallsNext]_allVars

\* A caller inside a method runs on.
CallsFairSpec == CallsSpec /\ \A p \in Caller : WF_allVars(Call(p))

----------------------------------------------------------------------------
(* Properties                                                              *)

\* Jtik.handleMethod... finds the callback that checkHooked has just seen,
\* although the two look it up separately and an unHook() may come between
\* (Jtik.java 106-128): the AssertionError is never thrown.
NoAssertionError ==
    \A p \in Caller : frame[p].thrown # "Assertion"

\* hasHooked fails in the hooker's own copy of HookBridge only inside the
\* window of the first hook() of the method: an invocation that runs on
\* after unHook still finds its callback.
MissedOnlyInWindow ==
    [][\A p \in Caller :
          LET f == frame[p] IN
          /\ f.route = "unchecked" /\ frame'[p].route = "elsewhere"
          /\ CopyOf(f.method) = "app"
          /\ f.id \notin refused
          => \E t \in Thread : InWindow(t, f.id)]_allVars

\* A hook calls a listener that the callback lacks (NullPointerException in
\* the application's method) only if the callback was replaced after the
\* invocation began, or the invocation began inside the window, or with hooks
\* that another agent's retransformation had brought back.
NullListenerOnlyIfReplaced ==
    [][\A p \in Caller :
          LET f == frame[p] IN
          /\ f.thrown = "none" /\ frame'[p].thrown = "NullListener"
          /\ f.id = f.method
          /\ f.seen # NoCallback
          => sHookers[f.id] # f.seen]_allVars

\* README.md: Jtik "is capable of hooking both the application itself and
\* system Java methods", for which HookBridge loads the public copy of the
\* library.  Once the application exists, the copy is there and the agent has
\* the hooker's loader, a hook of a boot class reaches the registered callback.
\* It does not hold: the hooker's own copy of HookBridge may have loaded the
\* library before.
SystemHooksReachCallback ==
    [][\A p \in Caller :
          LET f == frame[p] IN
          /\ f.route = "elsewhere" /\ frame'[p].route = "missing"
          /\ CopyOf(f.method) = "boot"
          /\ application /\ PubCopied /\ HookerLoader = {TRUE}
          => sHookers[f.id] = NoCallback]_allVars

\* What is known of an invocation f, wherever it is.  The hooks it runs pass a
\* jmethodID that is registered, or is about to be; a hook that checkHooked has
\* let through keeps its callback; the kinds of hooks are those of the callback
\* that was registered when the invocation began.
FrameOK(f) ==
    /\ f.stage # "idle" => f.method \in Method
    /\ f.stage \in HookStage => f.stage \in f.kinds
    /\ f.kinds # {} =>
          /\ f.id \in Method
          /\ \/ f.id \in refused
             \/ sHookers[f.id] # NoCallback
             \/ \E t \in Thread : InWindow(t, f.id)
    /\ f.route # "unchecked" => f.stage \in HookStage
    /\ f.route \in {"here", "other"} => sHookers[f.id] # NoCallback
    /\ f.seen # NoCallback /\ f.id = f.method => f.kinds = Listeners[f.seen]

\* The inductive invariant behind the properties of the invocations, next to
\* IInv for the hooks.
CallsInv ==
    /\ CallsTypeOK
    /\ \A p \in Caller : FrameOK(frame[p])
    /\ NoAssertionError

\* Every invocation of a hooked method ends, whatever the threads that hook
\* and unhook it do: no dispatch waits for a hook() in progress.
CallsEnd ==
    \A p \in Caller : frame[p].stage # "idle" ~> frame[p].stage = "idle"
=============================================================================
