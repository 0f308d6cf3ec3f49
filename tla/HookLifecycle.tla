--------------------------- MODULE HookLifecycle ---------------------------
(***************************************************************************)
(* Installing and removing method hooks.                                   *)
(*                                                                         *)
(* Threads call Jtik.hook and Jtik.unHook (Jtik.java), two static          *)
(* synchronized methods.  Each builds the calling thread's                 *)
(* current_transform and asks JVMTI to retransform one class               *)
(* (jtik_agent.cc).  The runtime hands the ORIGINAL class file to          *)
(* HookClassFileLoadHook, on the thread that retransforms or loads the     *)
(* class, and installs what that hook returns.  After the class has been   *)
(* retransformed hook() enters the callback in sHookers.                   *)
(*                                                                         *)
(* Abstractions.  The bytecode of a method is the set of hook kinds woven  *)
(* into it and the jmethodID these hooks pass to HookBridge.               *)
(* RetransformClasses is one step, which may fail at any time (an image    *)
(* that does not verify, an unmodifiable class, no memory).  Calls that    *)
(* fail before they change anything (null callback, not initialised, no    *)
(* such method) are stuttering steps.                                      *)
(***************************************************************************)
EXTENDS Integers, FiniteSets

CONSTANTS
    Thread,          \* threads of the process that may call hook and unHook
    ForeignThread,   \* threads on which another JVMTI agent retransforms classes
    Class,           \* classes, one per defining class loader
    Method,          \* Java methods, i.e. jmethodIDs
    Callback,        \* MethodHook objects
    ClassOf,         \* [Method -> Class]  declaring class
    ClassName,       \* [Class -> name]    two loaders may define the same name
    Sig,             \* [Method -> name and signature]
    Listeners,       \* [Callback -> SUBSET Kind]  listeners the callback has
    HasCode,         \* methods with bytecode that the transforms can weave
    NoThread, NoMethod, NoCallback, NoName

\* MethodHooks::HookType
Kind == {"param", "enter", "exit"}

ASSUME ClassOfAssumption == ClassOf \in [Method -> Class]
ASSUME ListenersAssumption == Listeners \in [Callback -> SUBSET Kind]
ASSUME SetsAssumption == HasCode \subseteq Method
ASSUME NullsAssumption ==
    /\ NoThread \notin Thread \cup ForeignThread
    /\ NoMethod \notin Method
    /\ NoCallback \notin Callback
    /\ \A c \in Class : ClassName[c] # NoName
\* The name and signature of a method are unique within its class.
ASSUME SigAssumption ==
    \A m, n \in Method : ClassOf[m] = ClassOf[n] /\ Sig[m] = Sig[n] => m = n

VARIABLES
    lock,               \* owner of the monitor of Jtik.class
    pc,                 \* where each thread is in hook() or unHook()
    target,             \* the method each thread's call, or its last, is about
    callback,           \* the callback of that call, NoCallback in unHook
    current_transform,  \* thread_local HookTransform of jtik_agent.cc
    loaded,             \* classes the runtime has loaded
    code,               \* what is woven into each method of a loaded class
    sHookers,           \* Jtik.sHookers
    unhookers,          \* methods for which hook() has returned an UnHooker
    refused,            \* methods whose hook() the runtime has refused
    revived             \* methods with hooks that no hook() has just woven

\* refused and revived, and target and callback of a thread that is idle,
\* record the past for the properties: no step depends on them.
history == << refused, revived >>

vars == << lock, pc, target, callback, current_transform, loaded, code,
           sHookers, unhookers, refused, revived >>

AnyThread == Thread \cup ForeignThread

Names == {ClassName[c] : c \in Class}

\* id = NoMethod: the transform has no MethodHooks, as unHook builds it.
Transform == [class : Names \cup {NoName}, id : Method \cup {NoMethod},
              kinds : SUBSET Kind]

NullTransform == [class |-> NoName, id |-> NoMethod, kinds |-> {}]

Original == [id |-> NoMethod, kinds |-> {}]

TypeOK ==
    /\ lock \in Thread \cup {NoThread}
    /\ pc \in [Thread -> {"idle", "retransform", "put"}]
    /\ target \in [Thread -> Method \cup {NoMethod}]
    /\ callback \in [Thread -> Callback \cup {NoCallback}]
    /\ current_transform \in [AnyThread -> Transform]
    /\ loaded \subseteq Class
    /\ code \in [Method -> [id : Method \cup {NoMethod}, kinds : SUBSET Kind]]
    /\ sHookers \in [Method -> Callback \cup {NoCallback}]
    /\ unhookers \subseteq Method
    /\ refused \subseteq Method
    /\ revived \subseteq Method

Init ==
    /\ lock = NoThread
    /\ pc = [t \in Thread |-> "idle"]
    /\ target = [t \in Thread |-> NoMethod]
    /\ callback = [t \in Thread |-> NoCallback]
    /\ current_transform = [t \in AnyThread |-> NullTransform]
    /\ loaded = {}
    /\ code = [m \in Method |-> Original]
    /\ sHookers = [m \in Method |-> NoCallback]
    /\ unhookers = {}
    /\ refused = {}
    /\ revived = {}

----------------------------------------------------------------------------
(* What HookClassFileLoadHook makes of a class file.                       *)

\* HookTransform::Apply weaves the method that has the name and signature of
\* the hooked one; MethodInstrumenter skips a method without code.
Weaves(tr, m) ==
    /\ tr.class = ClassName[ClassOf[m]]
    /\ tr.id # NoMethod
    /\ tr.kinds # {}
    /\ Sig[m] = Sig[tr.id]
    /\ m \in HasCode

\* The class file of c comes back from HookClassFileLoadHook on thread t.  It
\* starts from the original class file: all methods but the woven one are
\* as compiled.
ClassFile(t, c) ==
    [m \in Method |->
        IF ClassOf[m] # c THEN code[m]
        ELSE IF Weaves(current_transform[t], m)
             THEN [id    |-> current_transform[t].id,
                   kinds |-> current_transform[t].kinds]
             ELSE Original]

\* Hooks of class c that t has not been asked to weave now.
Reviving(t, c) ==
    {m \in Method : IF ClassOf[m] = c THEN Weaves(current_transform[t], m)
                    ELSE m \in revived}

\* Hooks of other classes: c has been retransformed by a hook() or unHook().
StillRevived(c) == {m \in revived : ClassOf[m] # c}

----------------------------------------------------------------------------
(* Jtik.hook                                                               *)

\* A variant of hook() that is not synchronized.
HookBeginUnlocked(t, m, b) ==
    /\ pc[t] = "idle"
    /\ ClassOf[m] \in loaded
    /\ lock' = t
    /\ pc' = [pc EXCEPT ![t] = "retransform"]
    /\ target' = [target EXCEPT ![t] = m]
    /\ callback' = [callback EXCEPT ![t] = b]
    /\ current_transform' = [current_transform EXCEPT ![t] =
            [class |-> ClassName[ClassOf[m]], id |-> m, kinds |-> Listeners[b]]]
    /\ UNCHANGED << loaded, code, sHookers, unhookers, history >>

\* A variant that weaves every kind of hook.
HookBeginAllKinds(t, m, b) ==
    /\ pc[t] = "idle"
    /\ lock = NoThread
    /\ ClassOf[m] \in loaded
    /\ lock' = t
    /\ pc' = [pc EXCEPT ![t] = "retransform"]
    /\ target' = [target EXCEPT ![t] = m]
    /\ callback' = [callback EXCEPT ![t] = b]
    /\ current_transform' = [current_transform EXCEPT ![t] =
            [class |-> ClassName[ClassOf[m]], id |-> m, kinds |-> Kind]]
    /\ UNCHANGED << loaded, code, sHookers, unhookers, history >>

\* Take the monitor, read the listeners of the callback, replace the
\* thread's transform.
HookBegin(t, m, b) ==
    /\ pc[t] = "idle"
    /\ lock = NoThread
    /\ ClassOf[m] \in loaded
    /\ lock' = t
    /\ pc' = [pc EXCEPT ![t] = "retransform"]
    /\ target' = [target EXCEPT ![t] = m]
    /\ callback' = [callback EXCEPT ![t] = b]
    /\ current_transform' = [current_transform EXCEPT ![t] =
            [class |-> ClassName[ClassOf[m]], id |-> m, kinds |-> Listeners[b]]]
    /\ UNCHANGED << loaded, code, sHookers, unhookers, history >>

\* The call returns and leaves the monitor.
Leave(t) ==
    /\ lock' = NoThread
    /\ pc' = [pc EXCEPT ![t] = "idle"]
    /\ UNCHANGED << target, callback >>

\* RetransformClasses succeeds: hook() goes on to register the callback.
HookRetransform(t) ==
    LET c == ClassOf[target[t]] IN
    /\ pc[t] = "retransform"
    /\ callback[t] # NoCallback
    /\ code' = ClassFile(t, c)
    /\ revived' = StillRevived(c)
    /\ pc' = [pc EXCEPT ![t] = "put"]
    /\ UNCHANGED << lock, target, callback, current_transform, loaded,
                    sHookers, unhookers, refused >>

\* RetransformClasses fails and leaves the class as it is: hook() returns
\* null.  The thread keeps the transform.
HookFail(t) ==
    /\ pc[t] = "retransform"
    /\ callback[t] # NoCallback
    /\ refused' = refused \cup {target[t]}
    /\ Leave(t)
    /\ UNCHANGED << current_transform, loaded, code, sHookers, unhookers, revived >>

\* sHookers.put, and the UnHooker is returned.
HookPut(t) ==
    /\ pc[t] = "put"
    /\ sHookers' = [sHookers EXCEPT ![target[t]] = callback[t]]
    /\ unhookers' = unhookers \cup {target[t]}
    /\ Leave(t)
    /\ UNCHANGED << current_transform, loaded, code, history >>

----------------------------------------------------------------------------
(* Jtik.unHook, with an UnHooker that some hook() returned; it may be used *)
(* any number of times.                                                    *)

\* A variant that retransforms with the transform the thread has.
UnHookBeginStale(t, m) ==
    /\ pc[t] = "idle"
    /\ lock = NoThread
    /\ m \in unhookers
    /\ lock' = t
    /\ pc' = [pc EXCEPT ![t] = "retransform"]
    /\ target' = [target EXCEPT ![t] = m]
    /\ callback' = [callback EXCEPT ![t] = NoCallback]
    /\ UNCHANGED << current_transform, loaded, code, sHookers, unhookers, history >>

UnHookBegin(t, m) ==
    /\ pc[t] = "idle"
    /\ lock = NoThread
    /\ m \in unhookers
    /\ lock' = t
    /\ pc' = [pc EXCEPT ![t] = "retransform"]
    /\ target' = [target EXCEPT ![t] = m]
    /\ callback' = [callback EXCEPT ![t] = NoCallback]
    /\ current_transform' = [current_transform EXCEPT ![t] =
            [class |-> ClassName[ClassOf[m]], id |-> NoMethod, kinds |-> {}]]
    /\ UNCHANGED << loaded, code, sHookers, unhookers, history >>

\* A variant that drops the callback of the unhooked method.
UnHookRetransformAndForget(t) ==
    LET c == ClassOf[target[t]] IN
    /\ pc[t] = "retransform"
    /\ callback[t] = NoCallback
    /\ code' = ClassFile(t, c)
    /\ revived' = StillRevived(c)
    /\ sHookers' = [sHookers EXCEPT ![target[t]] = NoCallback]
    /\ Leave(t)
    /\ UNCHANGED << current_transform, loaded, unhookers, refused >>

\* The class is retransformed; sHookers keeps its entry.
UnHookRetransform(t) ==
    LET c == ClassOf[target[t]] IN
    /\ pc[t] = "retransform"
    /\ callback[t] = NoCallback
    /\ code' = ClassFile(t, c)
    /\ revived' = StillRevived(c)
    /\ Leave(t)
    /\ UNCHANGED << current_transform, loaded, sHookers, unhookers, refused >>

\* RetransformClasses fails: unHook() returns false, the hooks stay in place,
\* and the thread has the empty transform.
UnHookFail(t) ==
    /\ pc[t] = "retransform"
    /\ callback[t] = NoCallback
    /\ Leave(t)
    /\ UNCHANGED << current_transform, loaded, code, sHookers, unhookers, history >>

----------------------------------------------------------------------------
(* HookClassFileLoadHook outside hook() and unHook(): the event fires for  *)
(* every class load, and for every retransformation by another agent, on   *)
(* whatever thread that is.  A thread inside hook() or unHook() loads none *)
(* but Jtik's own classes.                                                 *)

LoadClass(t, c) ==
    /\ t \in Thread => pc[t] = "idle"
    /\ c \notin loaded
    /\ loaded' = loaded \cup {c}
    /\ code' = ClassFile(t, c)
    /\ revived' = Reviving(t, c)
    /\ UNCHANGED << lock, pc, target, callback, current_transform, sHookers,
                    unhookers, refused >>

ForeignRetransform(t, c) ==
    /\ t \in Thread => pc[t] = "idle"
    /\ c \in loaded
    /\ code' = ClassFile(t, c)
    /\ revived' = Reviving(t, c)
    /\ UNCHANGED << lock, pc, target, callback, current_transform, loaded,
                    sHookers, unhookers, refused >>

----------------------------------------------------------------------------
Hook(t) ==
    \/ \E m \in Method, b \in Callback : HookBegin(t, m, b)
    \/ HookRetransform(t)
    \/ HookFail(t)
    \/ HookPut(t)

UnHook(t) ==
    \/ \E m \in Method : UnHookBegin(t, m)
    \/ UnHookRetransform(t)
    \/ UnHookFail(t)

Runtime ==
    \/ \E t \in AnyThread, c \in Class : LoadClass(t, c)
    \/ \E t \in ForeignThread, c \in Class : ForeignRetransform(t, c)

Next == (\E t \in Thread : Hook(t) \/ UnHook(t)) \/ Runtime

Spec == Init /\ [][Next]_vars

----------------------------------------------------------------------------
(* Properties                                                              *)

Woven(m) == code[m].kinds # {}

\* Thread t has retransformed the class of i and not yet registered the
\* callback: the window between doHookTransform and sHookers.put.
InWindow(t, i) == pc[t] = "put" /\ target[t] = i

\* A woven hook finds a callback in sHookers, except for a hook() that is
\* between the retransformation and sHookers.put (Jtik.java 90-95).  A hook
\* the runtime refused is left out: its transform stays on the thread and
\* may be woven later, with no callback at all, by the load of a class of the
\* same name or by another agent's retransformation on that thread.
WovenIsRegistered ==
    \A m \in Method :
        Woven(m) /\ code[m].id \notin refused =>
            /\ code[m].id \in Method
            /\ \/ sHookers[code[m].id] # NoCallback
               \/ \E t \in Thread : InWindow(t, code[m].id)

\* The hooks woven into a method are those the registered callback has
\* listeners for, outside the window: the monitor of Jtik.class keeps the
\* retransformation and the put of one hook() together.  Otherwise
\* handleMethodEnter and its siblings would call a null listener.  Hooks that
\* another agent's retransformation has brought back are left out: they may
\* be those of a callback replaced since (jtik_agent.cc 80-83).
KindsMatchCallback ==
    \A m \in Method :
        code[m].id = m /\ m \notin revived /\ (\A t \in Thread : ~InWindow(t, m)) =>
            /\ sHookers[m] # NoCallback
            /\ code[m].kinds = Listeners[sHookers[m]]

\* Whatever gets woven into a method, in a hook(), a class load or another
\* agent's retransformation, is what some thread has asked for in its call of
\* hook(), or in its last one: the method of the same name in a class of the
\* same name, with that callback's listeners.  A thread that has called
\* unHook() since, or hook() for something else, never brings hooks back,
\* also when the runtime refused that call.  Hooks that unHook() removed on one
\* thread do come back from the transform of another that hooked the method.
WovenAsLastAsked ==
    [][\A m \in Method :
          Woven(m)' /\ code'[m] # code[m] =>
              \E t \in Thread :
                  /\ callback[t] # NoCallback
                  /\ ClassName[ClassOf[target[t]]] = ClassName[ClassOf[m]]
                  /\ Sig[target[t]] = Sig[m]
                  /\ code'[m] = [id    |-> target[t],
                                 kinds |-> Listeners[callback[t]]]]_vars

----------------------------------------------------------------------------
(* Refinement                                                              *)

WovenHooks ==
    {[method |-> m, id |-> code[m].id, kinds |-> code[m].kinds] :
        m \in {n \in Method : Woven(n)}}

Windows ==
    {[method |-> target[t], callback |-> callback[t]] :
        t \in {u \in Thread : pc[u] = "put"}}

Slots == INSTANCE HookSlots
            WITH woven <- WovenHooks, window <- Windows, registered <- sHookers

\* With any number of threads, and transforms left over on them, hook() and
\* unHook() are what HookSlots says: one hook at a time from the
\* retransformation to the registration, one method to a class, so that a hook()
\* evicts the hooks of every other method of the class, and nothing else that
\* weaves but what a transform left over brings back.
ImplementsSlots == Slots!SlotsSpec

----------------------------------------------------------------------------
(* The inductive invariant behind these properties.                        *)

\* A thread inside hook() or unHook() owns the monitor.
Mutex == \A t \in Thread : pc[t] # "idle" => lock = t

\* A thread's transform is that of its call, or of its last one: about the
\* target, with the listeners of the callback, or without hooks after unHook().
CallTransform ==
    \A t \in Thread :
        /\ target[t] = NoMethod =>
              /\ pc[t] = "idle" /\ callback[t] = NoCallback
              /\ current_transform[t].id = NoMethod
        /\ target[t] # NoMethod =>
              /\ ClassOf[target[t]] \in loaded
              /\ IF callback[t] = NoCallback
                 THEN pc[t] # "put" /\ current_transform[t].id = NoMethod
                 ELSE /\ current_transform[t].class = ClassName[ClassOf[target[t]]]
                      /\ current_transform[t].id = target[t]
                      /\ current_transform[t].kinds = Listeners[callback[t]]

\* A transform that outlives its call is about a registered method, unless
\* the runtime refused it.
LeftoverTransform ==
    /\ \A t \in Thread :
          pc[t] = "idle" /\ callback[t] # NoCallback =>
              \/ target[t] \in refused
              \/ sHookers[target[t]] # NoCallback
    /\ \A t \in ForeignThread \ Thread : current_transform[t].id = NoMethod

\* An UnHooker is for a method of a loaded class.
UnHookerLoaded == \A m \in unhookers : ClassOf[m] \in loaded

\* What is woven and not registered yet is what the hook() in its window
\* will register.
WindowKinds ==
    \A t \in Thread, m \in Method :
        InWindow(t, m) /\ code[m].id = m /\ m \notin revived =>
            code[m].kinds = Listeners[callback[t]]

\* Every part of the induction: the properties above hold in every reachable
\* state because together with these they survive each step.
IInv ==
    /\ TypeOK
    /\ Mutex
    /\ CallTransform
    /\ LeftoverTransform
    /\ UnHookerLoaded
    /\ WindowKinds
    /\ WovenIsRegistered
    /\ KindsMatchCallback
=============================================================================
