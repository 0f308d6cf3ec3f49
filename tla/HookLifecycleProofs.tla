------------------------- MODULE HookLifecycleProofs -------------------------
(***************************************************************************)
(* Proofs about HookLifecycle, for any number of threads, classes, methods *)
(* and callbacks.                                                          *)
(*                                                                         *)
(* Types come first, action by action.  Then each action is shown to keep  *)
(* the inductive invariant IInv, conjunct by conjunct; what a              *)
(* retransformation does to the methods of a class is in the lemmas about  *)
(* ClassFile.  The last lemmas are about single steps, for the action      *)
(* property.                                                               *)
(***************************************************************************)
EXTENDS HookLifecycle, TLAPS

Code == [id : Method \cup {NoMethod}, kinds : SUBSET Kind]

\* The image of a class that HookClassFileLoadHook makes is well formed: each
\* method is as compiled, as it was, or has the hooks of the transform.
LEMMA ClassFileType ==
    ASSUME TypeOK, NEW t \in AnyThread, NEW c
    PROVE  ClassFile(t, c) \in [Method -> Code]
<1> SUFFICES ASSUME NEW m \in Method
             PROVE  ClassFile(t, c)[m] \in Code
  BY DEF ClassFile
<1>1. current_transform[t] \in Transform
  BY DEF TypeOK
<1>2. [id |-> current_transform[t].id, kinds |-> current_transform[t].kinds] \in Code
  BY <1>1 DEF Transform, Code
<1>3. Original \in Code
  BY DEF Original, Code
<1>4. code[m] \in Code
  BY DEF TypeOK, Code
<1> QED
  BY <1>2, <1>3, <1>4 DEF ClassFile

\* A retransformation of c leaves the methods of other classes alone.
LEMMA ClassFileElsewhere ==
    ASSUME NEW t, NEW c, NEW m \in Method, ClassOf[m] # c
    PROVE  ClassFile(t, c)[m] = code[m]
BY DEF ClassFile

\* In class c itself a method has the hooks of the transform or none.
LEMMA ClassFileHere ==
    ASSUME NEW t, NEW c, NEW m \in Method, ClassOf[m] = c
    PROVE  ClassFile(t, c)[m] =
              IF Weaves(current_transform[t], m)
              THEN [id    |-> current_transform[t].id,
                    kinds |-> current_transform[t].kinds]
              ELSE Original
BY DEF ClassFile

\* A transform without MethodHooks, as unHook() builds it, weaves nothing.
LEMMA NoHooksNoWeave ==
    ASSUME NEW tr, NEW m, tr.id = NoMethod
    PROVE  ~Weaves(tr, m)
BY DEF Weaves

\* A transform weaves at most one method of each class.
LEMMA WeavesOne ==
    ASSUME NEW tr, NEW m \in Method, NEW n \in Method,
           ClassOf[m] = ClassOf[n], Weaves(tr, m), Weaves(tr, n)
    PROVE  m = n
BY SigAssumption DEF Weaves

----------------------------------------------------------------------------
\* Every step of hook(), unHook() and the runtime keeps the state well formed.
LEMMA TypeStep == TypeOK /\ CallTransform /\ [Next]_vars => TypeOK'
<1> SUFFICES ASSUME TypeOK, CallTransform, [Next]_vars
             PROVE  TypeOK'
  OBVIOUS
<1> USE DEF TypeOK
<1>1. ASSUME NEW t \in Thread, NEW m \in Method, NEW b \in Callback,
             HookBegin(t, m, b)
      PROVE  TypeOK'
  <2>1. ClassName[ClassOf[m]] \in Names
    BY ClassOfAssumption DEF Names
  <2>2. [class |-> ClassName[ClassOf[m]], id |-> m, kinds |-> Listeners[b]]
            \in Transform
    BY <2>1, ListenersAssumption DEF Transform
  <2> QED
    BY <1>1, <2>2 DEF HookBegin, AnyThread, history
<1>2. ASSUME NEW t \in Thread, HookRetransform(t)
      PROVE  TypeOK'
  <2>1. code' \in [Method -> Code]
    BY <1>2, ClassFileType DEF HookRetransform, AnyThread
  <2> QED
    BY <1>2, <2>1 DEF HookRetransform, Code, StillRevived
<1>3. ASSUME NEW t \in Thread, HookFail(t)
      PROVE  TypeOK'
  <2>1. target[t] \in Method
    BY <1>3 DEF HookFail, CallTransform
  <2> QED
    BY <1>3, <2>1 DEF HookFail, Leave
<1>4. ASSUME NEW t \in Thread, HookPut(t)
      PROVE  TypeOK'
  <2>1. target[t] \in Method
    BY <1>4 DEF HookPut, CallTransform
  <2> QED
    BY <1>4, <2>1 DEF HookPut, Leave, history
<1>5. ASSUME NEW t \in Thread, NEW m \in Method, UnHookBegin(t, m)
      PROVE  TypeOK'
  <2>1. [class |-> ClassName[ClassOf[m]], id |-> NoMethod, kinds |-> {}]
            \in Transform
    BY ClassOfAssumption DEF Transform, Names
  <2> QED
    BY <1>5, <2>1 DEF UnHookBegin, AnyThread, history
<1>6. ASSUME NEW t \in Thread, UnHookRetransform(t)
      PROVE  TypeOK'
  <2>1. code' \in [Method -> Code]
    BY <1>6, ClassFileType DEF UnHookRetransform, AnyThread
  <2> QED
    BY <1>6, <2>1 DEF UnHookRetransform, Leave, Code, StillRevived
<1>7. ASSUME NEW t \in AnyThread, NEW c \in Class, LoadClass(t, c)
      PROVE  TypeOK'
  <2>1. code' \in [Method -> Code]
    BY <1>7, ClassFileType DEF LoadClass
  <2> QED
    BY <1>7, <2>1 DEF LoadClass, Code, Reviving
<1>8. ASSUME NEW t \in ForeignThread, NEW c \in Class, ForeignRetransform(t, c)
      PROVE  TypeOK'
  <2>1. code' \in [Method -> Code]
    BY <1>8, ClassFileType DEF ForeignRetransform, AnyThread
  <2> QED
    BY <1>8, <2>1 DEF ForeignRetransform, Code, Reviving
<1>9. ASSUME NEW t \in Thread, UnHookFail(t)
      PROVE  TypeOK'
  BY <1>9 DEF UnHookFail, Leave, history
<1>10. CASE UNCHANGED vars
  BY <1>10 DEF vars
<1> QED
  BY <1>1, <1>2, <1>3, <1>4, <1>5, <1>6, <1>7, <1>8, <1>9, <1>10
     DEF Next, Hook, UnHook, Runtime

----------------------------------------------------------------------------
(* The inductive step, action by action.                                   *)

\* What a class file load with an empty transform does to the code: every
\* method of the class is as compiled, the others are as they were.
LEMMA EmptyTransform ==
    ASSUME NEW t, NEW c, current_transform[t].id = NoMethod, NEW m \in Method
    PROVE  ClassFile(t, c)[m] = IF ClassOf[m] = c THEN Original ELSE code[m]
BY NoHooksNoWeave, ClassFileElsewhere, ClassFileHere

\* Outside the window of a thread, what is woven and registered stays so.
Quiet == \A t \in Thread : pc[t] # "put"

\* While nobody is in a window, what holds of the woven methods speaks of the
\* code, the callbacks and the record only.
LEMMA SameHooks ==
    ASSUME IInv, Quiet, Quiet',
           UNCHANGED << code, sHookers, revived >>, refused \subseteq refused'
    PROVE  WovenIsRegistered' /\ KindsMatchCallback' /\ WindowKinds'
<1>1. \A t, m : t \in Thread => ~InWindow(t, m) /\ ~InWindow(t, m)'
  BY DEF Quiet, InWindow
<1>2. WovenIsRegistered'
  BY <1>1 DEF IInv, WovenIsRegistered, Woven
<1>3. KindsMatchCallback'
  BY <1>1 DEF IInv, KindsMatchCallback
<1>4. WindowKinds'
  BY <1>1 DEF WindowKinds
<1> QED
  BY <1>2, <1>3, <1>4

\* hook() takes the monitor, so that no other thread is in hook() or unHook().
LEMMA HookBeginStep ==
    ASSUME IInv, TypeOK', NEW t \in Thread, NEW m \in Method, NEW b \in Callback,
           HookBegin(t, m, b)
    PROVE  IInv'
<1> USE DEF IInv
<1>0. \A u \in Thread : pc[u] = "idle"
  BY NullsAssumption DEF HookBegin, Mutex, TypeOK
<1>1. Mutex'
  BY <1>0 DEF HookBegin, Mutex, TypeOK
<1>2. CallTransform'
  <2>1. /\ target'[t] = m /\ callback'[t] = b /\ m # NoMethod /\ b # NoCallback
        /\ current_transform'[t] =
              [class |-> ClassName[ClassOf[m]], id |-> m, kinds |-> Listeners[b]]
        /\ ClassOf[m] \in loaded /\ loaded' = loaded
    BY NullsAssumption DEF HookBegin, TypeOK, AnyThread
  <2>2. \A u \in Thread : u # t =>
           /\ target'[u] = target[u] /\ callback'[u] = callback[u] /\ pc'[u] = pc[u]
           /\ current_transform'[u] = current_transform[u]
    BY DEF HookBegin, TypeOK, AnyThread
  <2> QED
    BY <2>1, <2>2 DEF CallTransform
<1>3. LeftoverTransform'
  <2>1. \A u \in Thread : pc'[u] = "idle" =>
           /\ u # t /\ target'[u] = target[u] /\ callback'[u] = callback[u]
           /\ sHookers' = sHookers /\ refused' = refused
    BY DEF HookBegin, TypeOK, history
  <2>2. \A u \in ForeignThread \ Thread : current_transform'[u] = current_transform[u]
    BY DEF HookBegin, TypeOK, AnyThread
  <2> QED
    BY <1>0, <2>1, <2>2 DEF LeftoverTransform
<1>4. UnHookerLoaded'
  BY DEF HookBegin, UnHookerLoaded
<1>5. Quiet /\ Quiet'
  BY <1>0 DEF HookBegin, TypeOK, Quiet
<1>6. WovenIsRegistered' /\ KindsMatchCallback' /\ WindowKinds'
  BY <1>5, SameHooks DEF HookBegin, history
<1> QED
  BY <1>1, <1>2, <1>3, <1>4, <1>6

\* The class is woven with the hooks of the target and of no other method,
\* and the thread enters its window.
LEMMA HookRetransformStep ==
    ASSUME IInv, TypeOK', NEW t \in Thread, HookRetransform(t)
    PROVE  IInv'
<1> USE DEF IInv
<1> DEFINE m == target[t]
           tr == current_transform[t]
<1>0. /\ \A u \in Thread : u # t => pc[u] = "idle"
      /\ pc[t] = "retransform" /\ callback[t] \in Callback
  BY DEF HookRetransform, Mutex, TypeOK
<1>1. m \in Method /\ tr.id = m /\ tr.kinds = Listeners[callback[t]]
  BY <1>0, NullsAssumption DEF HookRetransform, CallTransform, TypeOK
<1>2. \A n \in Method : ClassOf[n] # ClassOf[m] =>
          code'[n] = code[n] /\ (n \in revived' <=> n \in revived)
  BY ClassFileElsewhere DEF HookRetransform, StillRevived
<1>3. \A n \in Method : ClassOf[n] = ClassOf[m] =>
          code'[n] = IF Weaves(tr, n) THEN [id |-> m, kinds |-> Listeners[callback[t]]]
                     ELSE Original
  BY <1>1, ClassFileHere DEF HookRetransform
<1>4. \A n \in Method : ClassOf[n] = ClassOf[m] /\ n # m => ~Weaves(tr, n)
  BY <1>1, SigAssumption DEF Weaves
<1>5. /\ pc'[t] = "put" /\ target'[t] = m
      /\ \A u \in Thread : pc'[u] = "put" => u = t
      /\ \A u \in Thread : pc[u] # "put"
  BY <1>0 DEF HookRetransform, TypeOK
<1>6. Mutex'
  BY DEF HookRetransform, Mutex, TypeOK
<1>7. CallTransform'
  BY <1>0 DEF HookRetransform, CallTransform, TypeOK
<1>8. LeftoverTransform'
  BY DEF HookRetransform, LeftoverTransform, TypeOK
<1>9. UnHookerLoaded'
  BY DEF HookRetransform, UnHookerLoaded
<1>10. WindowKinds'
  <2> SUFFICES ASSUME code'[m].id = m
               PROVE  code'[m].kinds = Listeners[callback'[t]]
    BY <1>5 DEF WindowKinds, InWindow
  <2> QED
    BY <1>1, <1>3, NullsAssumption DEF HookRetransform, Original
<1>11. WovenIsRegistered'
  <2> SUFFICES ASSUME NEW n \in Method, code'[n].kinds # {}, code'[n].id \notin refused
               PROVE  /\ code'[n].id \in Method
                      /\ \/ sHookers'[code'[n].id] # NoCallback
                         \/ \E u \in Thread : pc'[u] = "put" /\ target'[u] = code'[n].id
    BY DEF WovenIsRegistered, Woven, InWindow, HookRetransform
  <2>1. CASE ClassOf[n] = ClassOf[m]
    <3>1. code'[n].id = m
      BY <1>3, <2>1 DEF Original
    <3> QED
      BY <1>1, <1>5, <3>1
  <2>2. CASE ClassOf[n] # ClassOf[m]
    BY <1>2, <1>5, <2>2 DEF WovenIsRegistered, Woven, HookRetransform, InWindow
  <2> QED
    BY <2>1, <2>2
<1>12. KindsMatchCallback'
  <2> SUFFICES ASSUME NEW n \in Method, code'[n].id = n, n \notin revived', n # m
               PROVE  /\ sHookers'[n] # NoCallback
                      /\ code'[n].kinds = Listeners[sHookers'[n]]
    BY <1>5 DEF KindsMatchCallback, InWindow
  <2>1. ClassOf[n] # ClassOf[m]
    BY <1>3, <1>4, NullsAssumption DEF Original
  <2> QED
    BY <1>2, <1>5, <2>1 DEF KindsMatchCallback, HookRetransform, InWindow
<1> QED
  BY <1>6, <1>7, <1>8, <1>9, <1>10, <1>11, <1>12

\* The runtime refuses the class: the transform stays on the thread, and the
\* target is recorded.
LEMMA HookFailStep ==
    ASSUME IInv, TypeOK', NEW t \in Thread, HookFail(t)
    PROVE  IInv'
<1> USE DEF IInv
<1>0. \A u \in Thread : u # t => pc[u] = "idle"
  BY DEF HookFail, Mutex, TypeOK
<1>1. \A u \in Thread : pc[u] # "put" /\ pc'[u] = "idle"
  BY <1>0 DEF HookFail, Leave, TypeOK
<1>2. Mutex'
  BY <1>1 DEF Mutex
<1>3. CallTransform'
  BY <1>0, <1>1 DEF HookFail, Leave, CallTransform, TypeOK
<1>4. LeftoverTransform'
  BY <1>0 DEF HookFail, Leave, LeftoverTransform
<1>5. UnHookerLoaded'
  BY DEF HookFail, UnHookerLoaded
<1>6. Quiet /\ Quiet'
  BY <1>1 DEF Quiet
<1>7. WovenIsRegistered' /\ KindsMatchCallback' /\ WindowKinds'
  BY <1>6, SameHooks DEF HookFail
<1> QED
  BY <1>2, <1>3, <1>4, <1>5, <1>7

\* The window closes with the callback whose listeners are woven.
LEMMA HookPutStep ==
    ASSUME IInv, TypeOK', NEW t \in Thread, HookPut(t)
    PROVE  IInv'
<1> USE DEF IInv
<1> DEFINE m == target[t]
<1>0. \A u \in Thread : u # t => pc[u] = "idle"
  BY DEF HookPut, Mutex, TypeOK
<1>1. /\ pc[t] = "put"
      /\ m \in Method /\ ClassOf[m] \in loaded
      /\ callback[t] \in Callback
  BY NullsAssumption DEF HookPut, CallTransform, TypeOK
<1>2. /\ sHookers'[m] = callback[t] /\ callback[t] # NoCallback
      /\ \A n \in Method : n # m => sHookers'[n] = sHookers[n]
  BY <1>1, NullsAssumption DEF HookPut, TypeOK
<1>3. \A u \in Thread : pc'[u] = "idle"
  BY <1>0 DEF HookPut, Leave, TypeOK
<1>4. Mutex'
  BY <1>3 DEF Mutex
<1>5. CallTransform'
  BY <1>0, <1>3 DEF HookPut, Leave, CallTransform, TypeOK
<1>6. LeftoverTransform'
  <2>1. UNCHANGED << target, callback, current_transform, refused >>
    BY DEF HookPut, Leave, history
  <2>2. ASSUME NEW u \in Thread, callback[u] # NoCallback, target[u] \notin refused
        PROVE  sHookers'[target[u]] # NoCallback
    <3>1. CASE u = t
      BY <1>1, <1>2, <3>1
    <3>2. CASE u # t
      <4>1. sHookers[target[u]] # NoCallback
        BY <1>0, <2>2, <3>2 DEF LeftoverTransform
      <4>2. target[u] \in Method
        BY <2>2 DEF TypeOK, CallTransform
      <4> QED
        BY <1>2, <4>1, <4>2
    <3> QED
      BY <3>1, <3>2
  <2> QED
    BY <2>1, <2>2 DEF LeftoverTransform
<1>7. UnHookerLoaded'
  BY <1>1 DEF HookPut, UnHookerLoaded
<1>8. WindowKinds'
  BY <1>3 DEF WindowKinds, InWindow
<1>9. UNCHANGED << code, refused, revived >>
  BY DEF HookPut, history
<1>10. WovenIsRegistered'
  <2> SUFFICES ASSUME NEW n \in Method, code[n].kinds # {}, code[n].id \notin refused
               PROVE  code[n].id \in Method /\ sHookers'[code[n].id] # NoCallback
    BY <1>9 DEF WovenIsRegistered, Woven
  <2>1. CASE code[n].id = m
    BY <1>1, <1>2, <2>1
  <2>2. CASE code[n].id # m
    <3>1. code[n].id \in Method /\ sHookers[code[n].id] # NoCallback
      BY <1>0, <1>1, <2>2 DEF WovenIsRegistered, Woven, InWindow
    <3> QED
      BY <1>2, <2>2, <3>1
  <2> QED
    BY <2>1, <2>2
<1>11. KindsMatchCallback'
  <2> SUFFICES ASSUME NEW n \in Method, code[n].id = n, n \notin revived
               PROVE  /\ sHookers'[n] # NoCallback
                      /\ code[n].kinds = Listeners[sHookers'[n]]
    BY <1>9 DEF KindsMatchCallback
  <2>1. CASE n = m
    BY <1>1, <1>2, <2>1 DEF WindowKinds, InWindow
  <2>2. CASE n # m
    BY <1>0, <1>1, <1>2, <2>2 DEF KindsMatchCallback, InWindow
  <2> QED
    BY <2>1, <2>2
<1> QED
  BY <1>4, <1>5, <1>6, <1>7, <1>8, <1>10, <1>11

\* unHook() starts from a method of a loaded class, with an empty transform.
LEMMA UnHookBeginStep ==
    ASSUME IInv, TypeOK', NEW t \in Thread, NEW m \in Method, UnHookBegin(t, m)
    PROVE  IInv'
<1> USE DEF IInv
<1>0. \A u \in Thread : pc[u] = "idle"
  BY NullsAssumption DEF UnHookBegin, Mutex, TypeOK
<1>1. Mutex'
  BY <1>0 DEF UnHookBegin, Mutex, TypeOK
<1>2. CallTransform'
  <2>1. /\ target'[t] = m /\ callback'[t] = NoCallback /\ m # NoMethod
        /\ current_transform'[t].id = NoMethod /\ pc'[t] = "retransform"
        /\ ClassOf[m] \in loaded /\ loaded' = loaded
    BY NullsAssumption DEF UnHookBegin, UnHookerLoaded, TypeOK, AnyThread
  <2>2. \A u \in Thread : u # t =>
           /\ target'[u] = target[u] /\ callback'[u] = callback[u] /\ pc'[u] = pc[u]
           /\ current_transform'[u] = current_transform[u]
    BY DEF UnHookBegin, TypeOK, AnyThread
  <2> QED
    BY <2>1, <2>2 DEF CallTransform
<1>3. LeftoverTransform'
  <2>1. \A u \in Thread : pc'[u] = "idle" =>
           /\ u # t /\ target'[u] = target[u] /\ callback'[u] = callback[u]
           /\ sHookers' = sHookers /\ refused' = refused
    BY DEF UnHookBegin, TypeOK, history
  <2>2. \A u \in ForeignThread \ Thread : current_transform'[u] = current_transform[u]
    BY DEF UnHookBegin, TypeOK, AnyThread
  <2> QED
    BY <1>0, <2>1, <2>2 DEF LeftoverTransform
<1>4. UnHookerLoaded'
  BY DEF UnHookBegin, UnHookerLoaded
<1>5. Quiet /\ Quiet'
  BY <1>0 DEF UnHookBegin, TypeOK, Quiet
<1>6. WovenIsRegistered' /\ KindsMatchCallback' /\ WindowKinds'
  BY <1>5, SameHooks DEF UnHookBegin, history
<1> QED
  BY <1>1, <1>2, <1>3, <1>4, <1>6

\* unHook() leaves the whole class as compiled.
LEMMA UnHookRetransformStep ==
    ASSUME IInv, TypeOK', NEW t \in Thread, UnHookRetransform(t)
    PROVE  IInv'
<1> USE DEF IInv
<1> DEFINE c == ClassOf[target[t]]
<1>0. \A u \in Thread : u # t => pc[u] = "idle"
  BY DEF UnHookRetransform, Mutex, TypeOK
<1>1. current_transform[t].id = NoMethod
  BY DEF UnHookRetransform, CallTransform
<1>2. \A m \in Method : code'[m] = IF ClassOf[m] = c THEN Original ELSE code[m]
  BY <1>1, EmptyTransform DEF UnHookRetransform
<1>3. \A u \in Thread : pc[u] # "put" /\ pc'[u] = "idle"
  BY <1>0 DEF UnHookRetransform, Leave, TypeOK
<1>4. /\ \A m \in Method : code'[m].kinds # {} \/ code'[m].id = m =>
            code'[m] = code[m] /\ ClassOf[m] # c
      /\ \A m \in Method : ClassOf[m] # c => (m \in revived' <=> m \in revived)
      /\ UNCHANGED << sHookers, refused >>
  BY <1>2, NullsAssumption DEF Original, UnHookRetransform, StillRevived
<1>5. WovenIsRegistered'
  BY <1>3, <1>4 DEF WovenIsRegistered, Woven, InWindow
<1>6. KindsMatchCallback'
  BY <1>3, <1>4 DEF KindsMatchCallback, InWindow
<1>7. WindowKinds'
  BY <1>3 DEF WindowKinds, InWindow
<1>8. Mutex'
  BY <1>3 DEF Mutex
<1>9. CallTransform'
  BY <1>0, <1>3 DEF UnHookRetransform, Leave, CallTransform, TypeOK
<1>10. LeftoverTransform'
  BY <1>0 DEF UnHookRetransform, Leave, LeftoverTransform
<1>11. UnHookerLoaded'
  BY DEF UnHookRetransform, UnHookerLoaded
<1> QED
  BY <1>5, <1>6, <1>7, <1>8, <1>9, <1>10, <1>11

\* unHook() gives up: the hooks are as they were.
LEMMA UnHookFailStep ==
    ASSUME IInv, TypeOK', NEW t \in Thread, UnHookFail(t)
    PROVE  IInv'
<1> USE DEF IInv
<1>0. \A u \in Thread : u # t => pc[u] = "idle"
  BY DEF UnHookFail, Mutex, TypeOK
<1>1. \A u \in Thread : pc[u] # "put" /\ pc'[u] = "idle"
  BY <1>0 DEF UnHookFail, Leave, TypeOK
<1>2. Mutex'
  BY <1>1 DEF Mutex
<1>3. CallTransform'
  BY <1>0, <1>1 DEF UnHookFail, Leave, CallTransform, TypeOK
<1>4. LeftoverTransform'
  BY <1>0 DEF UnHookFail, Leave, LeftoverTransform, history
<1>5. UnHookerLoaded'
  BY DEF UnHookFail, UnHookerLoaded
<1>6. Quiet /\ Quiet'
  BY <1>1 DEF Quiet
<1>7. WovenIsRegistered' /\ KindsMatchCallback' /\ WindowKinds'
  BY <1>6, SameHooks DEF UnHookFail, history
<1> QED
  BY <1>2, <1>3, <1>4, <1>5, <1>7

\* What is known of the transform that a class load, or another agent's
\* retransformation, finds on a thread outside hook() and unHook().
LEMMA TransformLeft ==
    ASSUME IInv, NEW t \in AnyThread, t \in Thread => pc[t] = "idle",
           current_transform[t].id # NoMethod
    PROVE  LET i == current_transform[t].id IN
           /\ t \in Thread /\ i = target[t] /\ callback[t] \in Callback
           /\ i \in Method /\ ClassOf[i] \in loaded
           /\ current_transform[t].class = ClassName[ClassOf[i]]
           /\ current_transform[t].kinds = Listeners[callback[t]]
           /\ i \in refused \/ sHookers[i] # NoCallback
<1>1. t \in Thread
  BY DEF IInv, LeftoverTransform, AnyThread
<1>2. target[t] # NoMethod /\ callback[t] # NoCallback
  BY <1>1 DEF IInv, CallTransform
<1>3. target[t] \in Method /\ callback[t] \in Callback
  BY <1>1, <1>2 DEF IInv, TypeOK
<1>4. /\ current_transform[t].id = target[t] /\ ClassOf[target[t]] \in loaded
      /\ current_transform[t].class = ClassName[ClassOf[target[t]]]
      /\ current_transform[t].kinds = Listeners[callback[t]]
  BY <1>1, <1>2 DEF IInv, CallTransform
<1>5. target[t] \in refused \/ sHookers[target[t]] # NoCallback
  BY <1>1, <1>2 DEF IInv, LeftoverTransform
<1> QED
  BY <1>1, <1>2, <1>3, <1>4, <1>5

\* A class that is loaded or retransformed by another agent may get hooks from
\* the transform an earlier call left on the thread: those of a method that is
\* registered or was refused.
LEMMA ReviveStep ==
    ASSUME IInv, NEW t \in AnyThread, NEW c \in Class,
           t \in Thread => pc[t] = "idle",
           code' = ClassFile(t, c), revived' = Reviving(t, c), loaded \subseteq loaded',
           UNCHANGED << lock, pc, target, callback, current_transform, sHookers,
                        unhookers, refused >>,
           TypeOK'
    PROVE  IInv'
<1> USE DEF IInv
<1> DEFINE tr == current_transform[t]
<1>1. \A m \in Method : ClassOf[m] # c =>
          code'[m] = code[m] /\ (m \in revived' <=> m \in revived)
  BY ClassFileElsewhere DEF Reviving
<1>2. \A m \in Method : ClassOf[m] = c =>
          /\ code'[m] = IF Weaves(tr, m) THEN [id |-> tr.id, kinds |-> tr.kinds]
                        ELSE Original
          /\ Weaves(tr, m) => m \in revived'
  BY ClassFileHere DEF Reviving
<1>3. tr.id # NoMethod => /\ tr.id \in Method
                          /\ tr.id \in refused \/ sHookers[tr.id] # NoCallback
  BY TransformLeft
<1>4. \A m \in Method : code'[m].id = m /\ m \notin revived' =>
          code'[m] = code[m] /\ m \notin revived
  BY <1>1, <1>2, NullsAssumption DEF Original
<1>5. WovenIsRegistered'
  <2> SUFFICES ASSUME NEW m \in Method, code'[m].kinds # {}, code'[m].id \notin refused
               PROVE  /\ code'[m].id \in Method
                      /\ \/ sHookers[code'[m].id] # NoCallback
                         \/ \E u \in Thread : pc[u] = "put" /\ target[u] = code'[m].id
    BY DEF WovenIsRegistered, Woven, InWindow
  <2>1. CASE ClassOf[m] = c
    <3>1. code'[m].id = tr.id /\ tr.id # NoMethod
      BY <1>2, <2>1 DEF Original, Weaves
    <3> QED
      BY <1>3, <3>1
  <2>2. CASE ClassOf[m] # c
    BY <1>1, <2>2 DEF WovenIsRegistered, Woven, InWindow
  <2> QED
    BY <2>1, <2>2
<1>6. KindsMatchCallback'
  BY <1>4 DEF KindsMatchCallback, InWindow
<1>7. WindowKinds'
  BY <1>4 DEF WindowKinds, InWindow
<1>8. Mutex'
  BY DEF Mutex
<1>9. CallTransform'
  BY DEF CallTransform
<1>10. LeftoverTransform'
  BY DEF LeftoverTransform
<1>11. UnHookerLoaded'
  BY DEF UnHookerLoaded
<1> QED
  BY <1>5, <1>6, <1>7, <1>8, <1>9, <1>10, <1>11

LEMMA RuntimeStep == IInv /\ TypeOK' /\ Runtime => IInv'
<1>1. ASSUME IInv, TypeOK', NEW t \in AnyThread, NEW c \in Class, LoadClass(t, c)
      PROVE  IInv'
  BY <1>1, ReviveStep DEF LoadClass
<1>2. ASSUME IInv, TypeOK', NEW t \in ForeignThread, NEW c \in Class,
             ForeignRetransform(t, c)
      PROVE  IInv'
  BY <1>2, ReviveStep DEF ForeignRetransform, AnyThread
<1> QED
  BY <1>1, <1>2 DEF Runtime

----------------------------------------------------------------------------
\* Nothing is loaded, woven or registered at first.
LEMMA InitIInv == Init => IInv
<1> SUFFICES ASSUME Init
             PROVE  IInv
  OBVIOUS
<1>1. TypeOK
  BY DEF Init, TypeOK, NullTransform, Transform, Original
<1>2. Mutex /\ CallTransform /\ LeftoverTransform /\ UnHookerLoaded
  BY DEF Init, Mutex, CallTransform, LeftoverTransform, UnHookerLoaded,
         NullTransform, AnyThread
<1>3. WindowKinds /\ WovenIsRegistered
  BY DEF Init, WindowKinds, InWindow, WovenIsRegistered, Woven, Original
<1>4. KindsMatchCallback
  BY NullsAssumption DEF Init, KindsMatchCallback, Original
<1> QED
  BY <1>1, <1>2, <1>3, <1>4 DEF IInv

LEMMA NextIInv == IInv /\ [Next]_vars => IInv'
<1> SUFFICES ASSUME IInv, [Next]_vars
             PROVE  IInv'
  OBVIOUS
<1>0. TypeOK'
  BY TypeStep DEF IInv
<1>1. CASE UNCHANGED vars
  BY <1>1 DEF vars, IInv, TypeOK, Mutex, CallTransform, LeftoverTransform,
       UnHookerLoaded, WindowKinds, InWindow, Woven, WovenIsRegistered,
       KindsMatchCallback
<1>2. CASE \E t \in Thread : Hook(t)
  BY <1>0, <1>2, HookBeginStep, HookRetransformStep, HookFailStep, HookPutStep
     DEF Hook
<1>3. CASE \E t \in Thread : UnHook(t)
  BY <1>0, <1>3, UnHookBeginStep, UnHookRetransformStep, UnHookFailStep DEF UnHook
<1>4. CASE Runtime
  BY <1>0, <1>4, RuntimeStep
<1> QED
  BY <1>1, <1>2, <1>3, <1>4 DEF Next

\* The inductive invariant holds in every reachable state.
THEOREM Invariance == Spec => []IInv
<1>1. Init => IInv
  BY InitIInv
<1>2. IInv /\ [Next]_vars => IInv'
  BY NextIInv
<1> QED
  BY <1>1, <1>2, PTL DEF Spec

\* The state is always well formed.
THEOREM TypeCorrect == Spec => []TypeOK
<1>1. IInv => TypeOK
  BY DEF IInv
<1> QED
  BY <1>1, Invariance, PTL

\* A woven hook finds its callback, outside the window of hook(), unless it is
\* one the runtime refused.
THEOREM Registered == Spec => []WovenIsRegistered
<1>1. IInv => WovenIsRegistered
  BY DEF IInv
<1> QED
  BY <1>1, Invariance, PTL

\* The woven kinds are those the registered callback listens to, unless another
\* agent's retransformation has brought them back.
THEOREM KindsMatch == Spec => []KindsMatchCallback
<1>1. IInv => KindsMatchCallback
  BY DEF IInv
<1> QED
  BY <1>1, Invariance, PTL

----------------------------------------------------------------------------
\* What one step weaves into a method, whoever retransforms or loads its class
\* and whenever, is what the call, or the last call, of a thread asks for.
LEMMA WeavingStep ==
    ASSUME IInv, [Next]_vars, NEW m \in Method, Woven(m)', code'[m] # code[m]
    PROVE  \E t \in Thread :
              /\ callback[t] # NoCallback
              /\ ClassName[ClassOf[target[t]]] = ClassName[ClassOf[m]]
              /\ Sig[target[t]] = Sig[m]
              /\ code'[m] = [id |-> target[t], kinds |-> Listeners[callback[t]]]
<1> USE DEF IInv
<1>0. PICK t \in AnyThread : \E c : code' = ClassFile(t, c)
  BY DEF Next, Hook, UnHook, Runtime, HookBegin, HookRetransform, HookFail, HookPut,
     UnHookBegin, UnHookRetransform, UnHookFail, LoadClass, ForeignRetransform, vars,
     AnyThread
<1>1. PICK c : code' = ClassFile(t, c)
  BY <1>0
<1> DEFINE tr == current_transform[t]
<1>2. ClassOf[m] = c
  BY <1>1, ClassFileElsewhere
<1>3. Weaves(tr, m) /\ code'[m] = [id |-> tr.id, kinds |-> tr.kinds]
  <2>1. code'[m] # Original
    BY DEF Woven, Original
  <2> QED
    BY <1>1, <1>2, <2>1, ClassFileHere
<1>4. tr.id # NoMethod /\ tr.class = ClassName[ClassOf[m]] /\ Sig[m] = Sig[tr.id]
  BY <1>3 DEF Weaves
<1>5. t \in Thread
  BY <1>4 DEF LeftoverTransform, AnyThread
<1>6. target[t] # NoMethod /\ callback[t] # NoCallback
  BY <1>4, <1>5 DEF CallTransform
<1>7. /\ tr.class = ClassName[ClassOf[target[t]]] /\ tr.id = target[t]
      /\ tr.kinds = Listeners[callback[t]]
  BY <1>5, <1>6 DEF CallTransform
<1> QED
  BY <1>3, <1>4, <1>5, <1>6, <1>7

\* Hooks come up, and come back, only as a thread has asked in its last call:
\* class loads and other agents on the same threads included.
THEOREM WovenOnRequest == Spec => WovenAsLastAsked
<1>1. IInv /\ [Next]_vars =>
        [\A m \in Method :
            Woven(m)' /\ code'[m] # code[m] =>
                \E t \in Thread :
                    /\ callback[t] # NoCallback
                    /\ ClassName[ClassOf[target[t]]] = ClassName[ClassOf[m]]
                    /\ Sig[target[t]] = Sig[m]
                    /\ code'[m] = [id    |-> target[t],
                                   kinds |-> Listeners[callback[t]]]]_vars
  BY WeavingStep
<1> QED
  BY <1>1, Invariance, PTL DEF Spec, WovenAsLastAsked
=============================================================================
