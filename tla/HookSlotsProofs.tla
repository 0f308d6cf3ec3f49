--------------------------- MODULE HookSlotsProofs ---------------------------
(***************************************************************************)
(* HookLifecycle implements HookSlots: every step maps to a step there or  *)
(* leaves it as it is.                                                     *)
(*                                                                         *)
(* One more fact is needed besides IInv: nothing is woven into a class     *)
(* that is not loaded.                                                     *)
(***************************************************************************)
EXTENDS HookLifecycleProofs

WovenLoaded == \A m \in Method : Woven(m) => ClassOf[m] \in loaded

RInv == IInv /\ WovenLoaded

----------------------------------------------------------------------------
\* A retransformation weaves only into its class, which is loaded.
LEMMA LoadedStep == RInv /\ [Next]_vars => WovenLoaded'
<1> SUFFICES ASSUME RInv, [Next]_vars
             PROVE  WovenLoaded'
  OBVIOUS
<1> USE DEF RInv
<1>1. ASSUME NEW t, NEW c, code' = ClassFile(t, c), c \in loaded', loaded \subseteq loaded'
      PROVE  WovenLoaded'
  <2> SUFFICES ASSUME NEW m \in Method, code'[m].kinds # {}
               PROVE  ClassOf[m] \in loaded'
    BY DEF WovenLoaded, Woven
  <2>1. CASE ClassOf[m] = c
    BY <1>1, <2>1
  <2>2. CASE ClassOf[m] # c
    <3>1. code'[m] = code[m]
      BY <1>1, <2>2, ClassFileElsewhere
    <3> QED
      BY <1>1, <3>1 DEF WovenLoaded, Woven
  <2> QED
    BY <2>1, <2>2
<1>2. CASE \E t \in Thread : HookRetransform(t) \/ UnHookRetransform(t)
  <2>1. PICK t \in Thread : HookRetransform(t) \/ UnHookRetransform(t)
    BY <1>2
  <2>2. ClassOf[target[t]] \in loaded
    BY <2>1 DEF IInv, CallTransform, HookRetransform, UnHookRetransform
  <2> QED
    BY <1>1, <2>1, <2>2 DEF HookRetransform, UnHookRetransform
<1>3. CASE \E t \in AnyThread, c \in Class : LoadClass(t, c)
  BY <1>1, <1>3 DEF LoadClass
<1>4. CASE \E t \in ForeignThread, c \in Class : ForeignRetransform(t, c)
  BY <1>1, <1>4 DEF ForeignRetransform
<1>5. CASE UNCHANGED << code, loaded >>
  BY <1>5 DEF WovenLoaded, Woven
<1> QED
  BY <1>2, <1>3, <1>4, <1>5
     DEF Next, Hook, UnHook, Runtime, HookBegin, HookFail, HookPut, UnHookBegin,
         UnHookFail, vars

\* It holds in every reachable state, with IInv.
LEMMA RInvariance == Spec => []RInv
<1>1. Init => RInv
  <2>1. Init => WovenLoaded
    BY DEF Init, WovenLoaded, Woven, Original
  <2> QED
    BY <2>1, InitIInv DEF RInv
<1>2. RInv /\ [Next]_vars => RInv'
  BY NextIInv, LoadedStep DEF RInv
<1> QED
  BY <1>1, <1>2, PTL DEF Spec

----------------------------------------------------------------------------
(* The steps.                                                              *)

HookOf(m) == [method |-> m, id |-> code[m].id, kinds |-> code[m].kinds]

LEMMA HooksUnchanged ==
    ASSUME UNCHANGED code
    PROVE  WovenHooks' = WovenHooks
BY DEF WovenHooks, Woven

LEMMA WindowsUnchanged ==
    ASSUME \A t \in Thread : (pc[t] = "put") = (pc'[t] = "put"),
           \A t \in Thread : pc[t] = "put" => /\ target'[t] = target[t]
                                              /\ callback'[t] = callback[t]
    PROVE  Windows' = Windows
BY DEF Windows

\* hook() begins: nobody is in its window, nothing is woven.
LEMMA BeginRefines ==
    ASSUME IInv, NEW t \in Thread,
           (\E m \in Method, b \in Callback : HookBegin(t, m, b))
             \/ (\E m \in Method : UnHookBegin(t, m))
    PROVE  UNCHANGED Slots!slotVars
<1>0. TypeOK
  BY DEF IInv
<1>1. \A u \in Thread : pc[u] # "put" /\ pc'[u] # "put"
  BY <1>0, NullsAssumption DEF IInv, Mutex, TypeOK, HookBegin, UnHookBegin
<1>2. Windows' = Windows
  BY <1>1, WindowsUnchanged
<1>3. WovenHooks' = WovenHooks
  BY HooksUnchanged DEF HookBegin, UnHookBegin
<1> QED
  BY <1>2, <1>3 DEF Slots!slotVars, HookBegin, UnHookBegin, history

\* A hook() that fails leaves its record, an unHook() that fails nothing.
LEMMA FailRefines ==
    ASSUME IInv, NEW t \in Thread, HookFail(t) \/ UnHookFail(t)
    PROVE  Slots!SlotsNext \/ UNCHANGED Slots!slotVars
<1>0. TypeOK /\ CallTransform /\ Mutex
  BY DEF IInv
<1>1. \A u \in Thread : pc[u] # "put" /\ pc'[u] # "put"
  BY <1>0 DEF Mutex, TypeOK, HookFail, UnHookFail, Leave
<1>2. Windows' = Windows
  BY <1>1, WindowsUnchanged
<1>3. WovenHooks' = WovenHooks
  BY HooksUnchanged DEF HookFail, UnHookFail
<1>4. CASE HookFail(t)
  <2>1. target[t] \in Method /\ ClassOf[target[t]] \in loaded
    BY <1>0, <1>4 DEF HookFail, CallTransform, TypeOK
  <2>2. Windows = {}
    BY <1>1 DEF Windows
  <2>3. Slots!Refuse(target[t])
    BY <1>2, <1>3, <1>4, <2>1, <2>2 DEF Slots!Refuse, HookFail
  <2> QED
    BY <2>1, <2>3 DEF Slots!SlotsNext
<1>5. CASE UnHookFail(t)
  BY <1>2, <1>3, <1>5 DEF UnHookFail, history, Slots!slotVars
<1> QED
  BY <1>4, <1>5

\* The retransformation of hook() installs its hooks.
LEMMA RetransformRefines ==
    ASSUME RInv, NEW t \in Thread, HookRetransform(t)
    PROVE  Slots!SlotsNext
<1> DEFINE m  == target[t]
           b  == callback[t]
           c  == ClassOf[m]
           tr == current_transform[t]
           h0 == [method |-> m, id |-> m, kinds |-> Listeners[b]]
<1>0. TypeOK /\ CallTransform /\ Mutex
  BY DEF RInv, IInv
<1>1. /\ \A u \in Thread : u # t => pc[u] = "idle"
      /\ pc[t] = "retransform" /\ b \in Callback
  BY <1>0 DEF HookRetransform, Mutex, TypeOK
<1>2. /\ m \in Method /\ c \in loaded
      /\ tr.class = ClassName[c] /\ tr.id = m /\ tr.kinds = Listeners[b]
  <2>1. m # NoMethod /\ b # NoCallback
    BY <1>0, <1>1 DEF CallTransform, HookRetransform
  <2>2. m \in Method
    BY <1>0, <2>1 DEF TypeOK
  <2> QED
    BY <1>0, <1>1, <2>1, <2>2 DEF CallTransform
<1>3. Windows = {}
  BY <1>1 DEF Windows
<1>4. Windows' = {[method |-> m, callback |-> b]}
  <2>1. \A u \in Thread : pc'[u] = "put" <=> u = t
    BY <1>0, <1>1 DEF HookRetransform, TypeOK
  <2> QED
    BY <2>1 DEF Windows, HookRetransform
<1>5. \A n \in Method : ClassOf[n] # c => code'[n] = code[n]
  BY ClassFileElsewhere DEF HookRetransform
<1>6. \A n \in Method : ClassOf[n] = c =>
          code'[n] = IF Weaves(tr, n) THEN [id |-> m, kinds |-> Listeners[b]]
                     ELSE Original
  BY <1>2, ClassFileHere DEF HookRetransform
<1>7. Weaves(tr, m) <=> m \in HasCode /\ Listeners[b] # {}
  BY <1>2, NullsAssumption DEF Weaves
<1>8. ASSUME NEW h
      PROVE  h \in WovenHooks' => h \in Slots!Elsewhere(c) \cup Slots!HooksFor(m, b)
  <2> SUFFICES ASSUME h \in WovenHooks'
               PROVE  h \in Slots!Elsewhere(c) \cup Slots!HooksFor(m, b)
    OBVIOUS
  <2>1. PICK n \in Method : code'[n].kinds # {} /\ h = HookOf(n)'
    BY DEF WovenHooks, Woven, HookOf
  <2>2. CASE ClassOf[n] # c
    <3>1. h \in WovenHooks /\ h.method = n
      BY <1>5, <2>1, <2>2 DEF WovenHooks, Woven, HookOf
    <3> QED
      BY <2>2, <3>1 DEF Slots!Elsewhere
  <2>3. CASE ClassOf[n] = c
    <3>1. Weaves(tr, n)
      BY <1>6, <2>1, <2>3 DEF Original
    <3>2. n = m
      BY <1>2, <2>3, <3>1, SigAssumption DEF Weaves
    <3>3. h = h0
      BY <1>6, <2>1, <2>3, <3>1, <3>2 DEF HookOf
    <3> QED
      BY <1>7, <3>1, <3>2, <3>3 DEF Slots!HooksFor
  <2> QED
    BY <2>2, <2>3
<1>9. ASSUME NEW h
      PROVE  h \in Slots!Elsewhere(c) => h \in WovenHooks'
  <2> SUFFICES ASSUME h \in WovenHooks, ClassOf[h.method] # c
               PROVE  h \in WovenHooks'
    BY DEF Slots!Elsewhere
  <2>1. PICK n \in Method : code[n].kinds # {} /\ h = HookOf(n)
    BY DEF WovenHooks, Woven, HookOf
  <2>2. ClassOf[n] # c
    BY <2>1 DEF HookOf
  <2> QED
    BY <1>5, <2>1, <2>2 DEF WovenHooks, Woven, HookOf
<1>10. ASSUME NEW h
       PROVE  h \in Slots!HooksFor(m, b) => h \in WovenHooks'
  <2> SUFFICES ASSUME h = h0, m \in HasCode, Listeners[b] # {}
               PROVE  h \in WovenHooks'
    BY DEF Slots!HooksFor
  <2>1. code'[m] = [id |-> m, kinds |-> Listeners[b]]
    BY <1>2, <1>6, <1>7
  <2> QED
    BY <1>2, <2>1 DEF WovenHooks, Woven
<1>11. WovenHooks' = Slots!Elsewhere(c) \cup Slots!HooksFor(m, b)
  BY <1>8, <1>9, <1>10
<1>12. Slots!Install(m, b)
  BY <1>2, <1>3, <1>4, <1>11 DEF Slots!Install, HookRetransform
<1> QED
  BY <1>1, <1>2, <1>12 DEF Slots!SlotsNext

\* sHookers.put closes the only window there is.
LEMMA PutRefines ==
    ASSUME IInv, NEW t \in Thread, HookPut(t)
    PROVE  Slots!SlotsNext
<1> DEFINE w == [method |-> target[t], callback |-> callback[t]]
<1>0. TypeOK /\ Mutex
  BY DEF IInv
<1>1. \A u \in Thread : pc[u] = "put" <=> u = t
  BY <1>0 DEF HookPut, Mutex, TypeOK
<1>2. Windows = {w}
  BY <1>1 DEF Windows
<1>3. Windows' = {}
  <2>1. \A u \in Thread : pc'[u] # "put"
    BY <1>0, <1>1 DEF HookPut, Leave, TypeOK
  <2> QED
    BY <2>1 DEF Windows
<1>4. WovenHooks' = WovenHooks
  BY HooksUnchanged DEF HookPut
<1>5. sHookers' = [sHookers EXCEPT ![w.method] = w.callback]
  BY DEF HookPut
<1> HIDE DEF w
<1>6. Slots!Register
  BY <1>2, <1>3, <1>4, <1>5 DEF Slots!Register, HookPut, history
<1> QED
  BY <1>6 DEF Slots!SlotsNext

\* A class file with no hooks clears the class.
LEMMA ClearRefines ==
    ASSUME NEW c \in Class, c \in loaded, UNCHANGED << loaded, sHookers, refused >>,
           Windows' = Windows,
           \A m \in Method : code'[m] = IF ClassOf[m] = c THEN Original ELSE code[m]
    PROVE  Slots!SlotsNext
<1>1. ASSUME NEW h
      PROVE  h \in WovenHooks' <=> h \in Slots!Elsewhere(c)
  <2>1. ASSUME h \in WovenHooks'
        PROVE  h \in Slots!Elsewhere(c)
    <3>1. PICK n \in Method : code'[n].kinds # {} /\ h = HookOf(n)'
      BY <2>1 DEF WovenHooks, Woven, HookOf
    <3>2. ClassOf[n] # c /\ code'[n] = code[n]
      BY <3>1 DEF Original
    <3> QED
      BY <3>1, <3>2 DEF WovenHooks, Woven, HookOf, Slots!Elsewhere
  <2>2. ASSUME h \in Slots!Elsewhere(c)
        PROVE  h \in WovenHooks'
    <3>1. PICK n \in Method : code[n].kinds # {} /\ h = HookOf(n)
      BY <2>2 DEF WovenHooks, Woven, HookOf, Slots!Elsewhere
    <3>2. ClassOf[n] # c
      BY <2>2, <3>1 DEF HookOf, Slots!Elsewhere
    <3> QED
      BY <3>1, <3>2 DEF WovenHooks, Woven, HookOf
  <2> QED
    BY <2>1, <2>2
<1>2. Slots!Clear(c)
  BY <1>1 DEF Slots!Clear
<1> QED
  BY <1>2 DEF Slots!SlotsNext

LEMMA UnHookRefines ==
    ASSUME IInv, NEW t \in Thread, UnHookRetransform(t)
    PROVE  Slots!SlotsNext
<1> DEFINE c == ClassOf[target[t]]
<1>0. TypeOK /\ CallTransform /\ Mutex
  BY DEF IInv
<1>1. target[t] \in Method /\ c \in loaded /\ current_transform[t].id = NoMethod
  <2>1. target[t] # NoMethod
    BY <1>0 DEF CallTransform, UnHookRetransform
  <2> QED
    BY <1>0, <2>1 DEF CallTransform, UnHookRetransform, TypeOK
<1>2. c \in Class
  BY <1>1, ClassOfAssumption
<1>3. \A m \in Method : code'[m] = IF ClassOf[m] = c THEN Original ELSE code[m]
  BY <1>1, EmptyTransform DEF UnHookRetransform
<1>4. \A u \in Thread : pc[u] # "put" /\ pc'[u] # "put"
  BY <1>0 DEF UnHookRetransform, Mutex, Leave, TypeOK
<1>5. Windows' = Windows
  BY <1>4, WindowsUnchanged
<1> HIDE DEF c
<1> QED
  BY <1>1, <1>2, <1>3, <1>5, ClearRefines DEF UnHookRetransform

\* What a load or another agent may weave comes from a transform that was
\* left on the thread.
LEMMA ReviveRefines ==
    ASSUME RInv, NEW t \in AnyThread, NEW c \in Class,
           t \in Thread => pc[t] = "idle",
           code' = ClassFile(t, c), loaded' = loaded \cup {c},
           UNCHANGED << pc, target, callback, sHookers, refused >>
    PROVE  Slots!SlotsNext
<1> DEFINE tr == current_transform[t]
<1>0. IInv /\ TypeOK /\ LeftoverTransform
  BY DEF RInv, IInv
<1>1. Windows' = Windows
  BY WindowsUnchanged
<1>2. \A n \in Method : ClassOf[n] # c => code'[n] = code[n]
  BY ClassFileElsewhere
<1>3. \A n \in Method : ClassOf[n] = c =>
          code'[n] = IF Weaves(tr, n) THEN [id |-> tr.id, kinds |-> tr.kinds]
                     ELSE Original
  BY ClassFileHere
<1>4. ASSUME NEW h
      PROVE  h \in Slots!Elsewhere(c) => h \in WovenHooks'
  <2> SUFFICES ASSUME h \in WovenHooks, ClassOf[h.method] # c
               PROVE  h \in WovenHooks'
    BY DEF Slots!Elsewhere
  <2>1. PICK n \in Method : code[n].kinds # {} /\ h = HookOf(n)
    BY DEF WovenHooks, Woven, HookOf
  <2>2. ClassOf[n] # c
    BY <2>1 DEF HookOf
  <2> QED
    BY <1>2, <2>1, <2>2 DEF WovenHooks, Woven, HookOf
<1>5. ASSUME NEW h, h \in WovenHooks', h \notin Slots!Elsewhere(c)
      PROVE  \E n \in Method : /\ ClassOf[n] = c /\ Weaves(tr, n)
                              /\ h = [method |-> n, id |-> tr.id, kinds |-> tr.kinds]
  <2>1. PICK n \in Method : code'[n].kinds # {} /\ h = HookOf(n)'
    BY <1>5 DEF WovenHooks, Woven, HookOf
  <2>2. ClassOf[n] = c
    BY <1>2, <1>5, <2>1 DEF WovenHooks, Woven, HookOf, Slots!Elsewhere
  <2>3. Weaves(tr, n)
    BY <1>3, <2>1, <2>2 DEF Original
  <2> QED
    BY <1>3, <2>1, <2>2, <2>3 DEF HookOf
<1>6. CASE \A n \in Method : ClassOf[n] = c => ~Weaves(tr, n)
  <2>1. WovenHooks' = Slots!Elsewhere(c)
    BY <1>4, <1>5, <1>6
  <2>2. Slots!Revive(c)
    BY <1>1, <2>1 DEF Slots!Revive
  <2> QED
    BY <2>2 DEF Slots!SlotsNext
<1>7. CASE \E m \in Method : ClassOf[m] = c /\ Weaves(tr, m)
  <2>1. PICK m \in Method : ClassOf[m] = c /\ Weaves(tr, m)
    BY <1>7
  <2> DEFINE h0 == [method |-> m, id |-> tr.id, kinds |-> tr.kinds]
  <2>2. \A n \in Method : ClassOf[n] = c /\ Weaves(tr, n) => n = m
    BY <2>1, WeavesOne
  <2>3. m \in HasCode /\ tr.id # NoMethod /\ tr.kinds # {}
        /\ Sig[tr.id] = Sig[m] /\ tr.class = ClassName[c]
    BY <2>1 DEF Weaves
  <2>4. h0 \in Slots!Stale(c)
    <3>1. /\ t \in Thread /\ tr.id = target[t] /\ callback[t] \in Callback
          /\ tr.id \in Method /\ ClassOf[tr.id] \in loaded
          /\ tr.class = ClassName[ClassOf[tr.id]]
          /\ tr.kinds = Listeners[callback[t]]
      BY <1>0, <2>3, TransformLeft
    <3>2. sHookers[tr.id] # NoCallback \/ tr.id \in refused
      BY <1>0, <3>1, NullsAssumption DEF LeftoverTransform
    <3>3. tr.kinds \in {Listeners[b] : b \in Callback}
      BY <3>1
    <3> QED
      BY <2>1, <2>3, <3>1, <3>2, <3>3 DEF Slots!Stale
  <2>5. h0 \in WovenHooks'
    <3>1. code'[m] = [id |-> tr.id, kinds |-> tr.kinds]
      BY <1>3, <2>1
    <3> QED
      BY <2>3, <3>1 DEF WovenHooks, Woven
  <2>6. WovenHooks' = Slots!Elsewhere(c) \cup {h0}
    BY <1>4, <1>5, <2>2, <2>5
  <2> HIDE DEF h0
  <2>7. Slots!Revive(c)
    BY <1>1, <2>4, <2>6 DEF Slots!Revive
  <2> QED
    BY <2>7 DEF Slots!SlotsNext
<1> QED
  BY <1>6, <1>7

LEMMA RuntimeRefines == RInv /\ Runtime => Slots!SlotsNext
<1>1. ASSUME RInv, NEW t \in AnyThread, NEW c \in Class, LoadClass(t, c)
      PROVE  Slots!SlotsNext
  BY <1>1, ReviveRefines DEF LoadClass
<1>2. ASSUME RInv, NEW t \in ForeignThread, NEW c \in Class, ForeignRetransform(t, c)
      PROVE  Slots!SlotsNext
  <2>1. t \in AnyThread
    BY DEF AnyThread
  <2>2. loaded' = loaded \cup {c}
    BY <1>2 DEF ForeignRetransform
  <2> QED
    BY <1>2, <2>1, <2>2, ReviveRefines DEF ForeignRetransform
<1> QED
  BY <1>1, <1>2 DEF Runtime

----------------------------------------------------------------------------
LEMMA InitRefines == Init => Slots!SlotsInit
BY DEF Init, Slots!SlotsInit, WovenHooks, Woven, Original, Windows

LEMMA StepRefines == RInv /\ [Next]_vars => [Slots!SlotsNext]_(Slots!slotVars)
<1> SUFFICES ASSUME RInv, [Next]_vars
             PROVE  Slots!SlotsNext \/ UNCHANGED Slots!slotVars
  OBVIOUS
<1>0. IInv
  BY DEF RInv
<1>1. CASE \E t \in Thread : Hook(t)
  BY <1>0, <1>1, BeginRefines, RetransformRefines, FailRefines, PutRefines DEF Hook
<1>2. CASE \E t \in Thread : UnHook(t)
  BY <1>0, <1>2, BeginRefines, UnHookRefines, FailRefines DEF UnHook
<1>3. CASE Runtime
  BY <1>3, RuntimeRefines
<1>4. CASE UNCHANGED vars
  <2>1. Windows' = Windows /\ WovenHooks' = WovenHooks
    BY <1>4 DEF vars, Windows, WovenHooks, Woven
  <2> QED
    BY <1>4, <2>1 DEF vars, Slots!slotVars, history
<1> QED
  BY <1>1, <1>2, <1>3, <1>4 DEF Next

\* Jtik.hook and unHook, with the monitor, the transforms left on threads and
\* the load hook, implement HookSlots: one hook() at a time, the hooks of one
\* method in a class, and nothing else that weaves but what a transform left
\* over brings back.
THEOREM Refinement == Spec => ImplementsSlots
<1>1. Init => Slots!SlotsInit
  BY InitRefines
<1>2. RInv /\ [Next]_vars => [Slots!SlotsNext]_(Slots!slotVars)
  BY StepRefines
<1> QED
  BY <1>1, <1>2, RInvariance, PTL DEF Spec, ImplementsSlots, Slots!SlotsSpec
=============================================================================
