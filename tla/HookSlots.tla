----------------------------- MODULE HookSlots -----------------------------
(***************************************************************************)
(* What Jtik.hook and Jtik.unHook amount to, without threads, transforms   *)
(* and the monitor: a class has room for the hooks of one method.          *)
(* HookLifecycle implements this.                                          *)
(*                                                                         *)
(* A hook() weaves its method, evicts whatever else is woven into the      *)
(* class, and is followed by the registration of its callback before any   *)
(* other hook() does something.  unHook empties a class.  Hooks come up by *)
(* themselves only in a class that is being loaded, or retransformed by    *)
(* another agent, and has the name of one hooked before.                   *)
(***************************************************************************)
CONSTANTS Class, Method, Callback, ClassOf, ClassName, Sig, Listeners,
          HasCode, NoCallback

VARIABLES
    loaded,      \* classes that are loaded
    woven,       \* the hooks in place: a set of [method, id, kinds]
    window,      \* hooks woven whose callback is still to be registered
    registered,  \* [Method -> callback]
    refused      \* methods whose hook() has failed

slotVars == << loaded, woven, window, registered, refused >>

SlotsInit ==
    /\ loaded = {}
    /\ woven = {}
    /\ window = {}
    /\ registered = [m \in Method |-> NoCallback]
    /\ refused = {}

\* What is left when the class c is retransformed.
Elsewhere(c) == {h \in woven : ClassOf[h.method] # c}

\* The hooks of m for the callback b: none if there is nothing to weave.
HooksFor(m, b) ==
    {h \in {[method |-> m, id |-> m, kinds |-> Listeners[b]]} :
        m \in HasCode /\ Listeners[b] # {}}

\* hook(): the class of m is retransformed.
Install(m, b) ==
    /\ window = {}
    /\ ClassOf[m] \in loaded
    /\ woven' = Elsewhere(ClassOf[m]) \cup HooksFor(m, b)
    /\ window' = {[method |-> m, callback |-> b]}
    /\ UNCHANGED << loaded, registered, refused >>

\* hook(): the callback is registered.
Register ==
    \E w \in window :
        /\ registered' = [registered EXCEPT ![w.method] = w.callback]
        /\ window' = window \ {w}
        /\ UNCHANGED << loaded, woven, refused >>

\* hook() fails: nothing but its record.
Refuse(m) ==
    /\ window = {}
    /\ ClassOf[m] \in loaded
    /\ refused' = refused \cup {m}
    /\ UNCHANGED << loaded, woven, window, registered >>

\* unHook() of a method of c: the class is as compiled.
Clear(c) ==
    /\ c \in loaded
    /\ woven' = Elsewhere(c)
    /\ UNCHANGED << loaded, window, registered, refused >>

\* Hooks left over for c: those of a method of a loaded class of the same
\* name that is registered or was refused.
Stale(c) ==
    {h \in [method : HasCode, id : Method, kinds : {Listeners[b] : b \in Callback}] :
        /\ ClassOf[h.method] = c
        /\ ClassOf[h.id] \in loaded
        /\ ClassName[ClassOf[h.id]] = ClassName[c]
        /\ Sig[h.id] = Sig[h.method]
        /\ registered[h.id] # NoCallback \/ h.id \in refused}

\* c is loaded, or another agent retransforms it: it gets the hooks of at most
\* one method back.
Revive(c) ==
    /\ loaded' = loaded \cup {c}
    /\ \/ woven' = Elsewhere(c)
       \/ \E h \in Stale(c) : woven' = Elsewhere(c) \cup {h}
    /\ UNCHANGED << window, registered, refused >>

SlotsNext ==
    \/ \E m \in Method, b \in Callback : Install(m, b)
    \/ Register
    \/ \E m \in Method : Refuse(m)
    \/ \E c \in Class : Clear(c) \/ Revive(c)

SlotsSpec == SlotsInit /\ [][SlotsNext]_slotVars
=============================================================================
