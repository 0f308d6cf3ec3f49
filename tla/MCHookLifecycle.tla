-------------------------- MODULE MCHookLifecycle --------------------------
(***************************************************************************)
(* Two classes of one name, in two loaders.  The first declares two        *)
(* methods; the second declares one with the name and signature of m1.     *)
(* Another agent retransforms on any thread, those that hook included.     *)
(***************************************************************************)
EXTENDS HookLifecycle, TLC

CONSTANTS t1, t2, g1, c1, c2, m1, m2, m4, b1, b2,
    sigA, sigB, nameC

MCClassOf == m1 :> c1 @@ m2 :> c1 @@ m4 :> c2
MCClassName == c1 :> nameC @@ c2 :> nameC
MCSig == m1 :> sigA @@ m2 :> sigB @@ m4 :> sigA
MCListeners == b1 :> {"enter", "exit"} @@ b2 :> {"param", "exit"}

MCSymmetry == Permutations({t1, t2})

\* The runtime refuses the hooks of one method, any number of times.
MCOneRefused == Cardinality(refused) =< 1
=============================================================================
