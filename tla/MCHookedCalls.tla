--------------------------- MODULE MCHookedCalls ---------------------------
(***************************************************************************)
(* An application class with one method and a boot class with one.         *)
(***************************************************************************)
EXTENDS HookedCalls, TLC

CONSTANTS t1, g1, p1, p2, app, sys, m1, s1, b1, b2, sig, nameA, nameS

MCClassOf == m1 :> app @@ s1 :> sys
MCClassName == app :> nameA @@ sys :> nameS
MCSig == m1 :> sig @@ s1 :> sig
\* Two callbacks that differ in what they listen to.
MCListeners == b1 :> {"enter", "exit"} @@ b2 :> {"param", "exit"}
MCReturnType == m1 :> "boolean" @@ s1 :> "object"

\* The runtime refuses hooks of the application's method only.
MCRefused == refused \subseteq {m1}
=============================================================================
