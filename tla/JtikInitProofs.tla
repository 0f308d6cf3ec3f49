--------------------------- MODULE JtikInitProofs ---------------------------
(***************************************************************************)
(* Proofs about JtikInit: after any number of failed init() calls and      *)
(* restarts, and with any number of attached agents.                       *)
(***************************************************************************)
EXTENDS JtikInit, TLAPS

\* What SetDebuggableRelease in one of the libraries leaves well formed.
LEMMA SetDebuggableType ==
    ASSUME TypeOK, NEW l \in Lib, NEW allow \in BOOLEAN, SetDebuggableRelease(l, allow)
    PROVE  /\ mOrgJdwpState' \in [Lib -> {"UNKNOWN", "ON", "OFF"}]
           /\ jdwp' \in BOOLEAN /\ debuggable' \in BOOLEAN
<1>1. OrgState(l) \in {"UNKNOWN", "ON", "OFF"}
  BY DEF TypeOK, Config, OrgState
<1>2. mOrgJdwpState[l] \in {"UNKNOWN", "ON", "OFF"}
  BY DEF TypeOK, Config
<1>3. mOrgJdwpState' \in [Lib -> {"UNKNOWN", "ON", "OFF"}]
  BY <1>1, <1>2 DEF TypeOK, Config, SetDebuggableRelease
<1>4. jdwp' \in BOOLEAN
  BY DEF TypeOK, Config, SetDebuggableRelease
<1>5. debuggable' \in BOOLEAN
  BY DEF TypeOK, Config, SetDebuggableRelease
<1> QED
  BY <1>3, <1>4, <1>5

\* Every step of init() keeps the state well formed.
LEMMA TypeStep == TypeOK /\ [Next]_vars => TypeOK'
<1> SUFFICES ASSUME TypeOK, [Next]_vars
             PROVE  TypeOK'
  OBVIOUS
<1> USE MaxEnvsAssumption DEF Config, AgentEnv
<1>1. CASE Begin \/ LoadLibraryFails \/ AttachFails
  BY <1>1 DEF TypeOK, Config, Begin, LoadLibraryFails, AttachFails, Fail, debugVars, agentVars
<1>2. CASE LoadLibrary
  <2>1. /\ mOrgJdwpState' \in [Lib -> {"UNKNOWN", "ON", "OFF"}]
        /\ jdwp' \in BOOLEAN /\ debuggable' \in BOOLEAN
    BY <1>2, SetDebuggableType DEF LoadLibrary, TypeOK, Lib
  <2> QED
    BY <1>2, <2>1 DEF TypeOK, Config, LoadLibrary, Lib, agentVars
<1>3. CASE Attach
  BY <1>3 DEF TypeOK, Config, Attach, debugVars
<1>4. CASE AfterAgent
  <2>1. /\ mOrgJdwpState' \in [Lib -> {"UNKNOWN", "ON", "OFF"}]
        /\ jdwp' \in BOOLEAN /\ debuggable' \in BOOLEAN
    BY <1>4, SetDebuggableType DEF AfterAgent, TypeOK, Lib
  <2>2. bootPath' \in BOOLEAN /\ libs' = libs /\ pc' \in {"copy", "idle"}
        /\ sInitialized' \in BOOLEAN
    BY <1>4 DEF AfterAgent, TypeOK
  <2> QED
    BY <1>4, <2>1, <2>2 DEF TypeOK, Config, AfterAgent
<1>5. CASE AfterAgentFails
  <2>1. bridge' \in BOOLEAN
    BY <1>5 DEF TypeOK, Config, AfterAgentFails
  <2> QED
    BY <1>5, <2>1 DEF TypeOK, Config, AfterAgentFails, Fail, debugVars
<1>6. CASE CopyLibrary
  <2>1. pub' \in {"absent", "partial", "whole"}
    BY <1>6 DEF TypeOK, Config, CopyLibrary
  <2> QED
    BY <1>6, <2>1 DEF TypeOK, Config, CopyLibrary, debugVars, agentVars
<1>7. CASE Weave \/ Unweave
  BY <1>7 DEF TypeOK, Config, Weave, Unweave, debugVars, agentVars
<1>8. CASE LoadPub
  <2>1. /\ mOrgJdwpState' \in [Lib -> {"UNKNOWN", "ON", "OFF"}]
        /\ jdwp' \in BOOLEAN /\ debuggable' \in BOOLEAN
    BY <1>8, SetDebuggableType DEF LoadPub, Lib
  <2> QED
    BY <1>8, <2>1 DEF TypeOK, Config, LoadPub, Lib, agentVars
<1>9. CASE Restart
  <2>1. pub' \in {"absent", "partial", "whole"}
    BY <1>9 DEF TypeOK, Config, Restart
  <2>2. 0 \in 0..MaxEnvs
    OBVIOUS
  <2>3. config.jdwp \in BOOLEAN
    BY DEF TypeOK, Config
  <2> QED
    BY <1>9, <2>1, <2>2, <2>3 DEF TypeOK, Config, Restart
<1>10. CASE UNCHANGED vars
  BY <1>10 DEF TypeOK, Config, vars, debugVars, agentVars
<1> QED
  BY <1>1, <1>2, <1>3, <1>4, <1>5, <1>6, <1>7, <1>8, <1>9, <1>10 DEF Next

\* What jtik.cc does when it knows what JDWP was when the process started.
LEMMA SetDebuggableEffect ==
    ASSUME TypeOK, NEW allow \in BOOLEAN, SetDebuggableRelease("jtik", allow),
           config.art # "none" =>
              OrgState("jtik") = IF config.jdwp THEN "ON" ELSE "OFF"
    PROVE  /\ mOrgJdwpState'["jtik"] =
                IF config.art = "none" THEN mOrgJdwpState["jtik"]
                ELSE IF config.jdwp THEN "ON" ELSE "OFF"
           /\ mOrgJdwpState'["pub"] = mOrgJdwpState["pub"]
           /\ jdwp' = IF config.art \in {"whole", "noDebug"} /\ ~config.jdwp
                      THEN allow ELSE jdwp
           /\ debuggable' = IF \/ config.art = "whole"
                               \/ config.art = "noJdwp" /\ config.jdwp
                            THEN allow ELSE debuggable
<1>1. config.jdwp \in BOOLEAN
  BY DEF TypeOK, Config
<1>2. /\ mOrgJdwpState'["jtik"] =
            IF config.art = "none" THEN mOrgJdwpState["jtik"] ELSE OrgState("jtik")
      /\ mOrgJdwpState'["pub"] = mOrgJdwpState["pub"]
  BY DEF SetDebuggableRelease, TypeOK, Lib
<1>3. jdwp' = IF config.art \in {"whole", "noDebug"} /\ OrgState("jtik") = "OFF"
              THEN allow ELSE jdwp
  BY DEF SetDebuggableRelease
<1>4. debuggable' = IF \/ config.art = "whole"
                       \/ config.art = "noJdwp" /\ OrgState("jtik") = "ON"
                    THEN allow ELSE debuggable
  BY DEF SetDebuggableRelease
<1> QED
  BY <1>1, <1>2, <1>3, <1>4

----------------------------------------------------------------------------
(* The inductive step.                                                     *)

\* Steps that leave alone what the invariant says of debugging.
LEMMA DebugUnchanged ==
    ASSUME IInv, UNCHANGED << config, debugVars >>
    PROVE  OrgRemembered' /\ (Restored => Restored')
BY DEF IInv, OrgRemembered, Restored, debugVars

\* The first load of the library turns debugging on, and remembers the state
\* from before; a later one does nothing.
LEMMA LoadLibraryStep ==
    ASSUME IInv, TypeOK', LoadLibrary
    PROVE  IInv'
<1> USE DEF IInv
<1>1. AgentProgress'
  BY DEF LoadLibrary, AgentProgress, Ready, agentVars
<1>2. LoadOrder'
  BY DEF LoadLibrary, LoadOrder
<1>3. OrgRemembered'
  <2>1. CASE "jtik" \in libs
    BY <2>1 DEF LoadLibrary, OrgRemembered
  <2>2. CASE "jtik" \notin libs
    <3>1. mOrgJdwpState["jtik"] = "UNKNOWN" /\ jdwp = config.jdwp
      BY <2>2 DEF OrgRemembered
    <3>2. SetDebuggableRelease("jtik", TRUE) /\ libs' = libs \cup {"jtik"} /\ config' = config
      BY <2>2 DEF LoadLibrary
    <3>3. OrgState("jtik") = IF config.jdwp THEN "ON" ELSE "OFF"
      BY <3>1 DEF OrgState
    <3>4. config.jdwp \in BOOLEAN
      BY DEF TypeOK, Config
    <3>5. /\ mOrgJdwpState'["jtik"] =
                IF config.art = "none" THEN mOrgJdwpState["jtik"]
                ELSE IF config.jdwp THEN "ON" ELSE "OFF"
          /\ mOrgJdwpState'["pub"] = mOrgJdwpState["pub"]
          /\ jdwp' = IF config.art \in {"whole", "noDebug"} /\ ~config.jdwp
                     THEN TRUE ELSE jdwp
          /\ debuggable' = IF \/ config.art = "whole"
                              \/ config.art = "noJdwp" /\ config.jdwp
                           THEN TRUE ELSE debuggable
      BY <3>2, <3>3, SetDebuggableEffect
    <3> QED
      BY <3>1, <3>2, <3>4, <3>5 DEF OrgRemembered
  <2> QED
    BY <2>1, <2>2
<1>4. pc' = "attach" /\ ~sInitialized'
  BY DEF LoadLibrary, AgentProgress, Ready
<1> QED
  BY <1>1, <1>2, <1>3, <1>4 DEF ReleaseRestored

\* JtikInitAfterAgent turns debugging off again if it is asked to.
LEMMA AfterAgentStep ==
    ASSUME IInv, TypeOK', AfterAgent
    PROVE  IInv'
<1> USE DEF IInv
<1>0. /\ pc = "after" /\ ~sInitialized /\ "jtik" \in libs
      /\ libs' = libs /\ config' = config
      /\ bridge' /\ (config.saveLoader => loader') /\ envs' = envs /\ agentEnv' = agentEnv /\ calls' = calls
      /\ \/ pc' = "copy" /\ ~sInitialized'
         \/ pc' = "idle" /\ sInitialized'
  BY DEF AfterAgent, AgentProgress, Ready, LoadOrder
<1>1. AgentProgress'
  BY <1>0 DEF AgentProgress, Ready
<1>2. LoadOrder'
  BY <1>0 DEF LoadOrder
<1>3. OrgRemembered' /\ (config.setNonDebuggable => Restored')
  <2>1. CASE ~config.setNonDebuggable
    BY <1>0, <2>1 DEF AfterAgent, OrgRemembered
  <2>2. CASE config.setNonDebuggable
    <3>1. SetDebuggableRelease("jtik", FALSE)
      BY <2>2 DEF AfterAgent
    <3>2. config.art # "none" =>
            OrgState("jtik") = IF config.jdwp THEN "ON" ELSE "OFF"
      BY <1>0 DEF OrgRemembered, OrgState
    <3>3. config.jdwp \in BOOLEAN /\ jdwp \in BOOLEAN /\ config.art \in Art
      BY DEF TypeOK, Config
    <3>4. /\ mOrgJdwpState'["jtik"] =
                IF config.art = "none" THEN mOrgJdwpState["jtik"]
                ELSE IF config.jdwp THEN "ON" ELSE "OFF"
          /\ mOrgJdwpState'["pub"] = mOrgJdwpState["pub"]
          /\ jdwp' = IF config.art \in {"whole", "noDebug"} /\ ~config.jdwp
                     THEN FALSE ELSE jdwp
          /\ debuggable' = IF \/ config.art = "whole"
                              \/ config.art = "noJdwp" /\ config.jdwp
                           THEN FALSE ELSE debuggable
      BY <3>1, <3>2, SetDebuggableEffect
    <3>5. jdwp' = config.jdwp
      BY <3>3, <3>4 DEF OrgRemembered, Art
    <3> QED
      BY <1>0, <3>3, <3>4, <3>5 DEF OrgRemembered, Restored
  <2> QED
    BY <2>1, <2>2
<1> QED
  BY <1>0, <1>1, <1>2, <1>3 DEF ReleaseRestored

\* The public copy of the library asks for debugging with a memory of its own;
\* it was loaded after init().
LEMMA LoadPubStep ==
    ASSUME IInv, TypeOK', LoadPub
    PROVE  IInv'
<1> USE DEF IInv
<1>0. /\ sInitialized /\ "jtik" \in libs /\ libs' = libs \cup {"pub"}
      /\ UNCHANGED << config, pc, sInitialized, agentVars, pub, calls >>
      /\ pc = "idle"
  BY DEF LoadPub, LoadOrder, AgentProgress, Ready, TypeOK, Config
<1>1. AgentProgress' /\ LoadOrder'
  BY <1>0 DEF AgentProgress, Ready, LoadOrder, agentVars
<1>2. mOrgJdwpState'["jtik"] = mOrgJdwpState["jtik"]
  BY DEF LoadPub, SetDebuggableRelease, TypeOK, Lib
<1>3. config.jdwp => jdwp'
  BY DEF LoadPub, SetDebuggableRelease, OrgRemembered, TypeOK, Config
<1>4. config.art \in {"none", "noJdwp"} => jdwp' = jdwp
  BY DEF LoadPub, SetDebuggableRelease
<1>5. config.art = "noJdwp" /\ ~config.jdwp => ~debuggable'
  <2> SUFFICES ASSUME config.art = "noJdwp", ~config.jdwp
               PROVE  debuggable' = debuggable
    BY DEF OrgRemembered
  <2>1. ~jdwp
    BY DEF OrgRemembered, TypeOK, Config
  <2>2. mOrgJdwpState["pub"] = "UNKNOWN"
    BY DEF LoadPub, OrgRemembered
  <2> QED
    BY <2>1, <2>2 DEF LoadPub, SetDebuggableRelease, OrgState
<1>6. config.jdwp \in BOOLEAN /\ jdwp' \in BOOLEAN
  BY DEF TypeOK, Config
<1>7. OrgRemembered'
  BY <1>0, <1>2, <1>3, <1>4, <1>5, <1>6 DEF OrgRemembered
<1> QED
  BY <1>0, <1>1, <1>7 DEF ReleaseRestored

\* The other steps do not touch debugging, or start the process again.
LEMMA OtherSteps ==
    ASSUME IInv, TypeOK',
           \/ Begin \/ LoadLibraryFails \/ Attach \/ AttachFails \/ AfterAgentFails
           \/ CopyLibrary \/ Weave \/ Unweave \/ UNCHANGED vars
    PROVE  IInv'
<1> USE DEF IInv
<1>1. UNCHANGED << config, debugVars >>
  BY DEF Begin, LoadLibraryFails, Attach, AttachFails, AfterAgentFails,
         CopyLibrary, Weave, Unweave, vars
<1>2. OrgRemembered' /\ (Restored => Restored') /\ libs' = libs /\ config' = config
  BY <1>1, DebugUnchanged DEF debugVars
<1>3. CASE Begin \/ LoadLibraryFails \/ AttachFails \/ AfterAgentFails
  <2>1. ~sInitialized
    BY <1>3 DEF Begin, LoadLibraryFails, AttachFails, AfterAgentFails, AgentProgress, Ready
  <2>2. sInitialized' = sInitialized /\ calls' = calls
    BY <1>3 DEF Begin, LoadLibraryFails, AttachFails, AfterAgentFails, Fail
  <2>3. pc' \in {"idle", "load"}
    BY <1>3 DEF Begin, LoadLibraryFails, AttachFails, AfterAgentFails, Fail
  <2> QED
    BY <1>2, <2>1, <2>2, <2>3 DEF AgentProgress, Ready, LoadOrder, ReleaseRestored
<1>4. CASE Attach
  <2>1. /\ pc = "attach" /\ pc' = "after" /\ ~sInitialized /\ sInitialized' = sInitialized
        /\ \/ agentEnv' = "enabled" /\ envs' = envs + 1
           \/ agentEnv' = "silent"
        /\ calls' = calls
    BY <1>4 DEF Attach, AgentProgress, Ready
  <2>2. agentEnv' = "enabled" => envs' > 0
    BY <2>1, MaxEnvsAssumption DEF TypeOK, Config
  <2> QED
    BY <1>2, <2>1, <2>2 DEF AgentProgress, Ready, LoadOrder, ReleaseRestored
<1>5. CASE CopyLibrary
  <2>1. /\ pc = "copy" /\ pc' = "idle" /\ sInitialized' /\ calls' = calls
        /\ UNCHANGED << envs, agentEnv, bridge, loader >>
    BY <1>5 DEF CopyLibrary, agentVars
  <2> QED
    BY <1>2, <2>1 DEF AgentProgress, Ready, LoadOrder, ReleaseRestored
<1>6. CASE Weave \/ Unweave
  <2>1. /\ sInitialized /\ pc' = pc /\ sInitialized' = sInitialized
        /\ UNCHANGED << envs, agentEnv, bridge, loader >>
    BY <1>6 DEF Weave, Unweave, agentVars
  <2> QED
    BY <1>2, <2>1 DEF AgentProgress, Ready, LoadOrder, ReleaseRestored
<1>7. CASE UNCHANGED vars
  BY <1>2, <1>7 DEF vars, agentVars, AgentProgress, Ready, LoadOrder, ReleaseRestored
<1> QED
  BY <1>3, <1>4, <1>5, <1>6, <1>7

\* A new process remembers nothing.
LEMMA RestartStep ==
    ASSUME IInv, TypeOK', Restart
    PROVE  IInv'
<1> USE DEF IInv
<1>1. config.jdwp \in BOOLEAN /\ config' = config
  BY DEF TypeOK, Config, Restart
<1>2. AgentProgress' /\ LoadOrder' /\ ReleaseRestored'
  BY DEF Restart, AgentProgress, Ready, LoadOrder, ReleaseRestored
<1>3. OrgRemembered'
  BY <1>1 DEF Restart, OrgRemembered, Lib
<1> QED
  BY <1>2, <1>3 DEF Restart

LEMMA InitIInv == Init => IInv
<1> SUFFICES ASSUME Init
             PROVE  IInv
  OBVIOUS
<1>1. config.jdwp \in BOOLEAN /\ 0 \in 0..MaxEnvs
  BY MaxEnvsAssumption DEF Init, Config
<1>2. TypeOK
  BY <1>1 DEF Init, TypeOK, AgentEnv, Config
<1>3. AgentProgress /\ LoadOrder /\ ReleaseRestored
  BY DEF Init, AgentProgress, Ready, LoadOrder, ReleaseRestored
<1>4. OrgRemembered
  BY <1>1 DEF Init, OrgRemembered, Lib
<1> QED
  BY <1>2, <1>3, <1>4 DEF Init, IInv

\* The inductive invariant holds in every reachable state.
THEOREM Invariance == Spec => []IInv
<1>1. IInv /\ [Next]_vars => IInv'
  <2> SUFFICES ASSUME IInv, [Next]_vars
               PROVE  IInv'
    OBVIOUS
  <2>1. TypeOK'
    BY TypeStep DEF IInv
  <2> QED
    BY <2>1, LoadLibraryStep, AfterAgentStep, LoadPubStep, OtherSteps, RestartStep
       DEF Next
<1> QED
  BY <1>1, InitIInv, PTL DEF Spec

\* The state is always well formed.
THEOREM TypeCorrect == Spec => []TypeOK
<1>1. IInv => TypeOK
  BY DEF IInv
<1> QED
  BY <1>1, Invariance, PTL

\* When init() has returned true, hook() finds an agent that can retransform,
\* the names of the bridge, and the class loader.
THEOREM InitReady == Spec => []InitializedIsReady
<1>1. IInv => InitializedIsReady
  BY DEF IInv, AgentProgress, Ready, InitializedIsReady
<1> QED
  BY <1>1, Invariance, PTL

\* With setNonDebuggableState, init() leaves JDWP as the process found it.
THEOREM DebugRestored == Spec => []ReleaseRestored
<1>1. IInv => ReleaseRestored
  BY DEF IInv
<1> QED
  BY <1>1, Invariance, PTL
=============================================================================
