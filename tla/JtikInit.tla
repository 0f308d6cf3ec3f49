----------------------------- MODULE JtikInit -----------------------------
(***************************************************************************)
(* Jtik.init: load the native library, attach the JVMTI agent, tell the    *)
(* agent about the bridge, copy the library for other class loaders.       *)
(*                                                                         *)
(* init is synchronized and returns false when a step fails, keeping what  *)
(* the steps before it did; the application may call it again.  Loading    *)
(* the library makes the runtime debuggable, so that it accepts an agent;  *)
(* the last step takes that back.  The process may die at any point: only  *)
(* the copied file survives.                                               *)
(*                                                                         *)
(* RetransformClasses passes the class file through the load hook of every *)
(* attached jvmtiEnv, each of which weaves the hooks once.                 *)
(***************************************************************************)
EXTENDS Integers

CONSTANT MaxEnvs    \* bound on the agents attached to one process
ASSUME MaxEnvsAssumption == MaxEnvs \in Nat \ {0}

VARIABLES
    config,        \* JtikConfig, and what the runtime lets jtik.cc do
    pc,            \* the next step of the init() in progress
    sInitialized,
    libs,          \* native libraries loaded: jtik, and its public copy
    mOrgJdwpState, \* of each of these libraries
    jdwp,          \* Dbg::IsJdwpAllowed
    debuggable,    \* Runtime::IsJavaDebuggable
    envs,          \* attached jvmtiEnvs whose ClassFileLoadHook is enabled
    agentEnv,      \* sAgentJvmtiEnv: see AgentEnv
    bridge,        \* HookBridge::Init has been called
    loader,        \* sHookerClassLoader is set
    bootPath,      \* the package is on the boot class loader's search path
    pub,           \* the copied library file
    calls          \* calls of the exit hook before a return of a hooked method

agentVars == << envs, agentEnv, bridge, loader, bootPath >>
debugVars == << libs, mOrgJdwpState, jdwp, debuggable >>
vars == << config, pc, sInitialized, debugVars, agentVars, pub, calls >>

Lib == {"jtik", "pub"}

\* libart.so: not to be opened, without SetJdwpAllowed, without
\* SetJavaDebuggable, or with all that jtik.cc looks for.
Art == {"none", "noJdwp", "noDebug", "whole"}

\* No jvmtiEnv, one without capabilities, one whose ClassFileLoadHook event is
\* disabled, one that weaves.
AgentEnv == {"null", "bare", "silent", "enabled"}

Config ==
    [hookSystem : BOOLEAN,        \* needHookSystemClass
     separate : BOOLEAN,          \* inSeparateClassLoader
     setNonDebuggable : BOOLEAN,
     jdwp : BOOLEAN,              \* JDWP allowed when the process starts
     art : Art,
     saveLoader : BOOLEAN]        \* the agent exports the function that saves
                                  \* the class loader

TypeOK ==
    /\ config \in Config
    /\ pc \in {"idle", "load", "attach", "after", "copy"}
    /\ sInitialized \in BOOLEAN
    /\ libs \subseteq Lib
    /\ mOrgJdwpState \in [Lib -> {"UNKNOWN", "ON", "OFF"}]
    /\ jdwp \in BOOLEAN /\ debuggable \in BOOLEAN
    /\ envs \in 0..MaxEnvs
    /\ agentEnv \in AgentEnv
    /\ bridge \in BOOLEAN /\ loader \in BOOLEAN /\ bootPath \in BOOLEAN
    /\ pub \in {"absent", "partial", "whole"}
    /\ calls \in 0..MaxEnvs

\* A process the runtime lets JDWP debug is debuggable from the start.
Init ==
    /\ config \in Config
    /\ pc = "idle" /\ sInitialized = FALSE
    /\ libs = {} /\ mOrgJdwpState = [l \in Lib |-> "UNKNOWN"]
    /\ jdwp = config.jdwp /\ debuggable = config.jdwp
    /\ envs = 0 /\ agentEnv = "null" /\ bridge = FALSE /\ loader = FALSE
    /\ bootPath = FALSE
    /\ pub = "absent"
    /\ calls = 0

----------------------------------------------------------------------------
(* SetDebuggableRelease, in library l.                                     *)

\* A variant that forgets the state of JDWP between calls.
OrgStateNow(l) == IF jdwp THEN "ON" ELSE "OFF"

\* The state of JDWP when this library first asked.
OrgState(l) ==
    IF mOrgJdwpState[l] # "UNKNOWN" THEN mOrgJdwpState[l]
    ELSE IF jdwp THEN "ON" ELSE "OFF"

\* The function returns early when a symbol of libart.so is missing: JDWP is
\* set before the debuggable state, and only if it was off.
SetDebuggableRelease(l, allow) ==
    /\ mOrgJdwpState' = [mOrgJdwpState EXCEPT
            ![l] = IF config.art = "none" THEN @ ELSE OrgState(l)]
    /\ jdwp' = IF config.art \in {"whole", "noDebug"} /\ OrgState(l) = "OFF"
               THEN allow ELSE jdwp
    /\ debuggable' = IF \/ config.art = "whole"
                        \/ config.art = "noJdwp" /\ OrgState(l) = "ON"
                     THEN allow ELSE debuggable

----------------------------------------------------------------------------
(* Jtik.init                                                               *)

Begin ==
    /\ pc = "idle"
    /\ ~sInitialized
    /\ pc' = "load"
    /\ UNCHANGED << config, sInitialized, debugVars, agentVars, pub, calls >>

\* init() returns false, or throws what it does not catch.
Fail == pc' = "idle" /\ UNCHANGED sInitialized

\* nativeLibLoader.load: the first time, JNI_OnLoad turns debugging on.
LoadLibrary ==
    /\ pc = "load"
    /\ pc' = "attach"
    /\ libs' = libs \cup {"jtik"}
    /\ IF "jtik" \in libs THEN UNCHANGED << mOrgJdwpState, jdwp, debuggable >>
       ELSE SetDebuggableRelease("jtik", TRUE)
    /\ UNCHANGED << config, sInitialized, agentVars, pub, calls >>

LoadLibraryFails ==
    /\ pc = "load"
    /\ Fail
    /\ UNCHANGED << config, debugVars, agentVars, pub, calls >>

\* attachJvmtiAgent, and Agent_OnAttach: a new jvmtiEnv each time.  What
\* SetEventNotificationMode returns is ignored.
Attach ==
    /\ pc = "attach"
    /\ jdwp /\ debuggable
    /\ envs < MaxEnvs
    /\ pc' = "after"
    /\ \/ envs' = envs + 1 /\ agentEnv' = "enabled"
       \/ envs' = envs /\ agentEnv' = "silent"
    /\ UNCHANGED << config, sInitialized, debugVars, bridge, loader, bootPath, pub, calls >>

\* The runtime refuses the agent (Agent_OnAttach is not called), or it has no
\* jvmtiEnv for it, or no capabilities.
AttachFails ==
    /\ pc = "attach"
    /\ Fail
    /\ \/ UNCHANGED agentEnv
       \/ jdwp /\ agentEnv' \in {"null", "bare"}
    /\ UNCHANGED << config, debugVars, envs, bridge, loader, bootPath, pub, calls >>

\* JtikInitAfterAgent.  It goes on without a function that saves the class
\* loader, and ignores what AddToBootstrapClassLoaderSearch returns.
AfterAgent ==
    /\ pc = "after"
    /\ bridge' = TRUE
    /\ loader' = (loader \/ config.saveLoader)
    /\ bootPath' \in IF config.hookSystem THEN {bootPath, TRUE} ELSE {bootPath}
    /\ IF config.setNonDebuggable
       THEN SetDebuggableRelease("jtik", FALSE)
       ELSE UNCHANGED << mOrgJdwpState, jdwp, debuggable >>
    /\ IF config.hookSystem \/ config.separate
       THEN pc' = "copy" /\ UNCHANGED sInitialized
       ELSE pc' = "idle" /\ sInitialized' = TRUE
    /\ UNCHANGED << config, libs, envs, agentEnv, pub, calls >>

\* A variant whose result init() does not look at.
AfterAgentFailsUnnoticed ==
    /\ pc = "after"
    /\ pc' = "idle" /\ sInitialized' = TRUE
    /\ bridge' \in {bridge, TRUE}
    /\ UNCHANGED << config, debugVars, envs, agentEnv, loader, bootPath, pub, calls >>

\* It returns false before it has set the bridge, or before it has saved the
\* class loader.
AfterAgentFails ==
    /\ pc = "after"
    /\ Fail
    /\ bridge' \in {bridge, TRUE}
    /\ UNCHANGED << config, debugVars, envs, agentEnv, loader, bootPath, pub, calls >>

\* FileCopy: the result is only logged, init() succeeds in any case.  A file
\* that cannot be opened stays as it is, a copy that breaks off is partial.
CopyLibrary ==
    /\ pc = "copy"
    /\ pub' \in {"whole", "partial", pub}
    /\ pc' = "idle"
    /\ sInitialized' = TRUE
    /\ UNCHANGED << config, debugVars, agentVars, calls >>

----------------------------------------------------------------------------
(* After init                                                              *)

\* Jtik.hook and unHook: the class file goes through every enabled jvmtiEnv.
Weave ==
    /\ sInitialized
    /\ calls' = envs
    /\ UNCHANGED << config, pc, sInitialized, debugVars, agentVars, pub >>

Unweave ==
    /\ sInitialized
    /\ calls' = 0
    /\ UNCHANGED << config, pc, sInitialized, debugVars, agentVars, pub >>

\* HookBridge.checkHooked of a woven method loads the public copy, whose own
\* JNI_OnLoad turns debugging on.
LoadPub ==
    /\ calls > 0
    /\ pub = "whole"
    /\ "pub" \notin libs
    /\ libs' = libs \cup {"pub"}
    /\ SetDebuggableRelease("pub", TRUE)
    /\ UNCHANGED << config, pc, sInitialized, agentVars, pub, calls >>

\* The process dies, possibly in the middle of the copy, and starts again.
Restart ==
    /\ pc' = "idle" /\ sInitialized' = FALSE
    /\ libs' = {} /\ mOrgJdwpState' = [l \in Lib |-> "UNKNOWN"]
    /\ jdwp' = config.jdwp /\ debuggable' = config.jdwp
    /\ envs' = 0 /\ agentEnv' = "null" /\ bridge' = FALSE /\ loader' = FALSE
    /\ bootPath' = FALSE
    /\ calls' = 0
    /\ pub' \in IF pc = "copy" THEN {pub, "partial"} ELSE {pub}
    /\ UNCHANGED config

Next ==
    \/ Begin \/ LoadLibrary \/ LoadLibraryFails \/ Attach \/ AttachFails
    \/ AfterAgent \/ AfterAgentFails \/ CopyLibrary
    \/ Weave \/ Unweave \/ LoadPub \/ Restart

Spec == Init /\ [][Next]_vars

----------------------------------------------------------------------------
(* Properties                                                              *)

\* Once init() has returned true hook() has all it needs: in sAgentJvmtiEnv a
\* jvmtiEnv with capabilities, enabled unless SetEventNotificationMode failed
\* unnoticed, the names of the bridge, and the hooker's class loader if the
\* agent can save it.  However often init() failed before, and wherever.
Ready ==
    /\ (agentEnv = "silent" \/ (agentEnv = "enabled" /\ envs > 0))
    /\ bridge
    /\ config.saveLoader => loader

InitializedIsReady == sInitialized => Ready

\* With setNonDebuggableState, after init() JDWP is as the process found it
\* and the runtime is not debuggable if jtik.cc could reach the switch, as long
\* as nobody has loaded the public copy of the library: mOrgJdwpState
\* remembers the state of JDWP from before the library's own change, through
\* any number of failed init() calls.
Restored ==
    /\ jdwp = config.jdwp
    /\ config.art \in {"whole", "noJdwp"} => ~debuggable

ReleaseRestored ==
    sInitialized /\ config.setNonDebuggable /\ "pub" \notin libs => Restored

\* instrumentation.h:88: "Insert a call to the "exit hook" method before every
\* return".  It does not hold after an init() that failed past the attach and
\* was called again: each attached jvmtiEnv inserts its own.
OneExitCall == calls <= 1

----------------------------------------------------------------------------
(* The inductive invariant behind InitializedIsReady and ReleaseRestored.  *)

\* How far init() is says what the agent has been told.
AgentProgress ==
    /\ sInitialized => pc = "idle"
    /\ pc = "after" => (agentEnv = "silent" \/ (agentEnv = "enabled" /\ envs > 0))
    /\ pc = "copy" \/ sInitialized => Ready

\* Hooks, and the public copy of the library, come after init(); the agent
\* comes after the library.
LoadOrder ==
    /\ calls > 0 \/ "pub" \in libs => sInitialized
    /\ pc \in {"attach", "after", "copy"} \/ sInitialized => "jtik" \in libs

\* The library remembers what JDWP was when the process started, and what it
\* cannot reach in libart.so stays so.
OrgRemembered ==
    /\ mOrgJdwpState["jtik"] =
            IF "jtik" \in libs /\ config.art # "none"
            THEN IF config.jdwp THEN "ON" ELSE "OFF"
            ELSE "UNKNOWN"
    /\ "pub" \notin libs => mOrgJdwpState["pub"] = "UNKNOWN"
    /\ "jtik" \notin libs \/ config.jdwp \/ config.art \in {"none", "noJdwp"}
            => jdwp = config.jdwp
    /\ config.art = "noJdwp" /\ ~config.jdwp => ~debuggable

\* With every failure and retry of init(), the copy of the library starts
\* from a state that is restored.
IInv ==
    /\ TypeOK
    /\ AgentProgress
    /\ LoadOrder
    /\ OrgRemembered
    /\ pc = "copy" /\ config.setNonDebuggable => Restored
    /\ ReleaseRestored
=============================================================================
