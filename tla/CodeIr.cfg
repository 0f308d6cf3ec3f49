SPECIFICATION Spec
CONSTANTS
    Methods <- MCMethods
    Hooks <- MCHooks
    ShortRange = 8
    TryRange = 9
    MaxHooks = 2
    Rounds = 2
INVARIANTS
    CodeWhole
    BranchesReachTargets
    TriesPreserved
    DebugInfoPreserved
    AbortsOnlyOnLimits
