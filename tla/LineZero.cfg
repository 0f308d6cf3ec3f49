SPECIFICATION Spec
CONSTANTS
    Methods <- LineZero
    Hooks <- MCHooks
    ShortRange = 8
    TryRange = 9
    MaxHooks = 2
    Rounds = 2
INVARIANT LineZeroSupported
