SPECIFICATION Spec
CONSTANT MaxEnvs = 2
INVARIANTS InitializedIsReady ReleaseRestored IInv
