SPECIFICATION Spec
CONSTANT MaxEnvs = 2
INVARIANT OneExitCall
