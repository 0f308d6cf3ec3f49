SPECIFICATION Spec
CONSTANT Jobs <- LoopJob
INVARIANT EntryOnce
