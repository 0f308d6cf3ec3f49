SPECIFICATION Spec
CONSTANT Jobs <- MCJobs
INVARIANTS IInv EntrySeesOriginals ModifierSeesItsParameter ParamsInPlace
    ExitSeesResult CallsInOrder WeavingVerifies
