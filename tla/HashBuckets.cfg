SPECIFICATION BucketsSpec
CONSTANTS
    k1 = k1
    k2 = k2
    k3 = k3
    k4 = k4
    k5 = k5
    k6 = k6
    k7 = k7
    k8 = k8
    Key <- MCKey
    Hashes <- MCHashes
    NoKey = NoKey
    InitialBuckets = 2
INVARIANTS
    BInv
    ChainsWellFormed
    GrowthHasRoom
PROPERTIES
    ImplementsTable
    ImplementsInterning
SYMMETRY Symmetry
