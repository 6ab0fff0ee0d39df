SPECIFICATION OneSaves
CONSTANTS
    Device = {1, 2, 3}
    Key = {k1, k2}
    Value = {v1}
    None = None
    MAX_CLOCK_SKEW_NS = 0
    MaxTime = 1
    MaxCounter = 2
    MaxWrites = 3
    MaxNet = 1
SYMMETRY KeySymmetry
INVARIANTS DeltaLosesNothing StrongConvergence CheckpointsSuffice
PROPERTIES ImplementsJoin
