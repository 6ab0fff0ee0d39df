SPECIFICATION Spec
CONSTANTS
    Device = {1, 2}
    Key = {k1}
    Value = {v1, v2}
    None = None
    MaxTime = 1
    MaxSets = 2
SYMMETRY ValueSymmetry
INVARIANTS AgreeUpToTies
