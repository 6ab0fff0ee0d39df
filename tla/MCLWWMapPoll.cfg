SPECIFICATION PollSpec
CONSTANTS
    Device = {1, 2}
    Key = {k1, k2}
    Value = {v1}
    None = None
    MAX_CLOCK_SKEW_NS = 0
    MaxTime = 1
    MaxCounter = 5
    MaxWrites = 4
    MaxNet = 2
INVARIANTS ConflictNeverOutranksStore
PROPERTIES EventualConvergence
CHECK_DEADLOCK FALSE
