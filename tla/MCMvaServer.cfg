SPECIFICATION Spec
CONSTANTS
    Client = {c1, c2}
    None = None
    HistoryLimit = 1
    MaxTurns = 3
SYMMETRY ClientSymmetry
INVARIANTS TableHoldsTheServed SettledViewIsTrue ReplayedOnce
CHECK_DEADLOCK FALSE
