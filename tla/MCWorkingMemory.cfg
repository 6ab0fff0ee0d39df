SPECIFICATION WindowSpec
CONSTANTS
    max_turns = 3
    token_threshold = 6
    SafetyLimit = 100
    TurnTokens = {0, 1, 4}
    SummaryTokens = {1, 3}
    MaxId = 7
INVARIANTS EveryTurnOnce WindowBounded ContextHasNoGap RelievedInTime
CHECK_DEADLOCK FALSE
