SPECIFICATION Spec
CONSTANTS
    Request <- Requests
    Piece <- Pieces
    Branch <- Branches
    ModelNames <- Names
    None = None
    HttpClient = {"deepseek"}
    CACHE_TTL = 0
    MaxTime = 1
    Endpoint = {"lm_studio"}
    MaxCost = 2
INVARIANTS CacheIsolation FallbackInOrder GivesUpWhenAllFailed CachedWasCharged
CHECK_DEADLOCK FALSE
