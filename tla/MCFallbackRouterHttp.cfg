SPECIFICATION Spec
CONSTANTS
    Request <- Requests
    Piece <- Pieces
    Branch <- Branches
    ModelNames <- Names
    None = None
    HttpClient = {"kimi", "deepseek", "deepseek_pro", "glm"}
    CACHE_TTL = 1
    MaxTime = 1
    Endpoint = {"lm_studio"}
    MaxCost = 1
INVARIANTS RouteEndsAsDocumented
CHECK_DEADLOCK FALSE
