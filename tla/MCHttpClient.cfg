SPECIFICATION HttpFairSpec
CONSTANTS
    Thread = {"t1", "t2"}
    Called = {"kimi"}
    Key = {"k"}
    NoKey = NoKey
    MAX_RETRIES = 3
    Bodies <- Streams
    MaxChanges = 1
INVARIANTS ChargedAsOftenAsLost GivesUpAfterAllRetries StreamIsFaithful
PROPERTIES EveryCallEnds
