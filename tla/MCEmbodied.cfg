SPECIFICATION EmbodiedSpec
CONSTANTS
    Scenes <- McScenes
    Strides <- McStrides
    MaxSpan = 42
    NoProblem = NoProblem
    MaxTrips = 2
    NoCell = NoCell
    NoTarget = NoTarget
    NoScene = NoScene
    Islands <- McIslands
    Annotations <- McAnnotations
    MAX_NAV_STEPS = 6
    SUCCESS_RADIUS = 1
    NoWalk = NoWalk
    Hosts <- McHosts
    NoHost = NoHost
INVARIANTS TreeIsSound PathIsShortest EndsAreNearest FramesStayNear ReportIsTrue ServesWhatItSays
CHECK_DEADLOCK FALSE
