SPECIFICATION FairSpec
CONSTANTS
    Notifiers = {"g1"}
    Origins = {"Planned", "NULL"}
    DragTargets = {"Open"}
    Pollers = {"p1"}
    WindowEnds = TRUE
    AutoApprove = FALSE
    MaxTouches = 0
PROPERTIES MarkerSettles CacheCatchesUp
CHECK_DEADLOCK FALSE
