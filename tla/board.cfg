SPECIFICATION Spec
CONSTANTS
    Notifiers = {"g1"}
    Origins = {"Planned"}
    DragTargets = {"Open"}
    Pollers = {"p1"}
    WindowEnds = FALSE
    AutoApprove = TRUE
    MaxTouches = 1
INVARIANTS TypeOK OneTerminalComment ReviewMeansCompleted
PROPERTY DragsWin
CHECK_DEADLOCK FALSE
