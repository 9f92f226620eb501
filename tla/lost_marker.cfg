SPECIFICATION Spec
CONSTANTS
    Notifiers = {"g1", "g2"}
    Origins = {"Planned"}
    DragTargets = {"Open"}
    Pollers = {"p1"}
    WindowEnds = FALSE
    AutoApprove = FALSE
    MaxTouches = 0
INVARIANT CardFollowsRun
CHECK_DEADLOCK FALSE
