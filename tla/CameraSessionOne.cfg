\* The comment of Controller.cpp:98.
CONSTANTS
    Cams = {c1}
    Offline = {}
    MaxStream = 1
    QueueLimit = 1
    MaxSessions = 2
    MaxBacklog = 1
    Careful = FALSE
    None = None
SPECIFICATION Spec
INVARIANTS OneSessionPerCamera
CHECK_DEADLOCK FALSE
