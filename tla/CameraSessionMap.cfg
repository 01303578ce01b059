\* Two streams compete for one place too few.
CONSTANTS
    Cams = {c1, c2}
    Offline = {}
    MaxStream = 0
    QueueLimit = 1
    MaxSessions = 2
    MaxBacklog = 1
    Careful = FALSE
    None = None
SPECIFICATION Spec
INVARIANTS LimitsHold PlacesAreHeld WorkerGoneBeforeDelete
SYMMETRY Symmetric
CHECK_DEADLOCK FALSE
