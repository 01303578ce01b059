\* A file whose viewers come and go, and clients that wait for a session to
\* pull or to be gone before they add it again.
CONSTANTS
    Cams = {c1}
    Offline = {c1}
    MaxStream = 1
    QueueLimit = 1
    MaxSessions = 2
    MaxBacklog = 1
    Careful = TRUE
    None = None
SPECIFICATION PreviewFairSpec
INVARIANTS SessionsGoOn PullingIsReachable PushesAreSafe RendersBeforeDelete ShownIsStoppable
PROPERTIES ShownSessionsEnd
CHECK_DEADLOCK FALSE
