\* Two labels of one camera, none of them posted: an event may raise two alerts.
CONSTANTS
    Cameras = {c1}
    Types = {t1, t2}
    Faces = {}
    Muted = {t1, t2}
    MinCount = 0
    Gap = 0
    Interval = 2
    AfterFrames = 1
    MaxPolls = 0
    None = None
    MaxTime = 1
    MaxQueue = 1
SPECIFICATION FairSpec
INVARIANTS ClipsAccounted
PROPERTIES BusReturns
CHECK_DEADLOCK FALSE
