\* The comment of EventCenter.cpp:341.
CONSTANTS
    Cameras = {c1}
    Types = {t1}
    Faces = {}
    Muted = {}
    MinCount = 1
    Gap = 1
    Interval = 2
    AfterFrames = 1
    MaxPolls = 1
    None = None
    MaxTime = 2
    MaxQueue = 1
SPECIFICATION Spec
INVARIANTS MarkedMeansPosted
CHECK_DEADLOCK FALSE
