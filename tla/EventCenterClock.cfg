\* One camera, one label and a face over a clock long enough for two alerts.
CONSTANTS
    Cameras = {c1}
    Types = {t1}
    Faces = {f1}
    Muted = {}
    MinCount = 1
    Gap = 1
    Interval = 2
    AfterFrames = 1
    MaxPolls = 0
    None = None
    MaxTime = 2
    MaxQueue = 1
SPECIFICATION Spec
INVARIANTS TracksBacked PostsSpaced
PROPERTIES AlertsFollowPolicy
CHECK_DEADLOCK FALSE
