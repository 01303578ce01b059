\* Two requests, one of them for a snapshot at most, of a stream or a file,
\* two cameras in hand, and a midnight among the steps.
CONSTANTS
    Cams = {1, 2}
    Offline = {2}
    QueueLimit = 0
    Midnights = {1}
    MaxTime = 1
    MaxThreads = 2
    MaxSnaps = 1
    MaxPics = 2
    MaxBacklog = 1
    None = None
SPECIFICATION FairSpec
INVARIANTS ThreadsGoOn ReportsAreFinal PicturesAreOwn DownloadsAreHeld
PROPERTIES RequestsFollowPolicy RequestsAreAnswered
CHECK_DEADLOCK FALSE
