\* Lists with both timed labels that go together, with one, with the empty name,
\* and with none.
CONSTANTS
    FrameInterval = 4
    TimeInterval = 2
    Lists = {{"gzfzr"}, {"zzfzr"}, {""}, {}}
    Shows = {{}, {"gzfzr"}, {"zzfzr"}}
    Garbage = {0, 1, 5}
SPECIFICATION FairSpec
INVARIANTS EveryPeriod TimersInPlace
PROPERTIES AlertsAreDue AbsenceIsReported
CHECK_DEADLOCK FALSE
