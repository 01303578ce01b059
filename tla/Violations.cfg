\* Up to four boxes of the models of config.conf in a frame.
CONSTANTS
    Models <- MCModels
    Candidates <- MCCandidates
    Lists <- MCLists
    MaxFound = 4
SPECIFICATION Spec
INVARIANTS TypeOK AccusedArePresent
PROPERTIES GearNeverAccuses GearElsewhereIsNoExcuse
CHECK_DEADLOCK FALSE
