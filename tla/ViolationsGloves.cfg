\* The comment of CameraHandle.cpp:477.
CONSTANTS
    Models <- MCModels
    Candidates <- MCCandidates
    Lists <- MCLists
    MaxFound = 4
SPECIFICATION Spec

PROPERTIES GlovesElsewhereAreNoExcuse
CHECK_DEADLOCK FALSE
