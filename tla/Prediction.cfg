CONSTANTS
    Pictures <- MCPictures
    Lists <- MCLists
    Models <- MCModels
    Cands <- MCCands
    Side = 8
    MaxWh = 4096
    Thresh = 45
SPECIFICATION Spec
INVARIANTS AnswersApart AnswersCover RectsAreSound
