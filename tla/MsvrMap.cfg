SPECIFICATION SearchFairSpec
CONSTANTS
    Nodes = {0, 1, 2, 3, 4, 5, 6}
    At <- DetourAt
    Roads <- DetourRoads
    RoadType <- DetourTypes
    Places <- DetourPlaces
    IntMax = 1023
    MaxRounds = 5
INVARIANTS MarksStayOnlyWhereCrossed CrashOnlyOutOfOrder AnswerIsSound
PROPERTY ReturnsUnlessCutOff
CHECK_DEADLOCK FALSE
