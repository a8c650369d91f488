CONSTANTS
    Node = {exhibit, entrance}
    NoNode = NoNode
    MaxDelta = 1
    DwellSec = 2
    EndMessageSec = 2
    Hold = 2
    Cooldown = 3
    ReportsLoss = TRUE
    MaxGap = 2
    MaxRequests = 3
    Spot <- HallSpot
    Pos <- HallPos
    Kind <- HallKind
    NoSpot = "none"
    Elsewhere = "other"
    Seeds <- HallSeeds
    Reach = 50
    Spacing = 10
    GoalPlaces = {20}
    Eps = 5
    OffRouteThreshold = 20
    SearchWindow = 2
    SegmentHysteresis = 1
    ArriveThreshold = 8
    ArriveExit = 4
    Unit = 5
SPECIFICATION LiveSpec
PROPERTIES EndsOnlyAfterDwell
