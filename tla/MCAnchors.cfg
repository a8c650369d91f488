SPECIFICATION Spec
CONSTANTS
    Points = {1, 2}
    Ids = {1, 2}
    Life = 2
    Within = 2
    MaxLife = 4
    Handlers = {1, 2}
    MaxCalls = 3
    MaxReloads = 1
    MaxRetries = 2
    MaxOffset = 1
INVARIANTS TypeOK
PROPERTIES OffsetStaysOnlyIfRaced AnchorsLiveOrLeave
CHECK_DEADLOCK FALSE
