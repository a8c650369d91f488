SPECIFICATION Spec
CONSTANTS
    w1 = w1
    w2 = w2
    p1 = p1
    p2 = p2
    Workers = {p1, p2}
    RecvCount = 1
    SendCount = 1
    MaxSendBuffers = 3
    Users = {1, 2, 3, 4}
    Movers = {1}
    Eras = {1, 2}
    EraOf <- MCEraOf
    MaxEntries = 2
    FragModulus = 4
    MaxAir = 2
    MaxNumber = 2
    MaxChanges = 1
    Session = {1}
    Worker = {w1, w2}
    LogicCount = 1
    RecvBuffers = 2
    MaxSeq = 2
    MaxTransform = 1
    ReasmMax = 2
    RetransTimeout = 1
    MaxRetries = 0
INVARIANT
    HandledInOrder
CHECK_DEADLOCK FALSE
