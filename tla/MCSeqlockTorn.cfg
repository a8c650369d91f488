SPECIFICATION Spec
CONSTANTS
    u1 = u1
    u2 = u2
    a1 = a1
    a2 = a2
    w1 = w1
    w2 = w2
    User = {u1, u2}
    Addr = {a1, a2}
    Worker = {w1, w2}
    SessionTimeout = 1
    MaxSessions = 2
    Reader = {broadcast}
    Word = {seq, pos, era}
    EraWord = era
    Garbage <- NoCounter
    MaxWrites = 2
    m1 = m1
    m2 = m2
    Msg = {m1, m2}
    MaxMsgs = 3
    ReasmMax = 1
    RetransTimeout = 1
    MaxRetries = 1
INVARIANTS ReadsAreSnapshots
