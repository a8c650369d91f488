CONSTANTS
    Anchors = {1, 2, 3}
    Answers <- MCAnswers
    Pos <- MCPos
    Places = {0, 4}
    NearCm = 1
    Slack = 0
    Cap = 1
    FarBudget = 1
    NearBudget = 2
    Window = 0
    Timeout = 0
    Base = 1
    BackoffMax = 2
    MinPreempt = 0
    Hold = 1
    MaxFailures = 2
    MaxPins = 4
    MaxOrphans = 1
    Points = {1, 2, 3}
    WrongBy <- MCWrong
    Spots = {4, 7}
    Far <- MCFar
    Radius = 4
    Dwell = 1
    JumpHold = 2
    CandidateGap = 1
    RecordWindow = 1
    AwayGap = 1
    Steady = 1
    MaxEvents = 4
    Markers = {m1}
    Recover = 2
    PinStable = 2
    MinStay = 3
    ShowFor = 1
    FadeAfter = 1
    CooldownFor = 1
    LostHold = 1
    BadHold = 2
    PoorHold = 2
    HintAfter = 3
    ReacquireGap = 2
    NoFrame = NoFrame
    Cloud = Cloud
    NoSource = NoSource
    MaxChanges = 4
SPECIFICATION Spec
INVARIANTS TypeOK QueueIsSound
PROPERTIES TriedInOrder CloudPositionIsSound RecoveryIsSound
