CONSTANTS
    MaxTurns = 2
    MaxOpens = 2
    MaxPieces = 1
    rex = rex
    tri = tri
    Exhibits = {rex, tri}
    Described = {rex}
    None = None
    Unknown = Unknown
    MaxChats = 2
    MaxAsks = 2
    Openings = {rex, None}
    Wishes <- MCWishes
    MaxChunks = 2
    HistoryTurns = 2
    Names = {"event: meta", "event: delta", "event: done"}
    Data = {"data: 0", "data: 1", "data: 2"}
    Comments = {": wait"}
    Streams <- MCStreams
    MaxChunk = 3
SPECIFICATION FairSpec
INVARIANTS TypeOK AnswersStayApart ServerKeepsItsWord EventsAreThoseSent
PROPERTIES ClientQuestionsAreClosed ImplementsAnswerStream
CHECK_DEADLOCK FALSE
