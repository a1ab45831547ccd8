SPECIFICATION MCSpec
CONSTANTS
    Users = {u, v}
    MaxCalls <- CallsOf
    u = u
    v = v
    MaxEvents = 1
    None = None
    Word = 16
    Numbers <- MCNumbers
    Unit = 1000
    sixDigits <- MCSixDigits
    Doubles <- MCDoubles
    Sites <- MCSites
    Screen = 5
    Cells = {u, v}
    Strings = {1, 2}
    Narrow = 2
    Middle = 4
    Wide = 8
    Addresses = {5, 6}
    Clients = {u}
    Bounds <- MCBounds
    Percents = {0, 29, 30, 150}
    Scales <- MCScales
    MimeTypes = {"native"}
    Applications = {u, v}
    Forced1080 = FALSE
INVARIANTS
    AnswersInOrder
    OwnResult
    SetIsRead
    ValuesAreKept
    AnswerIsLastSet
PROPERTIES
    QueriesAnswered
    EndedAreForgotten
CHECK_DEADLOCK FALSE
