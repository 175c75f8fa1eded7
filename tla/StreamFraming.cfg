SPECIFICATION Spec
CONSTANTS
    Path <- MCPath
    AbsPath <- MCAbsPath
    EmptyPath = ""
    RuleId = {"a", "b", ""}
    EmptyId = ""
    FileId <- MCFileId
    ZeroId = "zero"
    NoFile = "nofile"
    NoPolicy = NoPolicy
    Absent = Absent
    Other = Other
    NotJson = NotJson
    OutOfRange = OutOfRange
    Text <- MCText
    IntRange = 8
    FloatBelow <- MCFloatBelow
    FloatAbove = 3
    NL = NL
    Scripts <- MCScripts
    Files <- MCFiles
    Edited <- MCEdited
    Kinds = {"events"}
    Stat <- MCStat
    MaxEdits = 0
    MaxEvents = 2
INVARIANT EventsShown
CHECK_DEADLOCK FALSE
