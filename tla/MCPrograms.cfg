SPECIFICATION ProgramsSpec
CONSTANTS
    Keys = {1, 2}
    Vals = {v1}
    None = None
    Tomb = Tomb
    Garbage = Garbage
    Fails = Fails
    FlushThreshold = 2
    CompactThreshold = 2
    MaxId = 3
    MaxIdFaulty = 3
    MaxLog = 2
    Faults = {"sst_tear"}
    Null = Null
    Auto = Auto
    OtherWord = OtherWord
    Elems = {0, 1, 2}
    Mutate <- NextOf3
    MaxNodes = 3
    Chars = {"b"}
    Dotted = {}
    Files <- File
    ScreenWidth = 3
    ScreenHeight = 2
    QuitTimes = 2
    MaxEdits = 2
    MaxQuery = 1
    Width = 8
    Height = 6
    RoomW = {2}
    RoomH = {1}
    Attempts = 3
    PlayerHp = 3
    PlayerPower = 1
    OrcHp = 1
    OrcPower = 1
    Sight = 5
    MaxTurns = 3
INVARIANTS Durable ReadsLatest EditorSound Connected ActorsApart ListSound ParsesByTags CascadeWins FlowsDown PaintedAsLaid GenerationsSound
PROPERTIES ImplementsMap  EditsAsOneText ArithmeticFlags StackGivesBack
CHECK_DEADLOCK FALSE
