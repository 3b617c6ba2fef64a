SPECIFICATION EditorSpec
CONSTANTS
    Chars = {"b", "I"}
    Dotted = {"I"}
    Files <- DottedFile
    ScreenWidth = 3
    ScreenHeight = 2
    QuitTimes = 2
    MaxEdits = 0
    MaxQuery = 1
PROPERTY SearchShowsMatch
CHECK_DEADLOCK FALSE
