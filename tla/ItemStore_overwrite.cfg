SPECIFICATION ItemsSpec
CONSTANTS
    Conns = {c1, c2}
    Values = {"v"}
    LastId = 7
    PutIds = {1, 2, 7}
    Nothing = Nothing
PROPERTY NoOverwrite
CHECK_DEADLOCK FALSE
