SPECIFICATION Spec
CONSTANTS
    Keys = {1, 2}
    Vals = {v1}
    None = None
    Tomb = Tomb
    Garbage = Garbage
    Fails = Fails
    FlushThreshold = 2
    CompactThreshold = 2
    MaxId = 3
    MaxLog = 2
    Faults = {"sst_tear"}
INVARIANT SurvivesCrash
CHECK_DEADLOCK FALSE
