SPECIFICATION Spec
CONSTANTS
    Keys = {1, 2}
    Vals = {v1}
    None = None
    Tomb = Tomb
    Garbage = Garbage
    Fails = Fails
    FlushThreshold = 2
    CompactThreshold = 2
    MaxId = 3
    MaxLog = 3
    Faults = {"wal_tear"}
INVARIANT Durable
CHECK_DEADLOCK FALSE
