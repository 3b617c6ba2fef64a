SPECIFICATION WebSpec
CONSTANTS
    Nothing = Nothing
    Conns = {"c1", "c2", "c3"}
    Values = {"v"}
    LastId = 7
    PutIds = {1, 6, 7}
    Users = {"u1", "u2"}
    Texts <- Typed
    Limit = 2
    MaxNotes = 3
    Clients = {"c1", "c2", "c3"}
    Readers = {"c1", "c2"}
    Literal = 0
    LenBase = 2
    Lens = {0, 1, 2}
    Chunk = 4
    MaxFrames = 2
    Tabs = {"w1", "w2"}
    Filters = {"all", "completed"}
    MaxAdds = 2
    Todos <- TypedTodos
INVARIANTS WholeInOrder ReloadKeeps IdsNameTodos
PROPERTIES FreshIds LeavesRegistry DeletesWhatWasShown StoresWhatWasTyped
CHECK_DEADLOCK FALSE
