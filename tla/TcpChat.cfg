SPECIFICATION HubLiveSpec
CONSTANTS
    Conns = {c1, c2}
    Nicks = {n1, n2}
    Nobody = Nobody
    NoNick = NoNick
    SendBuffer = 1
    MaxNickAttempts = 1
    MaxLines = 3
INVARIANTS SingleWriter NicksAgree NoSendOnClosed InHubOrder
PROPERTY CleanupEnds
CHECK_DEADLOCK FALSE
