SPECIFICATION NetSpec
CONSTANTS
    Null = Null
    Peers = {"w1", "w2", "w3"}
    Pieces = {"p1", "p2"}
    Honest = {"w1"}
    MaxFds = 2
    MaxConns = 2
    MaxLines = 1
    MaxBatch = 2
    Parts = 2
    Letters = {"a"}
    MaxFilter = 4
    MaxTopic = 3
    Base = 2
    MaxDigits = 3
    MaxPacket = 8
    BodyBytes = {3}
    MaxBody = 5
    MaxPackets = 3
INVARIANTS FramesArePackets MatchesByLevel EpollSound PiecesSound
PROPERTIES AllHandled ServesInTurn TorrentReturns
CHECK_DEADLOCK FALSE
