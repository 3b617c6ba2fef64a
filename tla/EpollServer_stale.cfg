SPECIFICATION EpollSpec
CONSTANTS
    MaxFds = 3
    MaxConns = 2
    MaxLines = 1
    MaxBatch = 3
    Parts = 1
INVARIANT EventsMatch
