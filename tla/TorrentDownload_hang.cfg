SPECIFICATION LiveSpec
CONSTANTS
    Peers = {w1, w2}
    Pieces = {p1}
    Honest = {}
PROPERTY TriedAgain
CHECK_DEADLOCK FALSE
