SPECIFICATION Spec
CONSTANTS
    a = a
    all = all
    ta = ta
    tb = tb
    MaxClients = 2
    MaxSubs = 1
    MaxFilters = 1
    Ids = {i1}
    NoId = NoId
    Filters = {a, all}
    Topics = {ta, tb}
    BadTopic = BadTopic
    Matches <- Wild
    Keepalives = {0}
    ConnectWait = 1
    MaxAge = 0
    MaxPubs = 2
    MaxOut = 2
INVARIANT SubsBounded
