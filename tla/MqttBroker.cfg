SPECIFICATION LiveSpec
CONSTANTS
    a = a
    all = all
    ta = ta
    tb = tb
    MaxClients = 2
    MaxSubs = 2
    MaxFilters = 1
    Ids = {i1}
    NoId = NoId
    Filters = {a, all}
    Topics = {ta, tb}
    BadTopic = BadTopic
    Matches <- Wild
    Keepalives = {1}
    ConnectWait = 1
    MaxAge = 2
    MaxPubs = 2
    MaxOut = 2
INVARIANTS TableSound ServesPolled
PROPERTIES StaysOnlyIfHeard Drains ImplementsBus
