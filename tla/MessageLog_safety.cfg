CONSTANTS
    Channels = {a}
    Peers = {bob}
    Meta = Meta
    Clients = {c1, c2}
    Senders = {s1}
    Backlog = 2
    PollLimit = 1
    PageLimits = {1, 2, 3}
    MaxId = 5
SPECIFICATION MCSpec
SYMMETRY SameClients
INVARIANT TypeOK
INVARIANT PollSkipsNothing
INVARIANT CatchUpIsComplete
INVARIANT PageAroundIsCentred
INVARIANT SearchReachesEveryMatch
PROPERTY ImplementsStore
