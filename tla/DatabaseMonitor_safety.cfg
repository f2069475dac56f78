CONSTANTS
    n = n
    c = c
    Networks = {n}
    Channels = {c}
    Streams = {s1}
    Filters <- MCFilters
    None = None
    QueueMax = 1
    MaxTime = 3
SPECIFICATION MCSpec
INVARIANT TypeOK
INVARIANT FollowerMissesNothing
INVARIANT NoLossForgotten
INVARIANT NotedOnce
INVARIANT DeletedStayGone
PROPERTY AbandonedStreamsEnd
PROPERTY MonitorFollowsDatabase
PROPERTY ImplementsStore
