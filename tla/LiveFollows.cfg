\* Two viewers, stalls, lost samples and server restarts; ids are handed out four at a time.
CONSTANTS
    Viewers = {v1, v2}
    Ids = {i1, i2, i3, i4}
    Ttl = 2
    Capacity = 2
    Faults = {"network", "crash"}
    None = None
SPECIFICATION FairSpec
INVARIANT NodeFollowsServer
PROPERTIES UnwatchedNodeStops WatchedNodeRuns
