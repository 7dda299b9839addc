SPECIFICATION FairSpec
CONSTANTS
    chat = chat  a = a  b = b
    Root = chat
    Kids = {a, b}
    Parent <- Pair
    MaxGen = 2  Restarts = {a}
    MaxExt = 1
    Stops = {chat}
    Ends = {a}
    Preempt = FALSE
INVARIANTS WalkReachesAll JobTurnsEndWithJobs NoForegroundOrphan
PROPERTIES StopsReturn
