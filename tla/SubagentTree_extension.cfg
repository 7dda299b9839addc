SPECIFICATION Spec
CONSTANTS
    chat = chat  a = a  b = b
    Root = chat
    Kids = {a}
    Parent <- One
    MaxGen = 1  Restarts = {}
    MaxExt = 1
    Stops = {}
    Ends = {a}
    Preempt = FALSE
INVARIANT StoppedJobsAreQuiet
