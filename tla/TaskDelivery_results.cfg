SPECIFICATION FairSpec
CONSTANTS
    a = a  b = b
    Results = {a, b}
    Attempts = 2
    FaultKinds = {"none", "late"}
    MaxFaults = 4
    MaxEvents = 1
INVARIANTS OneDrainer LeftQueuedOnlyAfterRetries ResultsSurvive BusyWritesAreFollowedUp WrittenTwiceAtMost
PROPERTIES EveryResultIsWritten
CHECK_DEADLOCK FALSE
