SPECIFICATION Spec
CONSTANTS
    a = a  b = b
    Results = {a}
    Attempts = 2
    FaultKinds = {"part"}
    MaxFaults = 1
    MaxEvents = 0
INVARIANT ResultsSurvive
CHECK_DEADLOCK FALSE
