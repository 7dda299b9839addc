SPECIFICATION Spec
CONSTANTS
    MaxGen = 2  MaxSeq = 1
    Ceiling = 1  LastAct = 2  MaxTime = 7
    Preempt = FALSE
INVARIANTS CreditIsOwnBlockedTime
CHECK_DEADLOCK FALSE
