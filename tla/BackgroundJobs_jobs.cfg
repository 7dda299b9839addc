SPECIFICATION FairSpec
CONSTANTS
    MaxGen = 2  MaxSeq = 2
    Ceiling = 1  LastAct = 1  MaxTime = 4
    Preempt = FALSE
INVARIANTS CompletedAnswersAll RunsAreSerial ExpiredOnItsOwnTime
PROPERTIES ImplementsLedger NoBodyAfterTheEnd ArmedJobEnds NothingOutlivesItsJob
CHECK_DEADLOCK FALSE
