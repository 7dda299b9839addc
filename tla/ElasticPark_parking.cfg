SPECIFICATION FairSpec
CONSTANTS
    p = p  q = q  i = i  c = c
    Work = {p, q, i, c}
    Kind <- Mixed
    MaxWork = 3
    MaxParks = 2
    MaxFaults = 2
    MaxAsides = 1
INVARIANTS StopEndsOnlyTheMissed ReadyIsServed NobodyOvertakes ClosedLeavesNothing
PROPERTIES InterjectionsWait HeldWorkGoes
CONSTRAINT PromptsInOrder
CHECK_DEADLOCK FALSE
