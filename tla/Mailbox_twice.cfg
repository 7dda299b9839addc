SPECIFICATION Spec
CONSTANTS
    m1 = m1  r1 = r1  r2 = r2
    Mail = {m1}
    Readers = {r1, r2}
    MaxFiles = 2
    MaxFaults = 2
    SweepsFail = TRUE
INVARIANT AtMostOnce
CHECK_DEADLOCK FALSE
