SPECIFICATION Spec
CONSTANTS
    r1 = r1  r2 = r2  r3 = r3
    t1 = t1  t2 = t2  t3 = t3
    h1 = h1  c1 = c1  c2 = c2
    None = None
    Runners = {r1, r2, r3}
    Turns = {t1, t2, t3}
    Shells = {h1}
    Stops = {c1}
    Preempt = FALSE
SYMMETRY Symmetry
INVARIANT ProbeSeesEveryTurn
CHECK_DEADLOCK FALSE
