CONSTANTS
    c1 = c1
    c2 = c2
    t1 = t1
    t2 = t2
    w1 = w1
    w2 = w2
    Conns = {c1, c2}
    Settings <- ThreeSettings
    Tasks = {t1, t2}
    Exit = Exit
    Nobody = Nobody
    None = None
    MaxSaves = 2
SPECIFICATION FairSpec
INVARIANTS TypeOK PoolMatchesRows OneWorkerEach StopIsFinal NoGhosts
PROPERTIES CallersReturn
CHECK_DEADLOCK FALSE
