CONSTANTS
    c1 = c1
    c2 = c2
    db1 = db1
    db2 = db2
    Vacant = Vacant
    Conns = {c1, c2}
    Blocks = {db1}
    Keys <- SameBlock
    Tagged = {}
    MaxSize = 1
    MaxArea = 2
    MaxOps = 0
    MaxScans = 2
SPECIFICATION Spec
INVARIANTS TableMatchesServer
