CONSTANTS
    c1 = c1
    c2 = c2
    db1 = db1
    db2 = db2
    Vacant = Vacant
    Conns = {c1}
    Blocks = {db1}
    Keys <- OneKey
    Tagged = {}
    MaxSize = 2
    MaxArea = 2
    MaxOps = 0
    MaxScans = 3
SPECIFICATION Spec
PROPERTIES KeepsItsShape
