CONSTANTS
    c1 = c1
    c2 = c2
    db1 = db1
    db2 = db2
    Vacant = Vacant
    Conns = {c1}
    Blocks = {db1}
    Keys <- OneKey
    Tagged = {}
    MaxSize = 3
    MaxArea = 2
    MaxOps = 1
    MaxScans = 3
SPECIFICATION FairSpec
INVARIANTS TypeOK BarredIsWithdrawn SettledAsPlanned
PROPERTIES NeverPublishesBarred Publishes ExposureIsDeliberate Converges
