CONSTANTS
    loop = loop
    Threads = {loop, t1}
    Loop = loop
    MaxFiles = 2
    MaxStamp = 5
    MaxDeaths = 2
SPECIFICATION Spec
INVARIANTS TypeOK KeepsNewest FolderBounded UncleanIsReported NoFalseAlarm
CHECK_DEADLOCK FALSE
