CONSTANTS
    Timeout = 4
    Interval = 3
    MaxTick = 2
    MaxFails = 1
SPECIFICATION Spec
INVARIANTS TypeOK BufferIsCurrent UnreadIsWithdrawn HiddenIsWithdrawn
