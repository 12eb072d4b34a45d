CONSTANTS
    Sources = {a, b}
    Limit = 2
    Window = 2
    MaxKeys = 1
    MaxFailures = 2
    Lockout = 3
    Idles = {3, 5}
    Absolute = 7
    Slack = 1
    Nil = Nil
SPECIFICATION Spec
INVARIANTS TypeOK RateBound LockHolds SessionBounds
CHECK_DEADLOCK FALSE
