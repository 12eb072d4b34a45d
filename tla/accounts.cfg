CONSTANTS
    Nil = Nil
    r1 = r1
    r2 = r2
    Users = {u1, u2}
    Veterans = {u1, u2}
    Weak = {u1}
    Tokens = {t1}
    Reqs = {r1, r2}
    OpsOf <- AnyAndRival
    Headers = {r2}
    Rescued = {u1}
SPECIFICATION Spec
INVARIANTS TypeOK AdminRemains ForcedChange SessionsRevoked
CHECK_DEADLOCK FALSE
