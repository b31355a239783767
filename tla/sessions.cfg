SPECIFICATION Spec
CONSTANTS
    Tokens = {t1, t2, t3}
    Requests = {1, 2}
    Procs = {p1, p2}
    NoOne = NoOne
    NoToken = NoToken
    MaxAttempts = 1
    MaxRows = 4
SYMMETRY Symmetry
INVARIANTS OneSessionPerLogin ResetEndsSessions OneResetPerRequest
PROPERTIES NewestRequestResets ReuseEndsSessions
CHECK_DEADLOCK FALSE
