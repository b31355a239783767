SPECIFICATION FairSpec
CONSTANTS
    Tokens = {t1, t2}
    Requests = {1}
    Procs = {p1, p2}
    NoOne = NoOne
    NoToken = NoToken
    MaxAttempts = 1
    MaxRows = 3
PROPERTIES OperationsEnd
CHECK_DEADLOCK FALSE
