SPECIFICATION Spec
CONSTANTS
    Subjects = {s1, s2}
    Emails = {e1, e2}
    Users = {u1, u2}
    Codes = {c1, c2}
    Procs = {p1, p2, p3}
    None = None
SYMMETRY Symmetry
INVARIANTS CodesFollowLinks OneSessionPerCode
PROPERTIES LinksAreKept
CHECK_DEADLOCK FALSE
