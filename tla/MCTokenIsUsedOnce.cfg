CONSTANTS
    Nodes = {n1, n2}
    Tokens = {t1, t2}
    Requests = {1, 2}
    Ids = {1, 2, 3}
    MaxFaults = 2
    None = None
SPECIFICATION Spec
SYMMETRY Symmetry
INVARIANT TokenIsUsedOnce
CHECK_DEADLOCK FALSE
