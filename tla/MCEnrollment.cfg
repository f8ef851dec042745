CONSTANTS
    Nodes = {n1, n2}
    Tokens = {t1, t2}
    Requests = {1, 2}
    Ids = {1, 2, 3}
    MaxFaults = 2
    None = None
SPECIFICATION Spec
SYMMETRY Symmetry
INVARIANT IdentityIsKnown
PROPERTY SpentTokenEnrollsNobody
CHECK_DEADLOCK FALSE
