CONSTANTS
    Changes = {1, 2}
    Runs = {1, 2}
    Operator = 0
    u1 = u1
    u2 = u2
    Upstreams = {u1, u2}
    First = u1
    Asked <- MCAsked
    Broken = Broken
    MaxEvents = 2
    None = None
SPECIFICATION FairSpec
INVARIANT UpstreamsStayUsable
CHECK_DEADLOCK FALSE
