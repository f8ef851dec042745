CONSTANTS
    Changes = {1}
    Runs = {1}
    Operator = 0
    u1 = u1
    u2 = u2
    Upstreams = {u1, u2}
    First = u1
    Asked <- MCAskedOff
    Broken = Broken
    MaxEvents = 2
    None = None
SPECIFICATION FairSpec
PROPERTY DisableTakesEffect
CHECK_DEADLOCK FALSE
