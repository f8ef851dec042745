SPECIFICATION FairSpec
CONSTANTS
    r1 = r1
    r2 = r2
    r3 = r3
    Routes = {r1, r2, r3}
    Domains = {"a", "b"}
    Domain <- MCDomain
    Data = {d1}
    Slots = {s1, s2}
    MaxChanges = 3
    MaxLocal = 0
    MaxFaults = 0
    MaxEvents = 3
    None = None
PROPERTY CentralReachesNode
CHECK_DEADLOCK FALSE
