SPECIFICATION FairSpec
CONSTANTS
    r1 = r1
    r2 = r2
    r3 = r3
    Routes = {r1, r2, r3}
    Domains = {"a", "b"}
    Domain <- MCDomain
    Data = {d1}
    Slots = {s1, s2}
    MaxChanges = 2
    MaxLocal = 1
    MaxFaults = 1
    MaxEvents = 3
    None = None
INVARIANT LatestIsFollowed
INVARIANT LocalRoutesSurvive
INVARIANT DomainsAreUnique
PROPERTY NeverBackwards
PROPERTY NodeFollows
PROPERTY ServedFollows
CHECK_DEADLOCK FALSE
