SPECIFICATION Spec
CONSTANTS
    p1 = p1
    p2 = p2
    p3 = p3
    Routes = {r1, r2}
    Providers = {p1, p2, p3}
    TypeOf <- MCTypeOf
    Ports = {1, 2}
    MaxOps = 3
    MaxRunning = 2
    MaxEvents = 1
    None = None
SYMMETRY Symmetry
INVARIANT RowsMatchRoutes
INVARIANT TunnelIsUp
INVARIANT PortsAreDistinct
CHECK_DEADLOCK FALSE
