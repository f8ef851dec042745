SPECIFICATION Spec
CONSTANT Sources <- MCSources
INVARIANT ParsedRight
INVARIANT OnlyTimeoutsAreLost
INVARIANT PassGetsItsOptions
INVARIANT LocationsAreKept
CHECK_DEADLOCK FALSE
