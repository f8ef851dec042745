SPECIFICATION FairSpec
CONSTANTS
    MaxOps = 3
    MaxCrashes = 1
    None = None
INVARIANT SidecarsAreManaged
INVARIANT StatusIsTrue
PROPERTY NoStartWhileStopping
PROPERTY StoppedChildEnds
CHECK_DEADLOCK FALSE
