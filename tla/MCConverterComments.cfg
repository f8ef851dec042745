SPECIFICATION Spec
CONSTANT Sources <- MCSources
INVARIANT StandaloneIsWrapped
INVARIANT OptionsInAnyOrder
INVARIANT OrphansAreReported
CHECK_DEADLOCK FALSE
