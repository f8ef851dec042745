SPECIFICATION FairSpec
CONSTANTS
    Nodes = {n1}
    Socks = {s1, s2, s3}
    MaxFaults = 2
    None = None
INVARIANT RegistryAlive
INVARIANT RevokedStaysOut
INVARIANT SingleSession
PROPERTY LinkIsImplemented
PROPERTY NodeReturns
PROPERTY RevokedIsOut
CHECK_DEADLOCK FALSE
