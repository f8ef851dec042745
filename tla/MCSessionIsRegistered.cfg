SPECIFICATION Spec
CONSTANTS
    Nodes = {n1}
    Socks = {s1, s2, s3}
    MaxFaults = 1
    None = None
INVARIANT SessionIsRegistered
SYMMETRY Symmetry
