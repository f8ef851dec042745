SPECIFICATION Spec
CONSTANTS
    Routes = {r1}
    Procs = {p1}
    d1 = d1
    d2 = d2
    bad = bad
    Data = {d1, d2, bad}
    CreateForm <- MCCreateForm
    BootForm <- MCBootForm
    ResyncForm <- MCResyncForm
    InvalidData = {bad}
    Faults = {}
    MaxRetries = 1
    None = None
PROPERTY BootstrapRestores
PROPERTY ForceResyncResolves
PROPERTY SyncedMeansMatches
