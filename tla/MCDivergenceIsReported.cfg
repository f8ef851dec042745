SPECIFICATION DriftSpec
CONSTANTS
    Routes = {r1}
    Procs = {p1}
    Data = {d1, bad}
    InvalidData = {bad}
    CreateForm <- SameForm
    BootForm <- SameForm
    ResyncForm <- SameForm
    Faults = {}
    MaxRetries = 1
    None = None
PROPERTY DivergenceIsReported
