SPECIFICATION Spec
CONSTANTS
    Routes = {r1}
    Procs = {p1, p2}
    d1 = d1
    d2 = d2
    bad = bad
    Data = {d1, d2}
    CreateForm <- MCCreateForm
    BootForm <- MCBootForm
    ResyncForm <- MCResyncForm
    InvalidData = {}
    Faults = {"failed", "lost"}
    MaxRetries = 1
    None = None
SYMMETRY Symmetry
INVARIANT Agreement
PROPERTY GoneStaysGone
PROPERTY NoFalseDrift
