CONSTANTS
    Routes = {r1, r2}
    Domains = {a, b}
    Targets = {t1, t2}
    Procs = {p1, p2}
    MaxOps = 3
    None = None
SPECIFICATION Spec
SYMMETRY Symmetry
INVARIANT WhatWasPutStays
INVARIANT OneSubjectOnePolicy
INVARIANT StreamFollowsRow
CHECK_DEADLOCK FALSE
