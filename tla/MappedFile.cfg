SPECIFICATION Spec
CONSTANTS
    t1 = t1
    t2 = t2
    t3 = t3
    Threads = {t1, t2, t3}
    m1 = m1
    m2 = m2
    Maps = {m1, m2}
    d1 = d1
    d2 = d2
    Dbs = {d1, d2}
    v1 = v1
    v2 = v2
    Versions = {v1, v2}
    Short = {v2}
    Faults = {"change", "remove", "getcwd"}
    Apart <- MCApart
    MaxStray = 2
    None = None
SYMMETRY Symmetry
INVARIANTS
    NothingDangling
    UsesCounted
    OneDatabase
    ConvertedOnce
PROPERTY FreshCopy
