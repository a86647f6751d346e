CONSTANTS
    h1 = h1
    h2 = h2
    i1 = i1
    Hosts = {h1, h2}
    Instances = {i1}
    CycleMod = 2
    ReadAfterWrite = TRUE
    LoadMayFail = FALSE
SPECIFICATION Spec
INVARIANTS
    NoAbort
CHECK_DEADLOCK FALSE
