CONSTANTS
    h1 = h1
    h2 = h2
    h3 = h3
    i1 = i1
    Hosts = {h1, h2, h3}
    Instances = {i1}
    CycleMod = 2
    ReadAfterWrite = FALSE
    LoadMayFail = TRUE
SPECIFICATION Spec
SYMMETRY Symmetry
INVARIANTS
    TypeOK
    IInv
    MutualExclusion
    OwnerStandsStill
    FetchedDataStable
    NoAbort
    RepliesMatch
    FutureWaits
PROPERTIES
    NoReentry
    ImplementsAccess
CHECK_DEADLOCK FALSE
