CONSTANTS
    a1 = a1
    a2 = a2
    b1 = b1
    b2 = b2
    Slaves = {"A", "B"}
    Hosts = {a1, a2, b1}
    SlaveOf <- MCSlaveOf
    HostNames <- MCHostNames
    HomeOf <- MCHomeOf
    NameOf <- MCNameOf
    ClientId <- MCClientId
    MegaId <- MCMegaId
    EgId <- MCEgId
    Types = {1, 2, 3, 4}
    Programs = {"p", "q"}
    Analysed = {"p", "q"}
    Place <- MCPlace
    Present = {a1, a2, b1}
    Mortal = {}
    Faulty = {}
    MaxLoads = 2
    MaxAsks = 2
SPECIFICATION Spec
INVARIANTS
    NoAbort
CHECK_DEADLOCK FALSE
