CONSTANTS
    c1 = c1
    c2 = c2
    c3 = c3
    c4 = c4
    Clients = {c1, c2, c3, c4}
    Processes = {"basic", "geometry"}
    HostNames = {"one", "two", "three", "four"}
    ProcessOf <- MCProcessOf
    Programs <- MCPrograms
SPECIFICATION Spec
INVARIANTS
    TypeOK
    MappingSound
PROPERTIES
    RightProcess
    KeepsNames
    UsesAllHosts
CHECK_DEADLOCK FALSE
