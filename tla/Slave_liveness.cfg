CONSTANTS
    h1 = h1
    h2 = h2
    Clients = {h1}
    Processes = {"basic"}
    HostNames = {"one", "two"}
    ProcessOf <- MCProcessOf
    Programs <- MCPrograms
    ProgramNames = {"both", "malformed"}
    WantedBy <- MCWantedBy
    Readable = {"both", "malformed"}
    Malformed = {"malformed"}
    ActiveAtMaster = {"both"}
    Mortal = {}
    MayFail = {h1}
    GarbageIds = FALSE
    MaxLoads = 1
    MaxConfigs = 1
    MaxTests = 1
    MaxAsked = 2
SPECIFICATION FairSpec
PROPERTIES
    LoadAnswered
    ConfigAnswered
CHECK_DEADLOCK FALSE
