CONSTANTS
    h1 = h1
    h2 = h2
    Clients = {h1, h2}
    Processes = {"basic"}
    HostNames = {"one", "two"}
    ProcessOf <- MCProcessOf
    Programs <- MCPrograms
    ProgramNames = {"both", "second", "unreadable"}
    WantedBy <- MCWantedBy
    Readable = {"both", "second"}
    Malformed = {}
    ActiveAtMaster = {"both"}
    Mortal = {h1}
    MayFail = {h2}
    GarbageIds = TRUE
    MaxLoads = 2
    MaxConfigs = 0
    MaxTests = 0
    MaxAsked = 2
SPECIFICATION Spec
INVARIANTS
    TypeOK
    OneRunner
    HostLoadsAccounted
    AnsweredLast
    NothingPends
PROPERTIES
    RunsAsMapped
    ImplementsLoads
CHECK_DEADLOCK FALSE
