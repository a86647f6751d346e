CONSTANTS
    c1 = c1
    c2 = c2
    c3 = c3
    c4 = c4
    Conns = {c1, c2}
    NumNames = 2
    NameOf <- MCNameOf
    Mortal = {}
    Commands = {"tests", "list", "start", "stop", "loadConfig", "saveConfig"}
    MaxCommands = 2
    EarlySlaves = FALSE
SPECIFICATION FairSpec
PROPERTIES
    EnrollmentAnswered
    CommandsGetDone
CHECK_DEADLOCK FALSE
