CONSTANTS
    c1 = c1
    c2 = c2
    c3 = c3
    c4 = c4
    Conns = {c1}
    NumNames = 2
    NameOf <- MCNameOf
    Mortal = {}
    Commands = {"tests", "start"}
    MaxCommands = 4
    EarlySlaves = FALSE
SPECIFICATION FairSpec
PROPERTIES
    ViableIsStarted
CHECK_DEADLOCK FALSE
