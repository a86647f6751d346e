CONSTANTS
    c1 = c1
    c2 = c2
    c3 = c3
    c4 = c4
    Conns = {c1, c2}
    NumNames = 2
    NameOf <- MCNameOf
    Mortal = {}
    Commands = {"tests"}
    MaxCommands = 2
    EarlySlaves = FALSE
SPECIFICATION Spec
INVARIANTS
    CompletesOnce
CHECK_DEADLOCK FALSE
