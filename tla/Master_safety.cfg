CONSTANTS
    c1 = c1
    c2 = c2
    c3 = c3
    c4 = c4
    Conns = {c1, c2, c3, c4}
    NumNames = 2
    NameOf <- MCNameOf
    Mortal = {c1}
    Commands = {"start"}
    MaxCommands = 2
    EarlySlaves = TRUE
SPECIFICATION Spec
INVARIANTS
    TypeOK
    InOrder
    AwaitedIsBehind
    LoadsAccounted
    CompleteMeansDone
    NameOwned
    AnsweredOnce
CHECK_DEADLOCK FALSE
