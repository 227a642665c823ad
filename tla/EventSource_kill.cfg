SPECIFICATION FairSpec
CONSTANTS
    Callers = {c1}
    Owner = c1
    Manager = manager
    NoThread = noThread
    Types = {inner}
    InnerType = inner
    Kinds = {"short"}
    IdRange = 1
    MaxAdds = 1
    MaxCalls = 1
    Kills = TRUE
CHECK_DEADLOCK FALSE
PROPERTIES KillReturns
