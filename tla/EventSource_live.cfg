SPECIFICATION FairSpec
CONSTANTS
    Callers = {c1}
    Owner = c1
    Manager = manager
    NoThread = noThread
    Types = {outer, inner}
    InnerType = inner
    Kinds = {"short", "nested", "silent"}
    IdRange = 1
    MaxAdds = 1
    MaxCalls = 3
    Kills = FALSE
CHECK_DEADLOCK FALSE
PROPERTIES DoneIsReaped CallsReturn
INVARIANTS TypeOK
