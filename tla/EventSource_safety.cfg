SPECIFICATION Spec
CONSTANTS
    Callers = {c1, c2}
    Owner = c1
    Manager = manager
    NoThread = noThread
    Types = {outer, inner}
    InnerType = inner
    Kinds = {"short"}
    IdRange = 3
    MaxAdds = 2
    MaxCalls = 1
    Kills = TRUE
CHECK_DEADLOCK FALSE
INVARIANTS IdsAreUnique EveryThreadIsAccounted
PROPERTIES ErasedIsFinal EventReachesListeners
