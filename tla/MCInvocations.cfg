SPECIFICATION FairSpec
CONSTANTS
    a = a
    Processes = {p1, p2, p3}
    Nobody = nobody
    Letters = {a}
    NewLine = newline
    Colon = colon
    Space = space
    BufferSize = 2
    MaxCommandSize = 3
    ListenBacklog = 1
    MaxLines = 2
    Roles = {"plain", "daemon", "command", "stranger"}
    Typed <- MCTyped
    Fragments <- MCFragments
INVARIANTS OneBuckey TempDirReturns LinesArrive
CHECK_DEADLOCK FALSE
PROPERTIES LinesAreTaken
