\* Two runs of the process with one mode and one service besides the core mode.
SPECIFICATION FairSpec
CONSTANTS
    Core = core
    OtherModes = {echo}
    Services = {sphinx}
    Runners = {watcher, reader}
    Daemon = FALSE
    MaxOrders = 2
    MaxRuns = 2
INVARIANTS
    ReachableIffStarted
    ReloadRestores
    RestartRestores
PROPERTIES
    CoreBecomesReachable
    StopEndsBuckey
\* The process ends.
CHECK_DEADLOCK FALSE
