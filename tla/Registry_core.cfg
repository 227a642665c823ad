\* One reload or command; the core mode has to be reachable after it.
SPECIFICATION FairSpec
CONSTANTS
    Core = core
    OtherModes = {echo}
    Services = {sphinx}
    Runners = {watcher}
    Daemon = FALSE
    MaxOrders = 1
    MaxRuns = 1
PROPERTIES CoreReachableAgain
CHECK_DEADLOCK FALSE
