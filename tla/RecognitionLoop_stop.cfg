SPECIFICATION FairSpec
CONSTANTS
    MaxCommands = 2
    Faults = FALSE
PROPERTIES StoppedIsNotRunning
CHECK_DEADLOCK FALSE
