\* Three commands of any kind, with failing devices and decoders.
SPECIFICATION FairSpec
CONSTANTS
    MaxCommands = 3
    Faults = TRUE
INVARIANTS
    OneLoop
    JoinsWhatWasStarted
    
PROPERTIES
    StopEndsTheLoop
\* The process ends.
CHECK_DEADLOCK FALSE
