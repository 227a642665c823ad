\* Two threads give two commands while Buckey says two things.
SPECIFICATION FairSpec
CONSTANTS
    Replies = {pong, sure}
    Commanders = {main, watcher}
    MaxCommands = 2
    MaxFaults = 1
INVARIANTS
    SomebodyClearsTheFlag
    ListensIffRunning
    SpokenOnce
PROPERTIES
    RepliesAreSpoken
    StopReturns
\* All commands are given, all replies said, or everyone waits for the flag.
CHECK_DEADLOCK FALSE
