\* The watcher and one thread of the UNIX socket; one text starts a
\* conversation, one stops Buckey, one confirms.
SPECIFICATION FairSpec
CONSTANTS
    Watcher = watcher
    Readers = {socket}
    NoThread = noThread
    Inputs = {echo, quit, confirm}
    Conversational = {echo}
    QuitCommands = {quit}
    Confirm = confirm
    MaxInputs = 3
    MaxCalls = 1
INVARIANTS
    TypeOK
    NoInputLostOrRepeated
    OneConversation
    FlagHasItsClearer
    OutcomeHasACause
PROPERTIES
    ConversationKeepsItsInputs
    ImplementsRouting
    ImplementsFairRouting
    StopEndsTheThreads
\* Buckey stops for good when the threads have left their loops.
CHECK_DEADLOCK FALSE
