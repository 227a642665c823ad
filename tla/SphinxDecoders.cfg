\* Two decoders, the default, two updates, an utterance, a pause and a failure.
SPECIFICATION FairSpec
CONSTANTS
    MaxDecoders = 2
    MaxUpdates = 2
    MaxUtterances = 1
    MaxPauses = 1
    MaxFaults = 1
INVARIANTS
    TypeOK
    
    

    
\* The utterance was heard, or an update waits for a decoder that failed.
CHECK_DEADLOCK FALSE
