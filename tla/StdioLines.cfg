SPECIFICATION FairSpec
CONSTANTS
    Message = {"initialize", "call", "note", "shutdown", "exit"}
    MaxLine = 2
    MaxChunk = 3
    MaxBytes = 5
    MaxFaults = 1
INVARIANT TypeOK
PROPERTY ImplementsLines
PROPERTY ServesToTheEnd
CHECK_DEADLOCK FALSE
