SPECIFICATION Spec
CONSTANTS
    Message = {"initialize", "call", "exit"}
    MaxLine = 2
    MaxChunk = 2
    MaxBytes = 4
    MaxFaults = 0
INVARIANT NoOrphanedBrowser
CHECK_DEADLOCK FALSE
