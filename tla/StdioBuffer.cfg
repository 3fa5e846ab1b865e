SPECIFICATION Spec
CONSTANTS
    Message = {"ping"}
    MaxLine = 2
    MaxChunk = 2
    MaxBytes = 8
    MaxFaults = 0
INVARIANT BufferBounded
CHECK_DEADLOCK FALSE
