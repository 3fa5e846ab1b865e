SPECIFICATION FairSpec
CONSTANTS
    HardSteps = 4
    MaxStalls = 2
INVARIANT TypeOK
INVARIANT OutcomeCountsSent
PROPERTY IsBoundedRun
PROPERTY RunEnds
CHECK_DEADLOCK FALSE
