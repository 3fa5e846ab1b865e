SPECIFICATION FairSpec
CONSTANTS
    p1 = p1
    p2 = p2
    Proc = {p1, p2}
    Token = {1, 2, 3, 4}
    NoToken = NoToken
    NoFile = NoFile
    TTL = 3
    Interval = 1
    Attempts = 2
    Prompt = TRUE
    MaxCrashes = 1
    IoFaults = FALSE
INVARIANT LeaseKeptUntilDisturbed
PROPERTY CrashRecovery
PROPERTY AcquireTerminates
PROPERTY ReleaseTerminates
