SPECIFICATION Spec
CONSTANTS
    p1 = p1
    p2 = p2
    p3 = p3
    Proc = {p1, p2, p3}
    Token = {1, 2, 3, 4}
    NoToken = NoToken
    NoFile = NoFile
    TTL = 2
    Interval = 1
    Attempts = 3
    Prompt = TRUE
    MaxCrashes = 0
    IoFaults = FALSE
SYMMETRY Symmetry
INVARIANT MutualExclusion
