SPECIFICATION Spec
CONSTANTS
    p1 = p1
    p2 = p2
    Proc = {p1, p2}
    Token = {1, 2, 3, 4}
    NoToken = NoToken
    NoFile = NoFile
    TTL = 2
    Interval = 1
    Attempts = 3
    Prompt = FALSE
    MaxCrashes = 0
    IoFaults = FALSE
PROPERTY LateDropSparesOthers
