SPECIFICATION DesktopSpec
CONSTANTS
    Parts = {"targets", "verify", "ax", "service", "hud", "screen", "files", "listings", "tree"}
    Handle = {h1, h2}
    a1 = a1
    a2 = a2
    App = {a1, a2}
    t1 = t1
    t2 = t2
    p1 = p1
    p2 = p2
    Appearance <- Appearances
    Token = {k1, k2}
    Locator <- Locators
    Installed = {a1}
    Nil = Nil
    MaxBindings = 1
    MaxSaved = 1
    Polls = 2
    MaxEvents = 2
    Pane = {w1, w2}
    Origin = w1
    NoPane = NoPane
    MaxSamples = 2
    MaxChanges = 1
    v1 = v1
    AxWindow = {v1, v2}
    Key = {y1, y2}
    Scopes <- ObservedScopes
    NoWindow = NoWindow
    MaxRetained = 1
    MaxRounds = 2
    MaxRequests = 2
    MaxAxEvents = 1
    Native = {n1, n2}
    Callers = 2
    Nothing = Nothing
    MaxHandle = 2
    Looks = 2
    MaxJobs = 2
    Shower = {s1, s2}
    Card = {c1, c2}
    NoCard = NoCard
    FadeSteps = 1
    MaxShows = 3
    Hwnd = {hw1, hw2}
    NoHwnd = NoHwnd
    Edges = {0, 1}
    Spot = 2
    MaxCaptures = 1
    TextLength = 2
    DragSteps = 1
    MaxSlips = 1
    Server = {sv1, sv2}
    Detector = Detector
    Dictionary = Dictionary
    Yolo = Yolo
    Sources = 2
    MaxDeaths = 1
    LastApp = 2
    LastWindow = 3
    Queries <- AllOrSome
    Asker = {g1, g2}
    Registrar = {r1, r2}
    PageRows = 3
    PageBudget = 4
    MaxCatalogs = 1
    MaxListEvents = 1
    Trees <- SmallTrees
    Menus = {"menu"}
    Plain = {"pane"}
    Wanted <- Buttons
    PageSize = 2
    MaxOffset = 8
    SearchBudget = 7
    MaxDepth = 3
    MaxChain = 2
    MaxTreeRounds = 5
    MaxTreeChanges = 1
INVARIANT DesktopTypeOK TypesWhereAsked PlacesAreTrue ActsOnItsWindow NothingLate HandleIsForever NothingPartial
PROPERTY AnswersWhatLived SavedSticks VerdictsAreTrue LeavesNothingBehind HudEndsHidden CallsEnd
CHECK_DEADLOCK FALSE
