SPECIFICATION FairBrowserSpec
CONSTANTS
    c1 = c1
    c2 = c2
    c3 = c3
    t1 = t1
    t2 = t2
    None = None
    Chrome = {c1,c2,c3}
    Tab = {t1, t2}
    MaxFaults = 2
    Tools = {"navigate", "snapshot", "read", "write", "list_tabs", "click", "press", "exec", "history", "new_tab", "switch_tab", "close"}
INVARIANT BrowserTypeOK
INVARIANT RefsOnTheirPage
INVARIANT NoStrayChrome
PROPERTY NoBlindCreate
PROPERTY ExternalIsTheUsers
PROPERTY KeepsOnce
PROPERTY OkMeansReleased
CHECK_DEADLOCK FALSE
PROPERTY Recovers
