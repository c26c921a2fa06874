SPECIFICATION WaitsSpec
CHECK_DEADLOCK FALSE
CONSTANTS
    desk = desk
    tab1 = tab1
    Browsers = {desk}
    Tabs = {tab1}
    NoTab = NoTab
    BrowserOf <- OneTab
    Locking = {desk}
    Requests = {r1, r2}
    MaxTokens = 3
    Events = {"lose", "logout"}
    MaxRuns = 4
    Departments = {d1}
    Queries = {none, qa}
    NoQuery = none
    MaxPage = 1
    MaxActs = 2
    None = None
    Workers = {w1, w2}
    NoIndex = NoIndex
    MaxVersion = 1
    Threads = {th}
    Turns = {u1, u2}
    TTL = 1
    NoRow = NoRow
INVARIANTS
    OverlayIsLed
PROPERTIES
    
    IdleThreadsGo
    SearchesEnd
    OverlayEnds
    PageSettles
