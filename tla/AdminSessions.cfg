SPECIFICATION Spec
SYMMETRY Symmetry
CHECK_DEADLOCK FALSE
CONSTANTS
    desk = desk
    t1 = t1
    t2 = t2
    r1 = r1
    r2 = r2
    Browsers = {desk}
    Tabs = {t1, t2}
    NoTab = NoTab
    BrowserOf <- TwoTabs
    Locking = {desk}
    Requests = {r1, r2}
    MaxTokens = 3
    Events = {"reload", "lose", "fail", "logout", "expire"}
INVARIANTS
    OneLiveTokenPerLogin
    AlarmHasCause
