SPECIFICATION FairSpec
CHECK_DEADLOCK FALSE
CONSTANTS
    Tabs = {t1, t2}
    NoTab = NoTab
    Products = {p1, p2}
    NoCart = NoCart
    Amounts = {1}
    LineCap = 2
    Requests = {r1}
    MaxActs = 2
PROPERTIES
    TabsComeToAgree
