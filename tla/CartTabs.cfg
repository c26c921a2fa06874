SPECIFICATION Spec
SYMMETRY Symmetry
CHECK_DEADLOCK FALSE
CONSTANTS
    Tabs = {t1, t2}
    NoTab = NoTab
    Products = {p1, p2}
    NoCart = NoCart
    Amounts = {0, 3}
    LineCap = 2
    Requests = {r1}
    MaxActs = 4
INVARIANTS
    SettledTabShowsStore
    NothingConjured
