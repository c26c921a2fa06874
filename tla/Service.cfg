SPECIFICATION ServiceSpec
CHECK_DEADLOCK FALSE
CONSTANTS
    Clients = {c1}
    Writers = {w1, w2}
    Second = 2
    Span <- FourSecondsMinute
    Limit <- TwoAMinute
    MaxTracked = 1
    Slack = 1
    MaxClock = 9
    Threads = {t1}
    Turns = {r1, r2}
    TTL = 1
    NoRow = NoRow
    Readers = {a1, a2}
    NoData = NoData
    FacetsTTL = 2
    PolicyTTL = 1
    Delay = 1
    MaxTime = 5
    Products <- FourProducts
    Titles <- SameTitles
    CrossOrder <- CrossEncoder
    RRF = 2
    Whole = 12
    Top = 2
    Window = 2
    Handful = 2
    Limits = {1, 2}
    Asked <- Searches
    Shown = {p1, p2}
    NoProduct = NoProduct
    Calls = {1, 2}
    MAX_REGISTRY = 1
    MaxRef = 4
    MaxTalks = 3
    Builds = {b1, b2}
    Budgets = {0, 2, 6}
    Prices = {1, 3, 7}
    NoPick = NoPick
    Items <- Wardrobe
    Measures = {"height", "weight", "foot", "waist", "head"}
    NoSize = 0
    Asins <- FourAsins
    TitleOf <- ThreeNames
    Category <- Categories
    Department <- OfOneHouse
    Candidates <- Rankings
    MAX_RECS = 3
    Enough = 2
    RailLimit = 2
    MaxViewed = 2
    MaxChanges = 1
    Catalog <- FivePieces
    OutfitBudgets = {60, 100}
    Runs = {1, 2}
    Workers = {w1, w2, w3}
    NoIndex = NoIndex
    MaxVersion = 1
    Departments = {d1, d2}
    Queries = {none, qa}
    NoQuery = none
    MaxPage = 1
    MaxActs = 2
    None = None
INVARIANTS
    ServiceTypeOK
    WindowHolds
    RefusalHasCause
    AnsweredTurnsKept
    LeakHasCause
    CachesWithinTTL
    PagesFit
    RefsKeepTheirNumbers
    OutfitWithinBudget
    RailIsSound
    ReindexHolds
    ShownIsAsked
    StoredIsSound
    OneSimulation
PROPERTIES
    SizesFollowBody
