SPECIFICATION Spec
SYMMETRY Symmetry
CHECK_DEADLOCK FALSE
CONSTANTS
    dress = dress
    scarf = scarf
    look = look
    flag = flag
    r1 = r1
    r2 = r2
    r3 = r3
    r4 = r4
    Requests <- ThreeRequests
    NoRequest = NoRequest
    Tabs = {t1, t2}
    Products <- OneProduct
    Lookup = look
    Flag = flag
    Batches <- Cards
    LineCap = 3
    MaxModelCalls = 2
    MaxMessages = 2
    CatalogEvents = {"delist"}
    Faults = {"fail", "restart", "lose", "reload"}
INVARIANTS
    AddsWereApproved
    
    NoDanglingCallAtModel
