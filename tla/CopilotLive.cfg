SPECIFICATION FairSpec
CHECK_DEADLOCK FALSE
CONSTANTS
    dress = dress
    scarf = scarf
    look = look
    flag = flag
    r1 = r1
    r2 = r2
    r3 = r3
    r4 = r4
    Requests <- ThreeRequests
    NoRequest = NoRequest
    Tabs = {t1}
    Products <- OneProduct
    Lookup = look
    Flag = flag
    Batches <- SearchOrCard
    LineCap = 3
    MaxModelCalls = 2
    MaxMessages = 6
    CatalogEvents = {"list"}
    Faults = {}
INVARIANTS
    EveryAddDelivered
PROPERTIES
    YesLeadsToCart
    RequestsEnd
    TabsGetAnAnswer
