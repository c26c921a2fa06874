SPECIFICATION Spec
SYMMETRY Symmetry
CHECK_DEADLOCK FALSE
CONSTANTS
    dress = dress
    scarf = scarf
    look = look
    flag = flag
    r1 = r1
    r2 = r2
    r3 = r3
    r4 = r4
    Requests <- FourRequests
    NoRequest = NoRequest
    Tabs = {t1}
    Products <- Shop
    Lookup = look
    Flag = flag
    Batches <- AnyBatch
    LineCap = 3
    MaxModelCalls = 2
    MaxMessages = 2
    CatalogEvents = {}
    Faults = {"fail"}
INVARIANTS
    AddsWereConsented
    EachAddOnce
    OneRowPerTurn
    RowCountsWholeTurn
    OutcomeIsWhatHappened
    EveryTurnRecorded
    AnswerFindsItsRequest
PROPERTIES
    RefinesCartConsent
