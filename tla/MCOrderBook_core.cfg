\* Orders without an id: the engine issues unique ones.
CONSTANTS
    Prices = {1, 2}
    Quantities = {1, 2}
    ClientIds = {0}
    ClientStatuses = {"OPEN"}
    Incoming <- MCIncoming
    FirstId = 1
    MaxOrders = 4
    None = None
SPECIFICATION Spec
INVARIANTS
    TypeOK
    LevelTotals
    NotCrossed
    PublicFeedExact
    PrivateFeedExact
    Cancellable
    FillsReportedBeforeTrades
    PromiseInv
PROPERTIES
    NoOrderLost
    OrdersAreServed
    PriceTimePriority
