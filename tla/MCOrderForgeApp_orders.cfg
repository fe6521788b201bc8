\* Clients that only send valid orders, as fast as they like.
CONSTANTS
    Conns = {c1, c2}
    BOOK = BOOK
    ORDERS = ORDERS
    Feeds = {BOOK, ORDERS}
    Effects <- MCEffects
    Messages = {"order"}
    MayReset = FALSE
    Sizes <- MCSizes
    SendBuffer = 1
    MaxMessages = 2
SPECIFICATION Spec
INVARIANT SurvivesOrders
CHECK_DEADLOCK FALSE
