\* Clients name their orders, reuse ids, collide with the engine's own ids,
\* send orders of quantity zero and orders that claim to be filled.
CONSTANTS
    Prices = {1, 2}
    Quantities = {0, 1, 2}
    ClientIds = {0, 1}
    ClientStatuses = {"OPEN", "FILLED"}
    Incoming <- MCIncoming
    FirstId = 1
    MaxOrders = 3
    None = None
SPECIFICATION Spec
INVARIANTS
    FeedInv
    IInv
PROPERTIES
    NoOrderLost
    Returns
