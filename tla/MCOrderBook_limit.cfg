\* Does a limit order trade at its price or better only?
CONSTANTS
    Prices = {1, 2}
    Quantities = {1, 2}
    ClientIds = {0}
    ClientStatuses = {"OPEN"}
    Incoming <- MCIncoming
    FirstId = 1
    MaxOrders = 3
    None = None
SPECIFICATION Spec
INVARIANT LimitPriceRespected
