\* Two connections, two feeds; everything a peer may do.
CONSTANTS
    Conns = {c1, c2}
    BOOK = BOOK
    ORDERS = ORDERS
    Feeds = {BOOK, ORDERS}
    Effects <- MCEffects
    Messages = {"order", "unknown", "invalid"}
    MayReset = TRUE
    Sizes <- MCSizes
    SendBuffer = 1
    MaxMessages = 2
SPECIFICATION Spec
INVARIANTS
    TypeOK
    BatchIsLive
    NeverBlocks
    FeedExact
    DanglingOnlyAfterReset
PROPERTIES
    EverythingHandled
    SurvivesPolitePeers
\* The process may have ended, or every peer be done.
CHECK_DEADLOCK FALSE
