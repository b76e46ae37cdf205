SPECIFICATION Spec
CONSTANTS
    Channels = {book, trade}
    m1 = m1
    m2 = m2
    Markets <- MCOneMarket
    Sequenced = {book}
    NoChannel = NoChannel
    OkCarriesTickers = TRUE
    Operations = {"add_market", "add_markets", "remove_market", "unsubscribe_all", "request_snapshot", "resubscribe_channel", "close"}
    Rules = {}
    MaxUpdates = 1
    MaxSkips = 1
    MaxLosses = 1
    MaxCalls = 3
    MaxRefusals = 1
INVARIANTS TypeOK SidMapInverse Routing NoSilentGap
PROPERTIES GapIsReal
