SPECIFICATION Spec
CONSTANTS
    Channels = {book, trade}
    m1 = m1
    m2 = m2
    Markets <- MCMarkets
    Sequenced = {book}
    NoChannel = NoChannel
    OkCarriesTickers = FALSE
    Operations = {"add_market", "add_markets", "remove_market", "unsubscribe_all", "request_snapshot", "resubscribe_channel"}
    Rules = {"after_connect", "not_reconnecting", "confirmed", "alone", "gap_loop"}
    MaxUpdates = 1
    MaxSkips = 1
    MaxLosses = 1
    MaxCalls = 3
    MaxRefusals = 0
INVARIANTS InSync PendingAnswerable
SYMMETRY MarketSymmetry
