SPECIFICATION Spec
CONSTANTS
    Channels = {book}
    m1 = m1
    m2 = m2
    Markets <- MCMarkets
    Sequenced = {book}
    NoChannel = NoChannel
    OkCarriesTickers = FALSE
    Operations = {"add_market", "add_markets"}
    Rules = {"after_connect", "not_reconnecting", "alone", "gap_loop"}
    MaxUpdates = 0
    MaxSkips = 0
    MaxLosses = 0
    MaxCalls = 3
    MaxRefusals = 0
INVARIANTS InSync
