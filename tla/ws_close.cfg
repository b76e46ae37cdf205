SPECIFICATION Spec
CONSTANTS
    Channels = {book}
    m1 = m1
    m2 = m2
    Markets <- MCMarkets
    Sequenced = {book}
    NoChannel = NoChannel
    OkCarriesTickers = FALSE
    Operations = {"add_market", "close"}
    Rules = {}
    MaxUpdates = 0
    MaxSkips = 0
    MaxLosses = 1
    MaxCalls = 1
    MaxRefusals = 0
INVARIANTS CloseIsFinal
