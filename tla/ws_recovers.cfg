SPECIFICATION FairSpec
CONSTANTS
    Channels = {book}
    m1 = m1
    m2 = m2
    Markets <- MCMarkets
    Sequenced = {book}
    NoChannel = NoChannel
    OkCarriesTickers = TRUE
    Operations = {"add_markets", "unsubscribe_all", "resubscribe_channel", "close"}
    Rules = {}
    MaxUpdates = 0
    MaxSkips = 0
    MaxLosses = 2
    MaxCalls = 3
    MaxRefusals = 1
PROPERTIES Recovers
