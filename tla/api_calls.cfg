SPECIFICATION Spec
CONSTANTS
    PriceLists <- MCPriceLists
    DefaultPrice = 10
    InitialPrice = 1
    MaxCalls = 2
INVARIANTS TypeOK OneEndpoint Strays OwnCharge CountsMatch
