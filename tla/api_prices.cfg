SPECIFICATION Spec
CONSTANTS
    PriceLists <- MCTestPrices
    DefaultPrice = 10
    InitialPrice = 1
    MaxCalls = 1
INVARIANTS UnlistedAtDefault
