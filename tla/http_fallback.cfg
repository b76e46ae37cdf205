SPECIFICATION Spec
CONSTANTS
    Calls = {c1}
    Kinds = {"read", "create"}
    MaxRetries = 0
    DefaultCost = 2
    Fallback <- MCFallback
    Published <- MCPublished
    Price <- MCPrice
    NoCall = NoCall
INVARIANTS FallbackIsWhole
