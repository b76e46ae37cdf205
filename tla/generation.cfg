SPECIFICATION Spec
CONSTANTS
    Requests = {"PutRequest"}
    Responses = {"GetResponse"}
    Skipped = {"Subaccount"}
    TypeAliases = {"Dollars"}
    FirstSpecs <- MCFirstSpecs
    LaterSpecs <- MCLaterSpecs
    WsSpecs <- MCWsSpecs
    MaxPublishes = 1
INVARIANTS Regenerated SortIsTopological DepthIsBounded
