SPECIFICATION Spec
CONSTANTS
    Calls = {c1, c2}
    Kinds = {"read", "create", "configure"}
    MaxRetries = 2
    DefaultCost = 2
    Fallback <- MCFallback
    Published <- MCPublished
    Price <- MCPrice
    NoCall = NoCall
INVARIANTS TypeOK RetriesSpent AnswerIsExecuted DuplicatesAreFaults OneConfigures Affordable
PROPERTIES Implements Settled CallsEnd
