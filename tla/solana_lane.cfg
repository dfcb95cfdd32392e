SPECIFICATION FairSpec
CONSTANTS
    MaxCursor = 5
    InlineBackfill = FALSE
    Produced <- SomeSkipped
    Launched <- LateSlot
    ChunkSize = 2
    FetchLimit = 1
    SlotBudget = 2
    Lookahead = 3
INVARIANTS TypeOK NoSlotSkipped LiveOwesNothing WorkerViewCurrent
PROPERTIES DisconnectSticky SettledOnlyWhenLoaded ImplementsCoverage DebtIsSettled
