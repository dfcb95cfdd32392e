SPECIFICATION FairSpec
CONSTANTS
    MaxCursor = 5
    InlineBackfill = TRUE
    Produced <- AllSlots
    Launched <- SecondSlot
    ChunkSize = 1
    FetchLimit = 2
    SlotBudget = 1
    Lookahead = 3
INVARIANT LiveOwesNothing
PROPERTIES ImplementsCoverage DebtIsSettled
