SPECIFICATION Spec
CONSTANTS
    MaxCursor = 3
    InlineBackfill = FALSE
    Produced <- AllSlots
    Launched <- SecondSlot
    ChunkSize = 1
    FetchLimit = 1
    SlotBudget = 1
    Lookahead = 1
INVARIANT LaunchesAccountedFor
