\* One dead pool: its lookup raises what resolve() does not catch.
SPECIFICATION FairSpec
CONSTANTS
    e1 = e1
    e2 = e2
    Events = {e1, e2}
    Evidenced = {}
    Reorgable = {}
    Dead = {e1}
    Horizons = {"1h", "24h"}
    Prices = {"p1", "p2"}
    Grace = 2
    Budget = 1
    MayCrash = FALSE
    None = None
    Quotes <- MCQuotes
    Lane <- MCLane
    Anchor <- MCAnchor
    Delay <- MCDelay
    Priority <- MCPriority
CHECK_DEADLOCK FALSE
PROPERTY EveryTrialEnds
