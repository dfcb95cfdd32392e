\* The hourly resolver, crashing, rate-limited and racing a reorg.
SPECIFICATION FairSpec
CONSTANTS
    e1 = e1
    e2 = e2
    Events = {e1, e2}
    Evidenced = {e1}
    Reorgable = {e1}
    Dead = {}
    Horizons = {"1h", "24h"}
    Prices = {"p1", "p2"}
    Grace = 2
    Budget = 1
    MayCrash = TRUE
    None = None
    Quotes <- MCQuotes
    Lane <- MCLane
    Anchor <- MCAnchor
    Delay <- MCDelay
    Priority <- MCPriority
INVARIANT TypeOK
INVARIANT SettledIsObserved
PROPERTY ReopenedOnlyByOlderRun
CHECK_DEADLOCK FALSE
PROPERTY EveryTrialEnds
