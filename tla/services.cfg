\* The services that share no state, one at a time from its own start.
SPECIFICATION Spec
CONSTANTS
    ln1 = ln1
    ln2 = ln2
    Logs = {g1, g2}
    Scans = {s1, s2}
    NoLog = NoLog
    Publishers = {radar, quoteJob}
    QuoteTTL = 2
    DeliverySLA = 0
    MaxClock = 2
    MaxQuotes = 2
    NoProof0 = NoProof0
    Nobody = Nobody
    Launches = {ln1, ln2}
    EpochOf <- OneEpoch
    Reconcilers = {r1, r2}
    EpochBound = 1
    NoLaunch = NoLaunch
    Symbols = {x, y}
    ObservationAge = 1
    ValidInterval = 1
    QuoteSLA = 1
    EntryQuotes = 1
    LastMinute = 2
    Rewriters = {assess}
    ScanMaxDays = 0
    CapDays = 0
    MaxTransfers = 2
    LastDay = 1
    Returns <- UnitReturns
    DayWindow = 2
    MaxSteps = 5
    Tokens = {tok}
    Horizons = {1, 2}
    DayTicks = 2
    LastLedgerTick = 4
INVARIANT TypeOK
INVARIANT LinkedLaunchIsRetired
INVARIANT ActionableIsDelivered
INVARIANT ProvableMeansNothingWasMissed
INVARIANT SealedEpochsTile
INVARIANT TimeIsAccountedFor
 
INVARIANT DrawdownIsOfRecordedTime
INVARIANT ResolvedByFirstRun
PROPERTY ManifestIsOfItsView
PROPERTY ImplementsEvidence
SYMMETRY Symmetry
CHECK_DEADLOCK FALSE
