SPECIFICATION Spec
CONSTANTS
    MaxBlock = 2
    LogBlocks = {0, 2}
    Generations = {g1, g2, g3}
    WsProviders = {p, q}
    HttpProviders = {q}
    Lookback = 2
    AuditBlocks = 1
    EpochBlocks = 2
    Retention = 1
    None = none
SYMMETRY GenerationSymmetry
INVARIANTS TypeOK LiveIsOfThisSession ReadyIsIndependent CoverageIsAttested EpochsTile
PROPERTIES RetractsForEvidence
