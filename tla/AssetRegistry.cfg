SPECIFICATION Spec
CONSTANTS
    Assets = {a1, a2}
    Hosts = {h1}
    Prints = {p1, p2}
    Requests = {r1, r2}
    None = None
    ReportScores <- BothSides
    Targets <- SampleTargets
    MaxCommits = 3
SYMMETRY Symmetric
INVARIANTS TypeOK FingerprintIdentifies JournalExplainsRow RecordedTransitionsLegal CacheHoldsCommitted
PROPERTIES RefinesLedger OnlyOverlapsDiverge
