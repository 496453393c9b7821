SPECIFICATION Spec
CONSTANTS
    Prints = {p1, p2}
    Sources = {s1}
    Kinds <- AllKinds
    None = None
    BatchSize = 2
    Threshold = 1
    MaxStream = 1
    MaxMessages = 2
    MaxFaults = 1
INVARIANTS NoSilentLoss CopiesBounded StoredInOrder QuarantineAnnounced
PROPERTIES QuarantineHasEvidence Drains
