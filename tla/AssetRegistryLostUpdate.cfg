SPECIFICATION Spec
CONSTANTS
    Assets = {a1}
    Hosts = {h1}
    Prints = {p1}
    Requests = {r1, r2}
    None = None
    ReportScores <- BothSides
    Targets <- AllTargets
    MaxCommits = 4
SYMMETRY Symmetric
INVARIANTS TransitionsFollowMatrix
