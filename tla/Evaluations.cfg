CONSTANTS
    Names = {Admin, ann}
    Admin = Admin
    Demo = Demo
    None = None
    Static = Static
    Junk = Junk
    Clients = {c1}
    MaxTokens = 1
    Sessions = {s1}
    Evals = {e1, e2}
    Forms = {f1}
    Requests = {r1, r2}
    MaxFaults = 1

SPECIFICATION Spec
SYMMETRY Symmetric
CHECK_DEADLOCK FALSE

INVARIANTS EveryRowAccountedFor EvaluationsHaveSession AdminsOnly
