CONSTANTS
    Photos = {p1}
    Labels = {unit}
    Label <- McLabel
    Drives = {"d1"}
    Best <- McBest
    None = None
    MaxStays = 2
    MaxPlugs = 1
    MaxFaults = 1
    MaxEvents = 1

SPECIFICATION Spec
CHECK_DEADLOCK FALSE

INVARIANTS OutcomesSound NoPhotoLostFromSight
PROPERTIES QueueMoves
