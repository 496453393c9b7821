CONSTANTS
    Unread = Unread
    Machines <- McMachines
    Covers <- McCovers
    Volumes <- McVolumes
    Sources = {"main.py"}
    MaxVersion = 2
    MaxMinute = 2

SPECIFICATION Spec
CHECK_DEADLOCK FALSE

INVARIANTS VerdictsFounded
PROPERTIES VerifiedMeansWhole VerdictIsOnRecord
