CONSTANTS
    Visits = {v1, v2}
    Kept = 3
    MaxAlerts = 2
    MaxFailures = 1

SPECIFICATION FeedSpec
CHECK_DEADLOCK FALSE

INVARIANTS NewestInFront
PROPERTIES ServedUnlessShifted Reconnects
