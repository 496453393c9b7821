SPECIFICATION Spec
CONSTANTS
    Records = {r1, r2, r3}
    Serials = {s1, s2}
    None = None
    PassSize = 2
    MaxFaults = 1
INVARIANTS ImagesKept CompletedMeansLinked StrandedOnlyByBreakingOff
PROPERTIES VerdictsStand PickedUp
