SPECIFICATION Spec
CONSTANTS
  Sources <- SourcesMC
  Imported <- ImportedMC
  Catalogue = {"10016"}
  VendorArticles = {"CBT"}
  Close <- CloseMC
  Numeric = {"5156", "10005"}
  VendorCodes = {"CBT", "SESSION-FAILED"}
  c1 = c1
  c2 = c2
  Sessions = {c1, c2}
  Faults = TRUE
  MaxEntries = 2
  MaxVotes = 2
CHECK_DEADLOCK FALSE
SYMMETRY Symmetry
INVARIANTS FamilyIsolation TravelsOnlyPraised OnlyOverlapsDuplicate
