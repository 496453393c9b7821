SPECIFICATION Spec
CONSTANTS
  a1 = a1
  a2 = a2
  r1 = r1
  r2 = r2
  logon = logon
  crash = crash
  note = note
  bad = bad
  Assets = {a1, a2}
  Events <- EventsMC
  Unusable = bad
  KeyOf <- KeyOfMC
  Priority <- PriorityMC
  Reports <- ReportsMC
  Imports = {r1, r2}
  AnalyzeMax = 2
  MaxImports = 2

CHECK_DEADLOCK FALSE
INVARIANT ImportAccounted
PROPERTIES KeepsEvidence
