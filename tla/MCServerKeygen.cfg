CONSTANTS
  r1 = r1
  r2 = r2
  r3 = r3
  Run <- MCRun
  Earlier = Earlier
  Absent = Absent
SPECIFICATION Spec
INVARIANTS
  SuccessIsAPair
  FailureLeavesNoKey
  PairsMatch
PROPERTIES
  OthersFilesStay
