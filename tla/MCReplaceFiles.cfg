SPECIFICATION Spec
CONSTANTS
  File = {f1, f2, f3}
  Content = {c1, c2}
  Torn = Torn
  NoTemp = NoTemp
  NoFile = NoFile
  MaxEdits = 2
  MayCrash = TRUE
SYMMETRY Symmetry
INVARIANTS
  FailureLeavesCheckout
  SuccessInstallsAll
  OnlyRollbackTears
  CrashLeavesMixture
PROPERTIES
  OverwritesOnlyComparedBytes
CHECK_DEADLOCK FALSE
