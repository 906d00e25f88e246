CONSTANTS
  n1 = n1
  n2 = n2
  Names = {n1, n2}
  None = None
  MaxEdits = 1
SYMMETRY NameSymmetry
SPECIFICATION Spec
INVARIANTS InstalledComplete
PROPERTIES ReportTrue RetryPossible UpgradeResumes
