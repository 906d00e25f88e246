CONSTANTS
  n1 = n1
  n2 = n2
  Names = {n1, n2}
  None = None
  MaxEdits = 0
SPECIFICATION Spec
INVARIANTS LockdownResolves
