CONSTANTS
  p1 = p1
  p2 = p2
  p3 = p3
  s1 = s1
  s2 = s2
  s3 = s3
  a1 = a1
  a2 = a2
  t1 = t1
  Names = {s1, s2, s3}
  OddNames = {s3}
  Addrs = {a1, a2}
  PortZero = PortZero
  Tokens = {t1}
  Empty = Empty
  None = None
  DefaultBind = a1
  DefaultRemote = a2
  Refused = Refused
  Procs = {p1, p2, p3}
  Absent = Absent
  Partial = Partial
  Commands <- MCCommands
  Files <- MCFiles
SYMMETRY ProcSymmetry
SPECIFICATION Spec
INVARIANT RuntimeComplete
PROPERTIES ImplementsStore EditExact RoleKept
CHECK_DEADLOCK FALSE
