CONSTANTS
  K1 = {d1, d2, d3}
  K2 = {n1, n2, n3}
  V = {h1, h2}
  Addr = {a1, a2, a3}
  Null = Null
  Free = Free
SPECIFICATION Spec
INVARIANTS NoDangling NoLeak
PROPERTY ImplementsDict
