CONSTANTS
  s1 = s1  s2 = s2
  c1 = c1  c2 = c2
  Session = {s1, s2}
  Ctx = {c1, c2}
  Key = {k0, k1}
  Reserved = {k0}
  Name = {n1, n2}
  None = None
SPECIFICATION Spec
SYMMETRY Symmetry
CHECK_DEADLOCK FALSE
INVARIANT
  BoundIsLive
