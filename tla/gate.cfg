CONSTANTS
  s1 = s1  s2 = s2  s3 = s3
  c1 = c1  c2 = c2  c3 = c3
  Session = {s1, s2, s3}
  Ctx = {c1, c2, c3}
  Key = {k0, k1, k2}
  Reserved = {k0}
  Name = {n1, n2}
  None = None
SPECIFICATION Spec
SYMMETRY Symmetry
CHECK_DEADLOCK FALSE
INVARIANTS
  TypeOK
  CtxInStep
  AnsweredOnce
  Reachable
  IInv
