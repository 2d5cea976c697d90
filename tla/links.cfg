CONSTANTS
  a = a  b = b  c1 = c1  c2 = c2  n1 = n1  l1 = l1  l2 = l2
  Server = {a, b}
  Center = Center
  Call = {c1, c2}
  From <- AllFromA
  To <- OneLocal
  MaxConn <- TwoOfA
  MaxRestart <- OneOfA
  None = None
SPECIFICATION LinksSpec
CHECK_DEADLOCK FALSE
INVARIANTS
  LinksTypeOK
  OwnAnswer
  MapInStep
  NamesInStep
  LookupInStep
PROPERTIES
  ServesCalls
  CallsEnd
  LookupsEnd
