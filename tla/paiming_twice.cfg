CONSTANTS
  k1 = k1  k2 = k2  f1 = f1
  Key = {k1, k2}
  NoKey = NoKey
  PaiMingCount = 4
  TiaoZhanMingCiNum = 2
  Fight = {f1, f2}
  Player <- AllFightsOfOne
SPECIFICATION Spec
INVARIANT CellKnowsPlace
