CONSTANTS
  k1 = k1  k2 = k2  f1 = f1
  Key = {k1, k2, k3, k4}
  NoKey = NoKey
  PaiMingCount = 4
  TiaoZhanMingCiNum = 2
  Fight = {f1, f2}
  Player <- OneFightEach
  KeyID = {k1, k2}
  Asker = {1, 2, 3, 4}
  Of <- FourAskers
  Wants <- TwoOfOne
  MaxMade = 4
SPECIFICATION RankingSpec
INVARIANTS
  TypeOK
  Consistent
  IInv
  LongOffers
  OwnRecord
PROPERTIES
  OnlyWinnerOvertakes
  ImplementsLadder
