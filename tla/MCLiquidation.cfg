CONSTANTS
  Ray = 2000
  Bps = 100
  MaxI128 = 2000000000
  MsPerYear = 1
  MaxIndex = 20000
  SupplyIndexFloor = 1
  MaxBorrowRate = 100
  MaxFlashFee = 5
  WadUnit = 2
  BorrowableUnit = 200
  MinWholeUnits = 2
  ThresholdUpdateMinHf = 1050
  BadDebtThreshold = 1500
  A = A
  B = B
  W = W
  Assets = {A, B, W}
  Unit <- UnitOf
  StartAccounts = {}
  PriceSets = {}
  BorrowIndexes = {}
  SupplyIndex <- SupplyIndexOf
  Curve <- DefaultCurve
  Offers = {}
  Losses = {}
  MaxRounds = 0
SPECIFICATION MCSpec
CHECK_DEADLOCK FALSE
PROPERTIES
  HealthNotWorsened
  PayoutIsPaidFor
