SPECIFICATION MCSpec
CONSTANTS
  Ray = 200
  Bps = 100
  MaxI128 = 100000
  MsPerYear = 1
  MaxIndex = 2000
  SupplyIndexFloor = 5
  MaxBorrowRate = 400
  MaxFlashFee = 5
  WadUnit = 2
  BorrowableUnit = 20
  LiquidationBuffer = 4
  MinWholeUnits = 2
  ThresholdUpdateMinHf = 105
  BadDebtThreshold = 150
  alice = alice
  bob = bob
  liz = liz
  sp1 = sp1
  sp2 = sp2
  A = A
  B = B
  D = D
  W = W
  tokA = tokA
  tokB = tokB
  tokW = tokW
  hub1 = hub1
  hub2 = hub2
  HubOf <- Hubs
  HubAsset = {A, B, D, W}
  AssetOf <- TokenOf
  Params <- Models
  User = {alice, liz}
  Spoke = {sp1, sp2}
  Supplies = {}
  Borrows = {}
  Repayments = {}
  Withdrawals = {}
  Offers = {}
  Losses = {}
  Recapitalizations = {}
  Configs = {}
  FlagSets = {}
  LimitChoices = {}
  FloorChoices = {}
  CurveChoices = {}
  PriceSets = {}
  Multiplies = {}
  DebtSwaps = {}
  CollateralSwaps = {}
  CollateralRepays = {}
  FlashLoans = {}
  FlashPositions = {}
  Migrations = {}
  CallbackSends = {}
  PositionLimitMax = 3
  MaxTargetHf = 200
  MaxAccounts = 5
  MaxTime = 2
  MaxGifts = 1
CHECK_DEADLOCK FALSE
INVARIANTS
  BooksReconcile
  ExitsStayOpen
  HeldIsGifts
  NothingMovesUnderFlash
PROPERTIES
  OnlyMarketsMakeUnhealthy
  SolventAtEntryPrices
