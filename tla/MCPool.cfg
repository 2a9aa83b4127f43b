SPECIFICATION MCSpec
CONSTANTS
  Ray = 100
  Bps = 10000
  MaxI128 = 100000
  Headroom = 410
  MsPerYear = 2
  MaxIndex = 400
  SupplyIndexFloor = 5
  MaxBorrowRate = 200
  MaxFlashFee = 500
  WadUnit = 1
  BorrowableUnit = 20
  LiquidationBuffer = 200
  a1 = a1
  a2 = a2
  a3 = a3
  h1 = h1
  h2 = h2
  xlm = xlm
  Account = {a1, a2, a3}
  HubAsset = {h1, h2}
  Asset = {xlm}
  AssetOf <- OneToken
  ParamSets <- MCTwoModels
  Amount = {10, 25}
  Fee = {2}
  Shares = {33}
  Donation = {}
  TokenSupply = 35
  MaxTime = 5
SYMMETRY Accounts
INVARIANTS
  BooksReconcile
  CashIsCustody
  ExitsStayOpen
  SyncAsForeseen
PROPERTIES
  NoStrandedDebt
  BackingKept
  FlashIsNeutral
