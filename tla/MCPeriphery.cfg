SPECIFICATION MCSpec
CONSTANTS
  alice = alice
  bob = bob
  keeper = keeper
  vault = vault
  Owners <- MCOwners
  Managers <- MCManagers
  Spokes = {1}
  MaxDelegates = 1
  MaxAccounts = 3
  Ray = 100
  Bps = 10000
  MaxI128 = 100000
  MsPerYear = 2
  MaxIndex = 400
  SupplyIndexFloor = 5
  MaxBorrowRate = 200
  MaxFlashFee = 500
  WadUnit = 1
  BorrowableUnit = 20
  LiquidationBuffer = 200
  Vault = {v, w}
  Others = 40
  Lent = 15
  Amounts = {3, 8}
  Losses = {1}
  Gifts = {1}
  MaxId = 3
  MaxNow = 2
  MaxCalls = 4
  MaxOps = 2
  MaxWeights = 1
  MaxAssets = 4
  MaxAmounts = 3
  PpmDenominator = 4
SYMMETRY Vaults
CHECK_DEADLOCK FALSE
INVARIANTS
  NftIsAccount
  AuthorityIsConsent
  ClaimsStayReachable
  FeesAreBacked
PROPERTIES
  SurplusUntouched
