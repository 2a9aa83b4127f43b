SPECIFICATION MCSpec
CONSTANTS
  o = o
  x = x
  y = y
  Address = {o, x, y}
  Admin = o
  InitialDelay = 2
  MinDelay = 2
  MaxDelay = 4
  SensitiveDelay = 2
  RecoveryDelay = 3
  Grace = 3
  Flag = {"paused", "frozen"}
  AdminOps <- AnyOp
  ResetSets = {{x}, {o, y}}
  Salt = {1}
  MaxLedger = 7
  MaxEpoch = 4
PROPERTIES
  DecreaseWaitsCurrentDelay
