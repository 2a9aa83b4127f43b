SPECIFICATION MCSpec
CONSTANTS
  Markets <- TwoHubs
  Spoke = {}
  ChunkSize = 1
  HasFallback = FALSE
  Listings = {}
  Statuses = {}
  Sources <- AnyOracle
  Amounts = {}
  Ttl = 1
  MaxAge = 1
  MaxLag = 1
  MaxChanges = 1
  MaxFaults = 1
PROPERTIES
  OnlyDelistedVanish
  Converges
