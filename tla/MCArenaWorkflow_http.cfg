\* HttpArenaClient: a timeout after the Arena was paid is recorded as FAILED.
CONSTANTS
  Services <- TwoServices
  Sellers <- TwoSellers
  Amounts <- TwoAmounts
  MaxPlan = 2
  Discoveries <- TwoPurchases
  Modes <- OnlyMarket
  Carried <- NoneCarried
  OtherTrades = {t0}
  t0 = t0
  MinimumSpend = 80
  MinimumProducts = 2
  BuiltinErrors = FALSE
  ArenaFaults <- NoFaults
  MaxLag = 0
  MaxStops = 0
  MaxReruns = 0
  MaxLosses = 0
  NoIntent = NoIntent
  NoReceipt = NoReceipt
  NoKey = NoKey
SPECIFICATION Spec
PROPERTIES ChargedIsNotRecordedFailed
