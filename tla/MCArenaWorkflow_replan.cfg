\* A crash loses the plan's checkpoint after a purchase was paid; the resumed run
\* discovers the listings in another order.
CONSTANTS
  Services <- TwoServices
  Sellers <- TwoSellers
  Amounts <- TwoAmounts
  MaxPlan = 2
  Discoveries <- TwoRankings
  Modes <- OnlyMarket
  Carried <- NoneCarried
  OtherTrades = {t0}
  t0 = t0
  MinimumSpend = 80
  MinimumProducts = 2
  BuiltinErrors = TRUE
  ArenaFaults <- NoFaults
  MaxLag = 3
  MaxStops = 1
  MaxReruns = 0
  MaxLosses = 0
  NoIntent = NoIntent
  NoReceipt = NoReceipt
  NoKey = NoKey
SPECIFICATION Spec
INVARIANTS NoDoublePay
