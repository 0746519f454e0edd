\* A run in any mode, started over in any mode, two sellers to try and to buy from, two
\* lost exchanges and a progress that may be carried in; it completes once the process
\* stops dying.
CONSTANTS
  Services <- TwoServices
  Sellers <- TwoSellers
  Amounts <- TwoAmounts
  MaxPlan = 2
  Discoveries <- FullDiscoveries
  Modes <- EveryMode
  Carried <- JustTried
  OtherTrades = {t0}
  t0 = t0
  MinimumSpend = 80
  MinimumProducts = 2
  BuiltinErrors = TRUE
  ArenaFaults <- NoFaults
  MaxLag = 1
  MaxStops = 1
  MaxReruns = 1
  MaxLosses = 2
  NoIntent = NoIntent
  NoReceipt = NoReceipt
  NoKey = NoKey
SPECIFICATION FairSpec
INVARIANTS OneLossIsRetried ValidCritiqueIsPublished
PROPERTIES RunCompletes
