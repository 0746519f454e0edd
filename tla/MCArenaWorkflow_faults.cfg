\* Two purchases, one of which may cost more when listed again, and an Arena with every
\* fault; the process may die twice and the run may be started over once, with its own
\* progress, an empty one or one that has bought before.  The floors are below the
\* plan's total, so they cannot hide an unsettled purchase.
CONSTANTS
  Services <- TwoServices
  Sellers <- TwoSellers
  Amounts <- TwoAmounts
  MaxPlan = 2
  Discoveries <- MovingPrice
  Modes <- OnlyMarket
  Carried <- EmptyOrBought
  OtherTrades = {t0}
  t0 = t0
  MinimumSpend = 40
  MinimumProducts = 1
  BuiltinErrors = TRUE
  ArenaFaults <- AllFaults
  MaxLag = 2
  MaxStops = 2
  MaxReruns = 1
  MaxLosses = 0
  NoIntent = NoIntent
  NoReceipt = NoReceipt
  NoKey = NoKey
SPECIFICATION Spec
INVARIANTS TypeOK AtMostOneSend PendingIsJournalled VerdictBeforeAdvance ValidReportSettlesPlan ProgressIsExact RecordedIsPaid FailedMeansUncharged ValidReportAccountsForAll NoDoublePay
PROPERTIES SettledIsFinal CheckpointNeverForgets ImplementsContract
