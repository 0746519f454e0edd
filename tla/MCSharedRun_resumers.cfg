\* Two invocations of one run, in one process or in two, started four times in all.
CONSTANTS
  k1 = k1
  k2 = k2
  i1 = i1
  i2 = i2
  r1 = r1
  r2 = r2
  c1 = c1
  c2 = c2
  p1 = p1
  p2 = p2
  NoCall = NoCall
  NoIntent = NoIntent
  NoReceipt = NoReceipt
  Keys <- TwoKeys
  Intents <- TwoIntents
  Receipts <- TwoReceipts
  Connections <- TwoConnections
  Processes <- TwoProcesses
  IntentOf <- Intended
  ReceiptOf <- Settled
  PurchasePlan <- TwoPurchases
  MaxStarts = 4
SPECIFICATION SharedSpec
INVARIANTS OneSendPerKey ValidMeansPaid
PROPERTIES OneLoopIsAtomic NeverPreparedAgain
