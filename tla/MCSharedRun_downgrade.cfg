\* Two processes resume one run: a SETTLED row is downgraded.
CONSTANTS
  k1 = k1
  k2 = k2
  i1 = i1
  i2 = i2
  r1 = r1
  r2 = r2
  c1 = c1
  c2 = c2
  p1 = p1
  p2 = p2
  NoCall = NoCall
  NoIntent = NoIntent
  NoReceipt = NoReceipt
  Keys <- TwoKeys
  Intents <- TwoIntents
  Receipts <- TwoReceipts
  Connections <- TwoConnections
  Processes <- TwoProcesses
  IntentOf <- Intended
  ReceiptOf <- Settled
  PurchasePlan <- OnePurchase
  MaxStarts = 2
SPECIFICATION SharedSpec
PROPERTIES SettledIsNotDowngraded
