SPECIFICATION Spec
CHECK_DEADLOCK FALSE
CONSTANTS
    OrderKeys = {k1, k2}
    Buyers = {b1}
    Services = {s1}
    Amounts = {5, 6}
    EventKeys = {e1, e2}
    Contents = {h1, h2}
    Batches <- MCBatches
    NoTrade = NoTrade
    NoContent = NoContent
    QuoteIds = {q1}
    Threads = {t1, t2}
    Budgets = {4, 5, 6}
    Offers = {4, 5, 6}
    BasePrice = 6
    FirstPrice = 6
    FloorPrice = 5
    MaxRestarts = 1
    NoQuote = NoQuote
    NoPrice = NoPrice
    NoTask = NoTask
    e1 = e1
    e2 = e2
    h1 = h1
    h2 = h2
INVARIANTS SellerTypeOK AcceptedOrdersDeliverable
PROPERTIES OrderIsFinal AgreementIsBinding AmountFromQuote
