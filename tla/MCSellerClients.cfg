\* Two commands of one buyer, or a round of two harness buyers, on two handlers.
SPECIFICATION FairClientsSpec
CHECK_DEADLOCK FALSE
CONSTANTS
    Commands = {c1, c2}
    HarnessBuyers = {buyer1, buyer2}
    Job <- MCJob
    MaxFaults = 2
    OrderKeys = {k1, k2}
    Buyers = {b1, b2}
    Services = {s1}
    Amounts = {5, 6}
    EventKeys = {e1, e2, e3, e4}
    Contents = {h1, h2}
    Batches <- MCBatches
    NoTrade = NoTrade
    NoContent = NoContent
    QuoteIds = {q1, q2, q3, q4, q5}
    Threads = {t1, t2}
    Budgets = {5, 6}
    Offers = {5}
    BasePrice = 6
    FirstPrice = 6
    FloorPrice = 5
    MaxRestarts = 1
    NoQuote = NoQuote
    NoPrice = NoPrice
    NoTask = NoTask
    NoClient = NoClient
    e1 = e1
    e2 = e2
    e3 = e3
    e4 = e4
    h1 = h1
    h2 = h2
    b1 = b1
    b2 = b2
    s1 = s1
    k1 = k1
    k2 = k2
    c1 = c1
    c2 = c2
    buyer1 = buyer1
    buyer2 = buyer2
INVARIANTS RetryIsNotRefused DoneMeansDelivered HarnessAssertionsHold
PROPERTIES EveryoneIsServed
