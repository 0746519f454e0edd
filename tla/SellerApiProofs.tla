-------------------------- MODULE SellerApiProofs --------------------------
(***************************************************************************)
(* Theorems about the seller's service, for any number of orders, quotes,  *)
(* threads, events and prices.                                             *)
(***************************************************************************)
EXTENDS SellerApi, TLAPS

\* Every event of the list is on record with its own content.
Registered(events) == \A e \in events : identities[e.key] = e.content

\* The events of an order are on record before the order is, and stay there.
OrdersRegistered ==
    \A k \in OrderKeys : trades[k] # NoTrade => Registered(Range(trades[k].events))

\* The same for a handler between validate_events and its next transaction.
TasksRegistered ==
    \A t \in Threads : task[t] # NoTask /\ task[t].validated
                       => Registered(Range(task[t].trade.events))

\* A delivery in progress is of an order on record.
DeliveriesKnown ==
    \A t \in Threads : task[t] # NoTask /\ task[t].kind = "deliver"
                       => trades[task[t].key] # NoTrade

\* An order in progress still carries a price of its quote.
PricedBy(q, trade) ==
    /\ quotes[q] # NoQuote
    /\ quotes[q].buyer = trade.buyer
    /\ quotes[q].service = trade.service
    /\ trade.amount \in {quotes[q].ask, agreed[q]}

OrdersPriced ==
    \A t \in Threads : task[t] # NoTask /\ task[t].kind = "order"
                       => PricedBy(task[t].quote, task[t].trade)

\* Quotes are made by this policy.
ListPrices == (FloorPrice .. BasePrice) \cup (FloorPrice .. FirstPrice)

QuotesWithinPolicy ==
    \A q \in QuoteIds : quotes[q] # NoQuote
                         => quotes[q].reservation = FloorPrice /\ quotes[q].ask \in ListPrices

\* The inductive invariant of the service.
SellerInvariant ==
    /\ SellerTypeOK
    /\ QuotesWithinPolicy
    /\ OrdersRegistered
    /\ TasksRegistered
    /\ DeliveriesKnown
    /\ OrdersPriced
    /\ NegotiationConsistent

-----------------------------------------------------------------------------
(* The ledger.                                                               *)

\* The events of a batch are events.
LEMMA EventsOfBatch ==
    ASSUME NEW batch \in Batches
    PROVE  Range(batch) \in SUBSET Event
<1>1. batch \in Seq(Event)
  BY LedgerAssumption
<1> QED BY <1>1 DEF Range

\* Events on record conflict with nothing: validate_events accepts them again.
LEMMA RegisteredNeverConflict ==
    ASSUME NEW batch, Registered(batch), LedgerTypeOK
    PROVE  ConflictsOf(batch) = {}
<1>1. SUFFICES ASSUME NEW c \in ConflictsOf(batch) PROVE FALSE
  OBVIOUS
<1>2. /\ c \in EventKeys \X Contents \X Contents
      /\ [key |-> c[1], content |-> c[3]] \in batch
      /\ c[2] \in Previous(c[1], batch) \ {c[3]}
  BY DEF ConflictsOf
<1>3. identities[c[1]] = c[3]
  BY <1>2 DEF Registered
<1>4. c[3] \in Contents /\ c[3] # NoContent
  BY <1>2, LedgerAssumption
<1>5. Previous(c[1], batch) = {c[3]}
  BY <1>3, <1>4 DEF Previous
<1> QED BY <1>2, <1>5

\* validate_events puts the whole batch on record and rewrites no identity.
LEMMA RegisterKeepsIdentities ==
    ASSUME NEW batch \in SUBSET Event, LedgerTypeOK, Register(batch)
    PROVE  /\ LedgerTypeOK'
           /\ Registered(batch)'
           /\ \A events \in SUBSET Event : Registered(events) => Registered(events)'
<1> DEFINE New(key) == (CHOOSE e \in batch : e.key = key).content
           Kept(key) == \/ [key |-> key, content |-> identities[key]] \in batch
                        \/ ~\E e \in batch : e.key = key
<1>1. identities' = [key \in EventKeys |-> IF Kept(key) THEN identities[key] ELSE New(key)]
  BY DEF Register
<1>2. \A e \in Event : e.key \in EventKeys /\ e.content \in Contents
                       /\ e = [key |-> e.key, content |-> e.content]
  BY DEF Event
<1>3. ASSUME NEW key \in EventKeys, ~Kept(key)
      PROVE  /\ New(key) \in Contents
             /\ [key |-> key, content |-> New(key)] \in batch
  <2>1. PICK d \in batch : d.key = key
    BY <1>3
  <2>2. DEFINE m == CHOOSE e \in batch : e.key = key
  <2>3. m \in batch /\ m.key = key
    BY <2>1
  <2> QED BY <2>3, <1>2
<1>4. identities \in [EventKeys -> Contents \cup {NoContent}]
  BY DEF LedgerTypeOK
<1>5. identities' \in [EventKeys -> Contents \cup {NoContent}]
  BY <1>1, <1>3, <1>4
<1>6. ASSUME NEW e \in batch
      PROVE  identities[e.key] \in {NoContent, e.content}
  <2>1. SUFFICES ASSUME identities[e.key] # NoContent, identities[e.key] # e.content
                 PROVE  FALSE
    OBVIOUS
  <2>2. identities[e.key] \in Contents
    BY <2>1, <1>2, <1>4
  <2>3. <<e.key, identities[e.key], e.content>> \in EventKeys \X Contents \X Contents
    BY <2>2, <1>2
  <2>4. identities[e.key] \in Previous(e.key, batch) \ {e.content}
    BY <2>1 DEF Previous
  <2>5. <<e.key, identities[e.key], e.content>> \in ConflictsOf(batch)
    BY <2>3, <2>4, <1>2 DEF ConflictsOf
  <2> QED BY <2>5 DEF Register
<1>7. ASSUME NEW e \in batch, NEW d \in batch, e.key = d.key,
             identities[e.key] = NoContent
      PROVE  e.content = d.content
  <2>1. SUFFICES ASSUME e.content # d.content PROVE FALSE
    OBVIOUS
  <2>2. d.content \in Previous(e.key, batch) \ {e.content}
    BY <1>7, <2>1 DEF Previous
  <2>3. <<e.key, d.content, e.content>> \in EventKeys \X Contents \X Contents
    BY <1>2
  <2>4. <<e.key, d.content, e.content>> \in ConflictsOf(batch)
    BY <2>2, <2>3, <1>2 DEF ConflictsOf
  <2> QED BY <2>4 DEF Register
<1>8. ASSUME NEW e \in batch
      PROVE  identities'[e.key] = e.content
  <2>1. e.key \in EventKeys /\ e.content \in Contents
    BY <1>2
  <2>2. CASE Kept(e.key)
    <3>1. [key |-> e.key, content |-> identities[e.key]] \in batch
      BY <2>2
    <3>2. identities[e.key] \in Contents
      BY <3>1, <1>2
    <3>3. identities[e.key] = e.content
      BY <3>2, <1>6, LedgerAssumption
    <3> QED BY <3>3, <2>2, <2>1, <1>1
  <2>3. CASE ~Kept(e.key)
    <3>1. identities[e.key] # e.content
      BY <2>3, <1>2
    <3>2. identities[e.key] = NoContent
      BY <3>1, <1>6
    <3>3. [key |-> e.key, content |-> New(e.key)] \in batch
      BY <2>1, <2>3, <1>3
    <3>4. New(e.key) = e.content
      BY <3>2, <3>3, <1>7
    <3> QED BY <3>4, <2>3, <2>1, <1>1
  <2> QED BY <2>2, <2>3
<1>9. ASSUME NEW key \in EventKeys, identities[key] # NoContent
      PROVE  identities'[key] = identities[key]
  <2>1. CASE Kept(key)
    BY <2>1, <1>1
  <2>2. CASE ~Kept(key)
    <3>1. [key |-> key, content |-> New(key)] \in batch
      BY <2>2, <1>3
    <3>2. identities[key] = New(key)
      BY <3>1, <1>6, <1>9
    <3> QED BY <3>1, <3>2, <2>2
  <2> QED BY <2>1, <2>2
<1>10. Registered(batch)'
  BY <1>8 DEF Registered
<1>11. ASSUME NEW events \in SUBSET Event, Registered(events)
       PROVE  Registered(events)'
  <2>1. SUFFICES ASSUME NEW e \in events PROVE identities'[e.key] = e.content
    BY DEF Registered
  <2>2. identities[e.key] = e.content /\ e.key \in EventKeys /\ e.content \in Contents
    BY <1>11, <1>2 DEF Registered
  <2> QED BY <2>2, <1>9, LedgerAssumption
<1>12. LedgerTypeOK'
  BY <1>5 DEF LedgerTypeOK, Register
<1> QED BY <1>10, <1>11, <1>12

-----------------------------------------------------------------------------
(* Quotes.                                                                   *)

\* The initial state.
LEMMA SellerInit == Init => SellerInvariant
<1> SUFFICES ASSUME Init PROVE SellerInvariant
  OBVIOUS
<1>1. SellerTypeOK
  BY PricesAssumption DEF Init, LedgerInit, SellerTypeOK, LedgerTypeOK
<1>2. NegotiationConsistent
  BY DEF Init, NegotiationConsistent
<1> QED BY <1>1, <1>2 DEF Init, LedgerInit, SellerInvariant, OrdersRegistered,
           TasksRegistered, DeliveriesKnown, OrdersPriced, QuotesWithinPolicy

\* The ask price is one the ledger can hold, between the floor and the list price.
LEMMA AskPriceTyped ==
    ASSUME NEW buyer \in Buyers, NEW budget \in Budgets, budget >= FloorPrice
    PROVE  AskPrice(buyer, budget) \in ListPrices
<1>1. budget \in Nat /\ FloorPrice \in Nat /\ BasePrice \in Nat /\ FirstPrice \in Nat
      /\ FloorPrice =< BasePrice /\ FloorPrice =< FirstPrice
  BY PricesAssumption
<1> QED BY <1>1 DEF AskPrice, Least, Greatest, ListPrices

\* Parts of the invariant that depend on the ledger and the tasks alone.
LEMMA LedgerPartKept ==
    ASSUME SellerInvariant, UNCHANGED <<ledgerVars, task>>
    PROVE  LedgerTypeOK' /\ OrdersRegistered' /\ TasksRegistered' /\ DeliveriesKnown'
BY DEF SellerInvariant, SellerTypeOK, ledgerVars, LedgerTypeOK, OrdersRegistered,
       TasksRegistered, DeliveriesKnown, Registered

\* A quote that exists keeps its terms.
LEMMA CreateQuoteKeeps ==
    ASSUME SellerInvariant, NEW q \in QuoteIds, NEW buyer \in Buyers,
           NEW service \in Services, NEW budget \in Budgets,
           CreateQuote(q, buyer, service, budget)
    PROVE  SellerInvariant'
<1> DEFINE new == [buyer |-> buyer, service |-> service, ask |-> AskPrice(buyer, budget),
                   reservation |-> FloorPrice, live |-> TRUE]
<1>1. LedgerTypeOK' /\ OrdersRegistered' /\ TasksRegistered' /\ DeliveriesKnown'
  BY LedgerPartKept DEF CreateQuote
<1>2. AskPrice(buyer, budget) \in Amounts /\ FloorPrice \in Amounts
  <2>1. FloorPrice \in FloorPrice .. BasePrice
    BY PricesAssumption
  <2> QED BY <2>1, AskPriceTyped, PricesAssumption DEF CreateQuote, ListPrices
<1>3. new \in Quote
  BY <1>2 DEF Quote
<1>4. /\ quotes[q] = NoQuote
      /\ quotes' = [quotes EXCEPT ![q] = new]
      /\ UNCHANGED <<agreed, low, closed, task, restarts>>
  BY DEF CreateQuote
<1>5. SellerTypeOK'
  BY <1>1, <1>3, <1>4 DEF SellerInvariant, SellerTypeOK
<1>6. \A p \in QuoteIds : quotes[p] # NoQuote => quotes'[p] = quotes[p]
  BY <1>4 DEF SellerInvariant, SellerTypeOK
<1>7. OrdersPriced'
  <2>1. SUFFICES ASSUME NEW t \in Threads, task[t] # NoTask, task[t].kind = "order"
                 PROVE  PricedBy(task[t].quote, task[t].trade)'
    BY <1>4 DEF OrdersPriced
  <2>2. PricedBy(task[t].quote, task[t].trade)
    BY <2>1 DEF SellerInvariant, OrdersPriced
  <2>3. task[t].quote \in QuoteIds
    BY <2>1 DEF SellerInvariant, SellerTypeOK, OrderTask, DeliverTask
  <2> QED BY <2>2, <2>3, <1>4, <1>6 DEF PricedBy
<1>8. NegotiationConsistent'
  BY <1>4, <1>6 DEF SellerInvariant, NegotiationConsistent
<1>9. QuotesWithinPolicy'
  <2>1. AskPrice(buyer, budget) \in ListPrices
    BY AskPriceTyped DEF CreateQuote
  <2> QED BY <2>1, <1>4 DEF SellerInvariant, SellerTypeOK, QuotesWithinPolicy
<1> QED BY <1>1, <1>5, <1>7, <1>8, <1>9 DEF SellerInvariant

\* Expiry touches nothing but the clock's verdict.
LEMMA ExpireKeeps ==
    ASSUME SellerInvariant, NEW q \in QuoteIds, Expire(q)
    PROVE  SellerInvariant'
<1>1. LedgerTypeOK' /\ OrdersRegistered' /\ TasksRegistered' /\ DeliveriesKnown'
  BY LedgerPartKept DEF Expire
<1>2. /\ quotes[q] \in Quote
      /\ quotes' = [quotes EXCEPT ![q] = [quotes[q] EXCEPT !.live = FALSE]]
      /\ UNCHANGED <<agreed, low, closed, task, restarts>>
  BY DEF Expire, IsLive, SellerInvariant, SellerTypeOK
<1>3. [quotes[q] EXCEPT !.live = FALSE] \in Quote
  BY <1>2 DEF Quote
<1>4. SellerTypeOK'
  BY <1>1, <1>2, <1>3 DEF SellerInvariant, SellerTypeOK
<1>5. \A p \in QuoteIds : quotes[p] # NoQuote =>
        /\ quotes'[p] # NoQuote
        /\ quotes'[p].buyer = quotes[p].buyer /\ quotes'[p].service = quotes[p].service
        /\ quotes'[p].ask = quotes[p].ask /\ quotes'[p].reservation = quotes[p].reservation
  <2> SUFFICES ASSUME NEW p \in QuoteIds, quotes[p] # NoQuote
               PROVE  /\ quotes'[p] # NoQuote
                      /\ quotes'[p].buyer = quotes[p].buyer
                      /\ quotes'[p].service = quotes[p].service
                      /\ quotes'[p].ask = quotes[p].ask
                      /\ quotes'[p].reservation = quotes[p].reservation
    OBVIOUS
  <2>1. quotes[p] \in Quote
    BY DEF SellerInvariant, SellerTypeOK
  <2>2. CASE p = q
    BY <2>2, <1>2, <1>3, NoValueAssumption DEF Quote, SellerInvariant, SellerTypeOK
  <2>3. CASE p # q
    BY <2>3, <1>2 DEF SellerInvariant, SellerTypeOK
  <2> QED BY <2>2, <2>3
<1>6. OrdersPriced'
  <2>1. SUFFICES ASSUME NEW t \in Threads, task[t] # NoTask, task[t].kind = "order"
                 PROVE  PricedBy(task[t].quote, task[t].trade)'
    BY <1>2 DEF OrdersPriced
  <2>2. PricedBy(task[t].quote, task[t].trade)
    BY <2>1 DEF SellerInvariant, OrdersPriced
  <2>3. task[t].quote \in QuoteIds
    BY <2>1 DEF SellerInvariant, SellerTypeOK, OrderTask, DeliverTask
  <2> QED BY <2>2, <2>3, <1>2, <1>5 DEF PricedBy
<1>7. NegotiationConsistent'
  BY <1>2, <1>5 DEF SellerInvariant, NegotiationConsistent
<1>8. QuotesWithinPolicy'
  <2>1. \A p \in QuoteIds : quotes'[p] # NoQuote => quotes[p] # NoQuote
    BY <1>2, NoValueAssumption DEF SellerInvariant, SellerTypeOK
  <2> QED BY <2>1, <1>5 DEF SellerInvariant, QuotesWithinPolicy
<1> QED BY <1>1, <1>4, <1>6, <1>7, <1>8 DEF SellerInvariant

\* An offer settles or closes only the negotiation that is still open.
LEMMA NegotiateKeeps ==
    ASSUME SellerInvariant, NEW q \in QuoteIds, NEW offer \in Offers, Negotiate(q, offer)
    PROVE  SellerInvariant'
<1>1. LedgerTypeOK' /\ OrdersRegistered' /\ TasksRegistered' /\ DeliveriesKnown'
  BY LedgerPartKept DEF Negotiate
<1>2. /\ quotes[q] \in Quote /\ quotes[q] # NoQuote
      /\ q \notin closed /\ agreed[q] = NoPrice
      /\ UNCHANGED <<quotes, task, restarts>>
      /\ low[q] \in 0 .. 1
  BY DEF Negotiate, IsLive, SellerInvariant, SellerTypeOK, NegotiationConsistent
<1>3. /\ quotes[q].reservation = FloorPrice /\ FloorPrice \in Nat /\ offer \in Nat
      /\ quotes[q].ask \in Nat /\ quotes[q].ask >= FloorPrice
      /\ FloorPrice .. quotes[q].ask \subseteq Amounts
  <2>1. quotes[q].reservation = FloorPrice /\ quotes[q].ask \in ListPrices
    BY <1>2 DEF SellerInvariant, QuotesWithinPolicy
  <2> QED BY <2>1, PricesAssumption DEF ListPrices
<1>4. QuotesWithinPolicy'
  BY <1>2 DEF SellerInvariant, QuotesWithinPolicy
<1>5. OrdersPriced'
  <2>1. SUFFICES ASSUME NEW t \in Threads, task[t] # NoTask, task[t].kind = "order"
                 PROVE  PricedBy(task[t].quote, task[t].trade)'
    BY <1>2 DEF OrdersPriced
  <2>2. PricedBy(task[t].quote, task[t].trade)
    BY <2>1 DEF SellerInvariant, OrdersPriced
  <2>3. task[t].quote \in QuoteIds /\ task[t].trade.amount \in Amounts
    BY <2>1 DEF SellerInvariant, SellerTypeOK, OrderTask, DeliverTask, Trade
  <2>4. agreed'[task[t].quote] = agreed[task[t].quote]
        \/ task[t].trade.amount = quotes[task[t].quote].ask
    BY <2>2, <2>3, <1>2, NoValueAssumption
       DEF PricedBy, Negotiate, AcceptOffer, DeclineOffer, SellerInvariant, SellerTypeOK
  <2> QED BY <2>2, <2>4, <1>2 DEF PricedBy
<1>6. SellerTypeOK' /\ NegotiationConsistent'
  <2>1. CASE AcceptOffer(q, offer)
    <3>1. Least(offer, quotes[q].ask) \in FloorPrice .. quotes[q].ask
      BY <2>1, <1>3 DEF AcceptOffer, Least
    <3>2. Least(offer, quotes[q].ask) \in Amounts
      BY <3>1, <1>3
    <3>3. SellerTypeOK'
      BY <1>1, <1>2, <2>1, <3>2 DEF AcceptOffer, SellerInvariant, SellerTypeOK
    <3>4. NegotiationConsistent'
      BY <1>2, <1>3, <2>1, <3>1
         DEF AcceptOffer, SellerInvariant, SellerTypeOK, NegotiationConsistent
    <3> QED BY <3>3, <3>4
  <2>2. CASE DeclineOffer(q, offer)
    <3>1. /\ low' = [low EXCEPT ![q] = low[q] + 1]
          /\ closed' = IF low[q] >= 1 THEN closed \cup {q} ELSE closed
          /\ agreed' = agreed
      BY <2>2 DEF DeclineOffer
    <3>2. SellerTypeOK'
      BY <1>1, <1>2, <3>1 DEF SellerInvariant, SellerTypeOK
    <3>3. NegotiationConsistent'
      BY <1>2, <3>1 DEF SellerInvariant, SellerTypeOK, NegotiationConsistent
    <3> QED BY <3>2, <3>3
  <2> QED BY <2>1, <2>2 DEF Negotiate
<1> QED BY <1>1, <1>4, <1>5, <1>6 DEF SellerInvariant

-----------------------------------------------------------------------------
(* Orders and deliveries.                                                    *)

\* Parts of the invariant that depend on the quotes alone.
LEMMA QuotePartKept ==
    ASSUME SellerInvariant, UNCHANGED sellerVars
    PROVE  QuotesWithinPolicy' /\ NegotiationConsistent'
BY DEF SellerInvariant, QuotesWithinPolicy, NegotiationConsistent, sellerVars

\* A task that validated its events is still a task, of the same order.
LEMMA ValidatedTask ==
    ASSUME NEW u \in OrderTask \cup DeliverTask
    PROVE  LET v == [u EXCEPT !.validated = TRUE]
           IN  /\ v \in OrderTask \cup DeliverTask
               /\ v.validated /\ v.kind = u.kind /\ v.key = u.key /\ v.trade = u.trade
               /\ u.kind = "order" => v.quote = u.quote
<1>1. CASE u \in OrderTask
  BY <1>1 DEF OrderTask
<1>2. CASE u \in DeliverTask
  BY <1>2 DEF DeliverTask
<1> QED BY <1>1, <1>2

\* An order that passes the checks carries a price of its quote.
LEMMA CheckOrderKeeps ==
    ASSUME SellerInvariant, NEW t \in Threads, NEW q \in QuoteIds, NEW amount \in Amounts,
           NEW key \in OrderKeys, NEW batch \in Batches, CheckOrder(t, q, amount, key, batch)
    PROVE  SellerInvariant'
<1> DEFINE trade == [buyer |-> quotes[q].buyer, service |-> quotes[q].service,
                     amount |-> amount, events |-> batch, status |-> "accepted"]
           new == [kind |-> "order", validated |-> FALSE, quote |-> q, key |-> key,
                   trade |-> trade]
<1>1. /\ quotes[q] \in Quote /\ quotes[q] # NoQuote
      /\ amount = ExpectedPrice(q)
      /\ task' = [task EXCEPT ![t] = new]
      /\ UNCHANGED <<ledgerVars, sellerVars, restarts>>
  BY DEF CheckOrder, PriceAccepted, IsLive, SellerInvariant, SellerTypeOK
<1>2. new \in OrderTask
  BY <1>1 DEF OrderTask, Trade, Quote
<1>3. QuotesWithinPolicy' /\ NegotiationConsistent'
  BY <1>1, QuotePartKept
<1>4. SellerTypeOK'
  BY <1>1, <1>2 DEF SellerInvariant, SellerTypeOK, LedgerTypeOK, ledgerVars, sellerVars
<1>5. OrdersRegistered' /\ TasksRegistered' /\ DeliveriesKnown'
  BY <1>1 DEF SellerInvariant, SellerTypeOK, OrdersRegistered, TasksRegistered,
              DeliveriesKnown, Registered, ledgerVars
<1>6. PricedBy(q, trade)
  BY <1>1 DEF PricedBy, ExpectedPrice
<1>7. OrdersPriced'
  BY <1>1, <1>6 DEF SellerInvariant, SellerTypeOK, OrdersPriced, PricedBy, sellerVars
<1> QED BY <1>3, <1>4, <1>5, <1>7 DEF SellerInvariant

\* validate_events: what was registered stays registered, the task's events join it.
LEMMA ValidateTaskKeeps ==
    ASSUME SellerInvariant, NEW t \in Threads, ValidateTask(t)
    PROVE  SellerInvariant'
<1> DEFINE u == task[t]
           v == [u EXCEPT !.validated = TRUE]
<1>1. /\ u \in OrderTask \cup DeliverTask /\ u # NoTask
      /\ Register(Range(u.trade.events))
      /\ task' = [task EXCEPT ![t] = v]
      /\ UNCHANGED <<sellerVars, restarts>>
      /\ trades' = trades
  BY DEF ValidateTask, Register, SellerInvariant, SellerTypeOK
<1>2. /\ v \in OrderTask \cup DeliverTask
      /\ v.validated /\ v.kind = u.kind /\ v.key = u.key /\ v.trade = u.trade
      /\ u.kind = "order" => v.quote = u.quote
  BY <1>1, ValidatedTask
<1>3. \A w \in OrderTask \cup DeliverTask : w.trade \in Trade
  BY DEF OrderTask, DeliverTask
<1>4. \A w \in Trade : Range(w.events) \in SUBSET Event
  BY EventsOfBatch DEF Trade
<1>5. /\ LedgerTypeOK' /\ Registered(Range(u.trade.events))'
      /\ \A events \in SUBSET Event : Registered(events) => Registered(events)'
  BY <1>1, <1>3, <1>4, RegisterKeepsIdentities DEF SellerInvariant, SellerTypeOK
<1>6. QuotesWithinPolicy' /\ NegotiationConsistent'
  BY <1>1, QuotePartKept
<1>7. SellerTypeOK'
  BY <1>1, <1>2, <1>5 DEF SellerInvariant, SellerTypeOK, sellerVars
<1>8. OrdersRegistered'
  <2>1. SUFFICES ASSUME NEW k \in OrderKeys, trades[k] # NoTrade
                 PROVE  Registered(Range(trades[k].events))'
    BY <1>1 DEF OrdersRegistered
  <2>2. trades[k] \in Trade /\ Registered(Range(trades[k].events))
    BY <2>1 DEF SellerInvariant, SellerTypeOK, LedgerTypeOK, OrdersRegistered
  <2>3. Registered(Range(trades[k].events)) => \A e \in Range(trades[k].events) : identities'[e.key] = e.content
    BY <2>2, <1>4, <1>5 DEF Registered
  <2> QED BY <2>2, <2>3, <1>1 DEF Registered
<1>9. TasksRegistered'
  <2>1. SUFFICES ASSUME NEW s \in Threads, task'[s] # NoTask, task'[s].validated
                 PROVE  \A e \in Range(task'[s].trade.events) : identities'[e.key] = e.content
    BY DEF TasksRegistered, Registered
  <2>2. CASE s = t
    BY <2>2, <1>1, <1>2, <1>5 DEF SellerInvariant, SellerTypeOK, Registered
  <2>3. CASE s # t
    <3>1. task'[s] = task[s]
      BY <2>3, <1>1 DEF SellerInvariant, SellerTypeOK
    <3>2. task[s] \in OrderTask \cup DeliverTask /\ Registered(Range(task[s].trade.events))
      BY <2>1, <3>1 DEF SellerInvariant, SellerTypeOK, TasksRegistered
    <3>3. Range(task[s].trade.events) \in SUBSET Event
      BY <3>2, <1>3, <1>4
    <3> QED BY <3>1, <3>2, <3>3, <1>5 DEF Registered
  <2> QED BY <2>2, <2>3
<1>10. DeliveriesKnown'
  BY <1>1, <1>2 DEF SellerInvariant, SellerTypeOK, DeliveriesKnown
<1>11. OrdersPriced'
  BY <1>1, <1>2 DEF SellerInvariant, SellerTypeOK, OrdersPriced, PricedBy, sellerVars
<1> QED BY <1>6, <1>7, <1>8, <1>9, <1>10, <1>11 DEF SellerInvariant

\* Parts of the invariant about tasks, when one task ends and the rest are left alone.
LEMMA EndedTask ==
    ASSUME SellerInvariant, NEW t \in Threads, task' = [task EXCEPT ![t] = NoTask],
           UNCHANGED <<sellerVars, identities>>,
           \A k \in OrderKeys : trades[k] # NoTrade => trades'[k] # NoTrade
    PROVE  TasksRegistered' /\ DeliveriesKnown' /\ OrdersPriced'
<1>1. \A s \in Threads : task'[s] # NoTask => task'[s] = task[s]
  BY DEF SellerInvariant, SellerTypeOK
<1>2. TasksRegistered'
  BY <1>1 DEF SellerInvariant, TasksRegistered, Registered
<1>3. \A s \in Threads : task[s] # NoTask => task[s].key \in OrderKeys
  BY DEF SellerInvariant, SellerTypeOK, OrderTask, DeliverTask
<1>4. DeliveriesKnown'
  BY <1>1, <1>3 DEF SellerInvariant, DeliveriesKnown
<1>5. OrdersPriced'
  BY <1>1 DEF SellerInvariant, OrdersPriced, PricedBy, sellerVars
<1> QED BY <1>2, <1>4, <1>5

\* A refusal leaves one audit entry and nothing else.
LEMMA RefuseTaskKeeps ==
    ASSUME SellerInvariant, NEW t \in Threads, RefuseTask(t)
    PROVE  SellerInvariant'
<1>1. /\ task' = [task EXCEPT ![t] = NoTask]
      /\ UNCHANGED <<sellerVars, restarts, trades, identities>>
  BY DEF RefuseTask, Refuse
<1>2. LedgerTypeOK'
  <2>1. PICK c \in ConflictsOf(Range(task[t].trade.events)) : conflicts' = conflicts \cup {c}
    BY DEF RefuseTask, Refuse
  <2>2. c \in EventKeys \X Contents \X Contents
    BY DEF ConflictsOf
  <2> QED BY <2>1, <2>2, <1>1 DEF SellerInvariant, SellerTypeOK, LedgerTypeOK
<1>3. TasksRegistered' /\ DeliveriesKnown' /\ OrdersPriced'
  BY <1>1, EndedTask
<1>4. QuotesWithinPolicy' /\ NegotiationConsistent'
  BY <1>1, QuotePartKept
<1>5. SellerTypeOK'
  BY <1>1, <1>2 DEF SellerInvariant, SellerTypeOK, sellerVars
<1>6. OrdersRegistered'
  BY <1>1 DEF SellerInvariant, OrdersRegistered, Registered
<1> QED BY <1>3, <1>4, <1>5, <1>6 DEF SellerInvariant

\* A validated order is recorded, unless its key is taken.
LEMMA RecordOrderKeeps ==
    ASSUME SellerInvariant, NEW t \in Threads, RecordOrder(t)
    PROVE  SellerInvariant'
<1> DEFINE u == task[t]
<1>1. /\ u \in OrderTask \cup DeliverTask /\ u # NoTask /\ u.validated
      /\ trades' = IF trades[u.key] = NoTrade THEN [trades EXCEPT ![u.key] = u.trade]
                   ELSE trades
      /\ task' = [task EXCEPT ![t] = NoTask]
      /\ UNCHANGED <<sellerVars, restarts, identities, conflicts>>
  BY DEF RecordOrder, Record, SellerInvariant, SellerTypeOK
<1>2. u.key \in OrderKeys /\ u.trade \in Trade /\ Registered(Range(u.trade.events))
  BY <1>1 DEF SellerInvariant, TasksRegistered, OrderTask, DeliverTask
<1>3. u.trade # NoTrade
  BY <1>2, LedgerAssumption
<1>4. \A k \in OrderKeys : trades[k] # NoTrade => trades'[k] = trades[k]
  BY <1>1, <1>2 DEF SellerInvariant, SellerTypeOK, LedgerTypeOK
<1>5. \A k \in OrderKeys : trades'[k] # trades[k] => k = u.key /\ trades'[k] = u.trade
  BY <1>1, <1>2 DEF SellerInvariant, SellerTypeOK, LedgerTypeOK
<1>6. LedgerTypeOK'
  BY <1>1, <1>2 DEF SellerInvariant, SellerTypeOK, LedgerTypeOK
<1>7. TasksRegistered' /\ DeliveriesKnown' /\ OrdersPriced'
  BY <1>1, <1>4, EndedTask
<1>8. QuotesWithinPolicy' /\ NegotiationConsistent'
  BY <1>1, QuotePartKept
<1>9. SellerTypeOK'
  BY <1>1, <1>6 DEF SellerInvariant, SellerTypeOK, sellerVars
<1>10. OrdersRegistered'
  BY <1>1, <1>2, <1>5 DEF SellerInvariant, OrdersRegistered, Registered
<1> QED BY <1>7, <1>8, <1>9, <1>10 DEF SellerInvariant

\* A delivery starts from an order on record.
LEMMA ReadTradeKeeps ==
    ASSUME SellerInvariant, NEW t \in Threads, NEW key \in OrderKeys, ReadTrade(t, key)
    PROVE  SellerInvariant'
<1> DEFINE new == [kind |-> "deliver", validated |-> FALSE, key |-> key,
                   trade |-> trades[key]]
<1>1. /\ trades[key] \in Trade /\ trades[key] # NoTrade
      /\ task' = [task EXCEPT ![t] = new]
      /\ UNCHANGED <<ledgerVars, sellerVars, restarts>>
  BY DEF ReadTrade, SellerInvariant, SellerTypeOK, LedgerTypeOK
<1>2. new \in DeliverTask
  BY <1>1 DEF DeliverTask
<1>3. QuotesWithinPolicy' /\ NegotiationConsistent'
  BY <1>1, QuotePartKept
<1>4. SellerTypeOK'
  BY <1>1, <1>2 DEF SellerInvariant, SellerTypeOK, LedgerTypeOK, ledgerVars, sellerVars
<1>5. OrdersRegistered' /\ TasksRegistered' /\ DeliveriesKnown'
  BY <1>1 DEF SellerInvariant, SellerTypeOK, OrdersRegistered, TasksRegistered,
              DeliveriesKnown, Registered, ledgerVars
<1>6. OrdersPriced'
  BY <1>1 DEF SellerInvariant, SellerTypeOK, OrdersPriced, PricedBy, sellerVars
<1> QED BY <1>3, <1>4, <1>5, <1>6 DEF SellerInvariant

\* A delivery changes the status of its order and nothing else of it.
LEMMA UpdateStatusKeeps ==
    ASSUME SellerInvariant, NEW t \in Threads, UpdateStatus(t)
    PROVE  SellerInvariant'
<1> DEFINE u == task[t]
           delivered == [trades[u.key] EXCEPT !.status = "delivered"]
<1>1. /\ u \in OrderTask \cup DeliverTask /\ u # NoTask
      /\ trades' = [trades EXCEPT ![u.key] = delivered]
      /\ trades[u.key] # NoTrade
      /\ task' = [task EXCEPT ![t] = NoTask]
      /\ UNCHANGED <<sellerVars, restarts, identities, conflicts>>
  BY DEF UpdateStatus, Deliver, SellerInvariant, SellerTypeOK, DeliveriesKnown
<1>2. u.key \in OrderKeys /\ trades[u.key] \in Trade
  BY <1>1 DEF SellerInvariant, SellerTypeOK, LedgerTypeOK, OrderTask, DeliverTask
<1>3. delivered \in Trade /\ Range(delivered.events) = Range(trades[u.key].events)
  BY <1>2 DEF Trade
<1>4. \A k \in OrderKeys : trades'[k] # trades[k] => k = u.key /\ trades'[k] = delivered
  BY <1>1, <1>2 DEF SellerInvariant, SellerTypeOK, LedgerTypeOK
<1>5. \A k \in OrderKeys : trades[k] # NoTrade => trades'[k] # NoTrade
  BY <1>3, <1>4, LedgerAssumption
<1>6. LedgerTypeOK'
  BY <1>1, <1>2, <1>3 DEF SellerInvariant, SellerTypeOK, LedgerTypeOK
<1>7. TasksRegistered' /\ DeliveriesKnown' /\ OrdersPriced'
  BY <1>1, <1>5, EndedTask
<1>8. QuotesWithinPolicy' /\ NegotiationConsistent'
  BY <1>1, QuotePartKept
<1>9. SellerTypeOK'
  BY <1>1, <1>6 DEF SellerInvariant, SellerTypeOK, sellerVars
<1>10. OrdersRegistered'
  <2>1. SUFFICES ASSUME NEW k \in OrderKeys, trades'[k] # NoTrade
                 PROVE  \A e \in Range(trades'[k].events) : identities'[e.key] = e.content
    BY DEF OrdersRegistered, Registered
  <2>2. trades[k] # NoTrade /\ Range(trades'[k].events) = Range(trades[k].events)
    BY <2>1, <1>1, <1>3, <1>4
  <2> QED BY <2>2, <1>1 DEF SellerInvariant, OrdersRegistered, Registered
<1> QED BY <1>7, <1>8, <1>9, <1>10 DEF SellerInvariant

\* A restart forgets the quotes and the handlers, and keeps the ledger.
LEMMA RestartKeeps ==
    ASSUME SellerInvariant, Restart
    PROVE  SellerInvariant'
<1>1. /\ restarts' = restarts + 1 /\ restarts < MaxRestarts
      /\ quotes' = [q \in QuoteIds |-> NoQuote]
      /\ agreed' = [q \in QuoteIds |-> NoPrice]
      /\ low' = [q \in QuoteIds |-> 0]
      /\ closed' = {}
      /\ task' = [t \in Threads |-> NoTask]
      /\ UNCHANGED <<trades, identities, conflicts>>
  BY DEF Restart, Forget, ledgerVars
<1>2. SellerTypeOK'
  BY <1>1, PricesAssumption DEF SellerInvariant, SellerTypeOK, LedgerTypeOK
<1>3. OrdersRegistered' /\ TasksRegistered' /\ DeliveriesKnown' /\ OrdersPriced'
  BY <1>1 DEF SellerInvariant, OrdersRegistered, TasksRegistered, DeliveriesKnown,
              OrdersPriced, Registered
<1>4. QuotesWithinPolicy' /\ NegotiationConsistent'
  BY <1>1 DEF QuotesWithinPolicy, NegotiationConsistent
<1> QED BY <1>2, <1>3, <1>4 DEF SellerInvariant

\* Every step of the service keeps the invariant.
LEMMA SellerNext == SellerInvariant /\ [Next]_vars => SellerInvariant'
<1> SUFFICES ASSUME SellerInvariant, [Next]_vars PROVE SellerInvariant'
  OBVIOUS
<1>1. CASE \E q \in QuoteIds, buyer \in Buyers, service \in Services, budget \in Budgets :
             CreateQuote(q, buyer, service, budget)
  BY <1>1, CreateQuoteKeeps
<1>2. CASE \E q \in QuoteIds : Expire(q)
  BY <1>2, ExpireKeeps
<1>3. CASE \E q \in QuoteIds, offer \in Offers : Negotiate(q, offer)
  BY <1>3, NegotiateKeeps
<1>4. CASE \E t \in Threads, q \in QuoteIds, amount \in Amounts, key \in OrderKeys,
             batch \in Batches : CheckOrder(t, q, amount, key, batch)
  BY <1>4, CheckOrderKeeps
<1>5. CASE \E t \in Threads : ValidateTask(t)
  BY <1>5, ValidateTaskKeeps
<1>6. CASE \E t \in Threads : RefuseTask(t)
  BY <1>6, RefuseTaskKeeps
<1>7. CASE \E t \in Threads : RecordOrder(t)
  BY <1>7, RecordOrderKeeps
<1>8. CASE \E t \in Threads, key \in OrderKeys : ReadTrade(t, key)
  BY <1>8, ReadTradeKeeps
<1>9. CASE \E t \in Threads : UpdateStatus(t)
  BY <1>9, UpdateStatusKeeps
<1>10. CASE Restart
  BY <1>10, RestartKeeps
<1>11. CASE UNCHANGED vars
  <2>1. LedgerTypeOK' /\ OrdersRegistered' /\ TasksRegistered' /\ DeliveriesKnown'
    BY <1>11, LedgerPartKept DEF vars
  <2>2. QuotesWithinPolicy' /\ NegotiationConsistent'
    BY <1>11, QuotePartKept DEF vars
  <2>3. SellerTypeOK' /\ OrdersPriced'
    BY <1>11, <2>1 DEF SellerInvariant, SellerTypeOK, OrdersPriced, PricedBy, vars, sellerVars
  <2> QED BY <2>1, <2>2, <2>3 DEF SellerInvariant
<1> QED
  BY <1>1, <1>2, <1>3, <1>4, <1>5, <1>6, <1>7, <1>8, <1>9, <1>10, <1>11 DEF Next

\* A step leaves an order that is on record as it is, or delivers it.
LEMMA OrderKept ==
    ASSUME SellerInvariant, Next, NEW k \in OrderKeys, trades[k] # NoTrade
    PROVE  trades'[k] \in {trades[k], [trades[k] EXCEPT !.status = "delivered"]}
<1> SUFFICES ASSUME trades'[k] # trades[k]
             PROVE  trades'[k] = [trades[k] EXCEPT !.status = "delivered"]
  OBVIOUS
<1>1. PICK t \in Threads : RecordOrder(t) \/ UpdateStatus(t)
  BY DEF Next, CreateQuote, Expire, Negotiate, CheckOrder, ValidateTask, RefuseTask,
         ReadTrade, Restart, Register, Refuse, ledgerVars
<1>2. CASE RecordOrder(t)
  BY <1>2 DEF RecordOrder, Record, SellerInvariant, SellerTypeOK, LedgerTypeOK
<1>3. CASE UpdateStatus(t)
  BY <1>3 DEF UpdateStatus, Deliver, SellerInvariant, SellerTypeOK, LedgerTypeOK
<1> QED BY <1>1, <1>2, <1>3

\* A step leaves the terms of a quote alone, or forgets it with the process; no other
\* quote appears under its id.
LEMMA QuoteKept ==
    ASSUME SellerInvariant, Next, NEW q \in QuoteIds, quotes[q] # NoQuote,
           quotes'[q] # NoQuote
    PROVE  /\ quotes'[q].buyer = quotes[q].buyer
           /\ quotes'[q].service = quotes[q].service
           /\ quotes'[q].ask = quotes[q].ask
           /\ quotes'[q].reservation = quotes[q].reservation
<1>1. quotes[q] \in Quote
  BY DEF SellerInvariant, SellerTypeOK
<1>2. CASE \E p \in QuoteIds : Expire(p)
  BY <1>1, <1>2 DEF Expire, SellerInvariant, SellerTypeOK, Quote
<1>3. CASE \E p \in QuoteIds, buyer \in Buyers, service \in Services, budget \in Budgets :
             CreateQuote(p, buyer, service, budget)
  BY <1>3 DEF CreateQuote, SellerInvariant, SellerTypeOK
<1>4. CASE UNCHANGED quotes
  BY <1>4
<1> QED BY <1>2, <1>3, <1>4
        DEF Next, Negotiate, CheckOrder, ValidateTask, RefuseTask, RecordOrder, ReadTrade,
            UpdateStatus, Restart, Forget, sellerVars

-----------------------------------------------------------------------------
(* Theorems.                                                                 *)

\* The inductive invariant of the service holds in every reachable state.
THEOREM SellerInvariance == Spec => []SellerInvariant
BY SellerInit, SellerNext, PTL DEF Spec

\* Every variable of the service and of its ledger keeps its type (api.py, ledger.py).
THEOREM SellerTypeCorrect == Spec => []SellerTypeOK
<1>1. SellerInvariant => SellerTypeOK
  BY DEF SellerInvariant
<1> QED BY <1>1, SellerInvariance, PTL

\* An accepted order can be delivered: its events pass validate_events again, whatever
\* other orders did to the identities since (seller.py 125).
THEOREM OrdersStayDeliverable == Spec => []AcceptedOrdersDeliverable
<1>1. SellerInvariant => AcceptedOrdersDeliverable
  BY RegisteredNeverConflict
     DEF SellerInvariant, SellerTypeOK, OrdersRegistered, AcceptedOrdersDeliverable
<1> QED BY <1>1, SellerInvariance, PTL

\* A negotiation is open, agreed or closed, and agrees on a price within its quote
\* (api.py 114-135).
THEOREM NegotiationsConsistent == Spec => []NegotiationConsistent
<1>1. SellerInvariant => NegotiationConsistent
  BY DEF SellerInvariant
<1> QED BY <1>1, SellerInvariance, PTL

\* Every order that enters the ledger carries the price of a quote of its own buyer for
\* its service, although the price was checked a transaction earlier (api.py 150-171).
THEOREM OrdersCarryTheirPrice == Spec => AmountFromQuote
<1>1. SellerInvariant /\ [Next]_vars =>
        [\A k \in OrderKeys :
            trades[k] = NoTrade /\ trades'[k] # NoTrade =>
                \E q \in QuoteIds :
                    /\ quotes[q] # NoQuote
                    /\ quotes[q].buyer = trades'[k].buyer
                    /\ quotes[q].service = trades'[k].service
                    /\ trades'[k].amount \in {quotes[q].ask, agreed[q]}]_vars
  <2> SUFFICES ASSUME SellerInvariant, Next, NEW k \in OrderKeys,
                      trades[k] = NoTrade, trades'[k] # NoTrade
               PROVE  \E q \in QuoteIds : PricedBy(q, trades'[k])
    BY DEF PricedBy
  <2>1. PICK t \in Threads : RecordOrder(t) \/ UpdateStatus(t)
    BY DEF Next, CreateQuote, Expire, Negotiate, CheckOrder, ValidateTask, RefuseTask,
           ReadTrade, Restart, Register, Refuse, ledgerVars
  <2>2. CASE RecordOrder(t)
    <3>1. task[t] # NoTask /\ task[t].kind = "order" /\ task[t].quote \in QuoteIds
      BY <2>2 DEF RecordOrder, SellerInvariant, SellerTypeOK, OrderTask, DeliverTask
    <3>2. trades'[k] = task[t].trade
      BY <2>2 DEF RecordOrder, Record, SellerInvariant, SellerTypeOK, LedgerTypeOK
    <3>3. PricedBy(task[t].quote, task[t].trade)
      BY <3>1 DEF SellerInvariant, OrdersPriced
    <3> QED BY <3>1, <3>2, <3>3
  <2>3. CASE UpdateStatus(t)
    <3>1. trades[task[t].key] # NoTrade
      BY <2>3 DEF UpdateStatus, SellerInvariant, DeliveriesKnown
    <3>2. trades'[k] = trades[k]
      BY <2>3, <3>1 DEF UpdateStatus, Deliver, SellerInvariant, SellerTypeOK, LedgerTypeOK
    <3> QED BY <3>2
  <2> QED BY <2>1, <2>2, <2>3
<1> QED BY <1>1, SellerInvariance, PTL DEF Spec, AmountFromQuote

\* Orders are idempotent: what a key stands for is never replaced, only delivered
\* (ledger.py 128-183).
THEOREM OrdersAreFinal == Spec => OrderIsFinal
<1>1. SellerInvariant /\ [Next]_vars =>
        [\A k \in OrderKeys :
            trades[k] # NoTrade =>
                trades'[k] \in {trades[k], [trades[k] EXCEPT !.status = "delivered"]}]_vars
  BY OrderKept
<1> QED BY <1>1, SellerInvariance, PTL DEF Spec, OrderIsFinal

\* Until the process restarts, neither an agreed price nor a closed negotiation changes
\* (api.py 115-125).
THEOREM AgreementsBind == Spec => AgreementIsBinding
<1>1. SellerInvariant /\ [Next]_vars =>
        [Restart \/ \A q \in QuoteIds :
                      /\ agreed[q] # NoPrice => agreed'[q] = agreed[q]
                      /\ q \in closed => q \in closed']_vars
  <2> SUFFICES ASSUME SellerInvariant, Next, ~Restart, NEW q \in QuoteIds
               PROVE  /\ agreed[q] # NoPrice => agreed'[q] = agreed[q]
                      /\ q \in closed => q \in closed'
    OBVIOUS
  <2>1. UNCHANGED <<agreed, closed>> \/ \E p \in QuoteIds, offer \in Offers : Negotiate(p, offer)
    BY DEF Next, CreateQuote, Expire, CheckOrder, ValidateTask, RefuseTask, RecordOrder,
           UpdateStatus, ReadTrade, sellerVars
  <2>2. CASE \E p \in QuoteIds, offer \in Offers : Negotiate(p, offer)
    BY <2>2 DEF Negotiate, AcceptOffer, DeclineOffer, SellerInvariant, SellerTypeOK
  <2> QED BY <2>1, <2>2
<1> QED BY <1>1, SellerInvariance, PTL DEF Spec, AgreementIsBinding
=============================================================================
