----------------------------- MODULE SellerApi -----------------------------
(***************************************************************************)
(* The seller's HTTP service (api.py, seller.py, PricingPolicy) on top of  *)
(* its Ledger.  Quotes and negotiations live in the process and are lost   *)
(* by a restart; orders live in the ledger.  FastAPI runs the handlers in  *)
(* a thread pool, so an order that has passed its price check (under       *)
(* negotiation_lock) validates and records (two ledger transactions) while *)
(* other handlers run.  A handler that only answers an error changes       *)
(* nothing and is no step.                                                 *)
(***************************************************************************)
EXTENDS Ledger

CONSTANTS
    QuoteIds,       \* quote_id is a fresh uuid: each is given out once
    Threads,        \* handlers of orders and deliveries in progress
    Budgets,        \* budgets of quote requests
    Offers,         \* buyer_offer of negotiations
    BasePrice,      \* 6
    FirstPrice,     \* price of a first purchase: ceil(6 * 0.9) = 6
    FloorPrice,     \* 5
    MaxRestarts,    \* bound: times the process restarts
    NoQuote, NoPrice, NoTask

ASSUME PricesAssumption ==
    /\ {BasePrice, FirstPrice, FloorPrice, MaxRestarts} \subseteq Nat
    /\ Budgets \subseteq Nat /\ Offers \subseteq Nat
    /\ FloorPrice =< BasePrice /\ FloorPrice =< FirstPrice
    /\ FloorPrice .. BasePrice \subseteq Amounts
    /\ FloorPrice .. FirstPrice \subseteq Amounts

VARIABLES
    quotes,      \* quotes[q]
    agreed,      \* agreed_prices.get(q)
    low,         \* low_offers.get(q, 0)
    closed,      \* closed_negotiations
    task,        \* what each thread has checked and is about to do
    restarts

sellerVars == <<quotes, agreed, low, closed>>
vars == <<ledgerVars, sellerVars, task, restarts>>

Quote == [buyer : Buyers, service : Services, ask : Amounts, reservation : Amounts,
          live : BOOLEAN]

OrderTask ==
    [kind : {"order"}, validated : BOOLEAN, quote : QuoteIds, key : OrderKeys, trade : Trade]
DeliverTask ==
    [kind : {"deliver"}, validated : BOOLEAN, key : OrderKeys, trade : Trade]

ASSUME NoValueAssumption ==
    /\ NoQuote \notin Quote
    /\ NoPrice \notin Amounts
    /\ NoTask \notin OrderTask \cup DeliverTask

Forget ==
    /\ quotes' = [q \in QuoteIds |-> NoQuote]
    /\ agreed' = [q \in QuoteIds |-> NoPrice]
    /\ low' = [q \in QuoteIds |-> 0]
    /\ closed' = {}
    /\ task' = [t \in Threads |-> NoTask]

Init ==
    /\ LedgerInit
    /\ quotes = [q \in QuoteIds |-> NoQuote]
    /\ agreed = [q \in QuoteIds |-> NoPrice]
    /\ low = [q \in QuoteIds |-> 0]
    /\ closed = {}
    /\ task = [t \in Threads |-> NoTask]
    /\ restarts = 0

-----------------------------------------------------------------------------
(* Quotes: create_quote with SellerService.quote and PricingPolicy.quote,    *)
(* the clock, negotiate with PricingPolicy.negotiate.                        *)

Least(a, b) == IF a =< b THEN a ELSE b
Greatest(a, b) == IF a >= b THEN a ELSE b

\* Mutant: the discount of a first purchase is rounded down.
AskPriceRoundedDown(buyer, budget) ==
    Least(budget, Greatest(FloorPrice, IF HasBuyer(buyer) THEN BasePrice ELSE FirstPrice - 1))

AskPrice(buyer, budget) ==
    Least(budget, Greatest(FloorPrice, IF HasBuyer(buyer) THEN BasePrice ELSE FirstPrice))

\* Mutant: a budget below the floor is quoted.
QuoteAnyBudget(q, buyer, service, budget) ==
    /\ quotes[q] = NoQuote
    /\ quotes' = [quotes EXCEPT ![q] =
                    [buyer |-> buyer, service |-> service, ask |-> AskPrice(buyer, budget),
                     reservation |-> FloorPrice, live |-> TRUE]]
    /\ UNCHANGED <<ledgerVars, agreed, low, closed, task, restarts>>

CreateQuote(q, buyer, service, budget) ==
    /\ quotes[q] = NoQuote
    /\ budget >= FloorPrice                        \* else insufficient_budget
    /\ quotes' = [quotes EXCEPT ![q] =
                    [buyer |-> buyer, service |-> service, ask |-> AskPrice(buyer, budget),
                     reservation |-> FloorPrice, live |-> TRUE]]
    /\ UNCHANGED <<ledgerVars, agreed, low, closed, task, restarts>>

IsLive(q) == quotes[q] # NoQuote /\ quotes[q].live

\* expires_at passes.
Expire(q) ==
    /\ IsLive(q)
    /\ quotes' = [quotes EXCEPT ![q].live = FALSE]
    /\ UNCHANGED <<ledgerVars, agreed, low, closed, task, restarts>>

\* An offer at or above the reservation price settles the price.
AcceptOffer(q, offer) ==
    /\ offer >= quotes[q].reservation
    /\ agreed' = [agreed EXCEPT ![q] = Least(offer, quotes[q].ask)]
    /\ UNCHANGED <<low, closed>>

\* The first offer below it is countered, the second closes the negotiation.
DeclineOffer(q, offer) ==
    /\ offer < quotes[q].reservation
    /\ low' = [low EXCEPT ![q] = @ + 1]
    /\ closed' = IF low[q] >= 1 THEN closed \cup {q} ELSE closed
    /\ UNCHANGED agreed

\* Mutant: an agreed price is negotiated again.
NegotiateAgain(q, offer) ==
    /\ IsLive(q)
    /\ q \notin closed
    /\ AcceptOffer(q, offer) \/ DeclineOffer(q, offer)
    /\ UNCHANGED <<ledgerVars, quotes, task, restarts>>

Negotiate(q, offer) ==
    /\ IsLive(q)
    /\ q \notin closed
    /\ agreed[q] = NoPrice
    /\ AcceptOffer(q, offer) \/ DeclineOffer(q, offer)
    /\ UNCHANGED <<ledgerVars, quotes, task, restarts>>

-----------------------------------------------------------------------------
(* Orders: create_order's checks, then SellerService.accept_order.           *)

ExpectedPrice(q) == IF agreed[q] = NoPrice THEN quotes[q].ask ELSE agreed[q]

\* What is read under negotiation_lock, and compared after it.
PriceAccepted(q, amount) == q \notin closed /\ amount = ExpectedPrice(q)

\* A buyer sends an order; it names the quote's own buyer and service.
\* The quote is found and unexpired before the lock is taken; a quote that expires in
\* between may as well expire after it, as nothing read under the lock depends on that.
CheckOrder(t, q, amount, key, batch) ==
    /\ task[t] = NoTask
    /\ IsLive(q)
    /\ PriceAccepted(q, amount)
    /\ task' = [task EXCEPT ![t] =
                  [kind |-> "order", validated |-> FALSE, quote |-> q, key |-> key,
                   trade |-> [buyer |-> quotes[q].buyer, service |-> quotes[q].service,
                              amount |-> amount, events |-> batch, status |-> "accepted"]]]
    /\ UNCHANGED <<ledgerVars, sellerVars, restarts>>

\* validate_events of an order or of a delivery.
ValidateTask(t) ==
    /\ task[t] # NoTask /\ ~task[t].validated
    /\ Register(Range(task[t].trade.events))
    /\ task' = [task EXCEPT ![t].validated = TRUE]
    /\ UNCHANGED <<sellerVars, restarts>>

\* EventConflictError: answered with 409.
RefuseTask(t) ==
    /\ task[t] # NoTask /\ ~task[t].validated
    /\ Refuse(Range(task[t].trade.events))
    /\ task' = [task EXCEPT ![t] = NoTask]
    /\ UNCHANGED <<sellerVars, restarts>>

\* Mutant: the order is recorded before its events are validated.
RecordUnvalidated(t) ==
    /\ task[t] # NoTask /\ task[t].kind = "order"
    /\ Record(task[t].key, task[t].trade)
    /\ task' = [task EXCEPT ![t] = NoTask]
    /\ UNCHANGED <<sellerVars, restarts>>

RecordOrder(t) ==
    /\ task[t] # NoTask /\ task[t].kind = "order" /\ task[t].validated
    /\ Record(task[t].key, task[t].trade)
    /\ task' = [task EXCEPT ![t] = NoTask]
    /\ UNCHANGED <<sellerVars, restarts>>

-----------------------------------------------------------------------------
(* Deliveries: SellerService.deliver, three ledger transactions.             *)

\* Mutant: an order is delivered once only.
ReadUndelivered(t, key) ==
    /\ task[t] = NoTask
    /\ trades[key] # NoTrade /\ trades[key].status = "accepted"
    /\ task' = [task EXCEPT ![t] = [kind |-> "deliver", validated |-> FALSE, key |-> key,
                                    trade |-> trades[key]]]
    /\ UNCHANGED <<ledgerVars, sellerVars, restarts>>

ReadTrade(t, key) ==
    /\ task[t] = NoTask
    /\ trades[key] # NoTrade
    /\ task' = [task EXCEPT ![t] = [kind |-> "deliver", validated |-> FALSE, key |-> key,
                                    trade |-> trades[key]]]
    /\ UNCHANGED <<ledgerVars, sellerVars, restarts>>

UpdateStatus(t) ==
    /\ task[t] # NoTask /\ task[t].kind = "deliver" /\ task[t].validated
    /\ Deliver(task[t].key)
    /\ task' = [task EXCEPT ![t] = NoTask]
    /\ UNCHANGED <<sellerVars, restarts>>

\* The process dies and starts again on the same ledger file.
Restart ==
    /\ restarts < MaxRestarts
    /\ restarts' = restarts + 1
    /\ Forget
    /\ UNCHANGED ledgerVars

Next ==
    \/ \E q \in QuoteIds :
        \/ \E buyer \in Buyers, service \in Services, budget \in Budgets :
            CreateQuote(q, buyer, service, budget)
        \/ Expire(q)
        \/ \E offer \in Offers : Negotiate(q, offer)
    \/ \E t \in Threads :
        \/ \E q \in QuoteIds, amount \in Amounts, key \in OrderKeys, batch \in Batches :
            CheckOrder(t, q, amount, key, batch)
        \/ ValidateTask(t)
        \/ RefuseTask(t)
        \/ RecordOrder(t)
        \/ \E key \in OrderKeys : ReadTrade(t, key)
        \/ UpdateStatus(t)
    \/ Restart

Spec == Init /\ [][Next]_vars

-----------------------------------------------------------------------------
(* Properties.                                                               *)

\* Every variable keeps its type (ask and agreed prices included).
SellerTypeOK ==
    /\ LedgerTypeOK
    /\ quotes \in [QuoteIds -> Quote \cup {NoQuote}]
    /\ agreed \in [QuoteIds -> Amounts \cup {NoPrice}]
    /\ low \in [QuoteIds -> 0 .. 2]
    /\ closed \subseteq QuoteIds
    /\ task \in [Threads -> OrderTask \cup DeliverTask \cup {NoTask}]
    /\ restarts \in 0 .. MaxRestarts

\* An order that was accepted can be delivered: whatever other orders registered or
\* had refused in the meantime, and across restarts, its events never conflict with
\* the identities on record, so deliver's own validate_events (seller.py 125) passes.
AcceptedOrdersDeliverable ==
    \A k \in OrderKeys : trades[k] # NoTrade => ConflictsOf(Range(trades[k].events)) = {}

\* A quote is open, agreed or closed, never two of them, and its price stays within
\* its own floor and ask whatever order offers arrive in (api.py 114-135).
NegotiationConsistent ==
    \A q \in QuoteIds :
        /\ q \in closed <=> low[q] = 2
        /\ agreed[q] # NoPrice =>
            /\ q \notin closed
            /\ quotes[q] # NoQuote
            /\ agreed[q] \in quotes[q].reservation .. quotes[q].ask

\* "Previously agreed price remains binding." (api.py 124): until the quotes are lost
\* with the process, neither an agreed price nor a closed negotiation changes.
AgreementIsBinding ==
    [][Restart \/ \A q \in QuoteIds :
                    /\ agreed[q] # NoPrice => agreed'[q] = agreed[q]
                    /\ q \in closed => q \in closed']_vars

\* Every order on record was charged the price of a quote its own buyer holds for that
\* service: the ask price or the price agreed for it, also when a negotiation closes
\* or settles between create_order's check and the ledger's insert.
AmountFromQuote ==
    [][\A k \in OrderKeys :
        trades[k] = NoTrade /\ trades'[k] # NoTrade =>
            \E q \in QuoteIds :
                /\ quotes[q] # NoQuote
                /\ quotes[q].buyer = trades'[k].buyer
                /\ quotes[q].service = trades'[k].service
                /\ trades'[k].amount \in {quotes[q].ask, agreed[q]}]_vars

\* Orders are idempotent: once a key has an order, no retry, rival order or restart
\* changes it; the one thing that happens to it is to be delivered.
OrderIsFinal ==
    [][\A k \in OrderKeys :
        trades[k] # NoTrade =>
            trades'[k] \in {trades[k], [trades[k] EXCEPT !.status = "delivered"]}]_vars
=============================================================================
