------------------------ MODULE SellerClientsProofs ------------------------
(***************************************************************************)
(* Theorems about the programs that call the seller's service, for any     *)
(* number of commands, harness buyers, quotes, handlers, prices and faults.*)
(*                                                                         *)
(* The argument: every step of the composition is a step of SellerApi or   *)
(* none, so SellerApiProofs holds in it; what a client knows (Holds) is    *)
(* stable under the steps of everybody else, since an order on record is   *)
(* final and a quote keeps its terms; and what a handler will tell its     *)
(* client (Answering) is settled when the client sends its request.        *)
(* A second invariant (ServedInvariant) adds that the service agrees with  *)
(* every job on its price and input, so that no answer is a wrong one.     *)
(***************************************************************************)
EXTENDS SellerClients, SellerApiProofs

\* The steps in which a client uses its quote, or is about to use it again.
QuoteSteps == {"negotiate", "order", "reorder", "ordering", "replay"}

\* The steps of a client that has a receipt for its order.
ReceiptSteps == {"replay", "replaying", "deliver", "delivering", "done"}

\* The order of c, with the events it sends first or with those it changed.
Sends(c, events) ==
    [buyer |-> Job[c].buyer, service |-> Job[c].service, amount |-> client[c].price,
     events |-> events, status |-> "accepted"]
OrderOf(c) == Sends(c, Job[c].input)

\* What c knows of the service in each of its steps.
HasQuote(c) ==
    client[c].step \in QuoteSteps =>
        LET q == client[c].quote IN
        /\ q \in QuoteIds
        /\ quotes[q] # NoQuote =>
              quotes[q].buyer = Job[c].buyer /\ quotes[q].service = Job[c].service

OnRecord(c) ==
    /\ trades[Job[c].key] # NoTrade
    /\ [trades[Job[c].key] EXCEPT !.status = "accepted"] = OrderOf(c)

HasReceipt(c) ==
    client[c].step \in ReceiptSteps =>
        /\ OnRecord(c)
        /\ client[c].step = "done" => trades[Job[c].key].status = "delivered"

\* Only the harness negotiates, repeats and changes its orders.
InRole(c) == c \in Commands =>
                client[c].step \notin {"negotiate", "reorder", "replay", "replaying"}

Holds(c) == HasQuote(c) /\ HasReceipt(c) /\ InRole(c)

\* Handler t answers client c.
Answers(t, c) ==
    /\ task[t] # NoTask
    /\ task[t].key = Job[c].key
    /\ task[t].kind = "deliver" => client[c].step = "delivering"
    /\ task[t].kind = "order" =>
        client[c].step \in {"reorder", "ordering", "replaying", "refused", "failed"}
    /\ client[c].step \in {"reorder", "ordering"} => task[t].trade = OrderOf(c)
    /\ client[c].step = "failed" => c \notin Commands

Answering == \A t \in Threads : owner[t] # NoClient => Answers(t, owner[t])

\* A changed order and a delivery are sent one at a time.
OneAtATime ==
    \A s, t \in Threads :
        owner[s] = owner[t] /\ owner[s] # NoClient
        /\ client[owner[s]].step \in {"replaying", "delivering"} => s = t

ClientsTypeOK ==
    /\ client \in [Clients -> Client]
    /\ owner \in [Threads -> Clients \cup {NoClient}]

\* The inductive invariant of the clients.
ClientsInvariant ==
    /\ ClientsTypeOK
    /\ \A c \in Clients : Holds(c)
    /\ Answering
    /\ OneAtATime

-----------------------------------------------------------------------------
(* The composition uses the service as SellerApi specifies it.               *)

\* A quote is asked for under an id nobody holds.
LEMMA FreshQuoteIsFree ==
    ASSUME FreshQuotes # {}
    PROVE  /\ FreshQuote \in QuoteIds
           /\ quotes[FreshQuote] = NoQuote
           /\ \A c \in Clients : client[c].quote # FreshQuote
BY DEF FreshQuote, FreshQuotes

\* A request is handled by a thread that is free.
LEMMA FreeThreadIsFree ==
    ASSUME FreeThreads # {}
    PROVE  FreeThread \in Threads /\ task[FreeThread] = NoTask
BY DEF FreeThread, FreeThreads

\* A client uses its quote only while the service has it: the price it orders at is an
\* amount, and the price it offers is the floor.
LEMMA OrderPriceTyped ==
    ASSUME SellerInvariant, NEW q \in QuoteIds, IsLive(q), NEW amount,
           PriceAccepted(q, amount)
    PROVE  amount \in Amounts
BY DEF SellerInvariant, SellerTypeOK, IsLive, PriceAccepted, ExpectedPrice, Quote

\* Every step of the composition is a step of the service or leaves it alone.
LEMMA ClientsUseNext ==
    ASSUME SellerInvariant, ClientsInvariant, [ClientsNext]_clientsVars
    PROVE  [Next]_vars
<1>1. \A c \in Clients : /\ Job[c].buyer \in Buyers /\ Job[c].service \in Services
                         /\ Job[c].budget \in Budgets /\ Job[c].key \in OrderKeys
                         /\ Job[c].input \in Batches /\ Job[c].changed \in Batches
  BY ClientsAssumption DEF JobOf
<1>2. \A c \in Clients : client[c].step \in QuoteSteps => client[c].quote \in QuoteIds
  BY DEF ClientsInvariant, Holds, HasQuote
<1>3. ASSUME NEW c \in Clients, AskQuote(c) PROVE Next
  BY <1>1, <1>3, FreshQuoteIsFree DEF AskQuote, Next
<1>4. ASSUME NEW c \in Clients, OfferReservation(c) PROVE Next
  <2>1. client[c].quote \in QuoteIds
    BY <1>2, <1>4 DEF OfferReservation, At, QuoteSteps
  <2>2. quotes[client[c].quote].reservation \in Offers
    BY <2>1, <1>4, ClientsAssumption
       DEF OfferReservation, Negotiate, IsLive, SellerInvariant, QuotesWithinPolicy
  <2> QED BY <2>1, <2>2, <1>4 DEF OfferReservation, Next
<1>5. ASSUME NEW c \in Clients, NEW batch \in Batches, SubmitOrder(c, batch),
             client[c].step \in QuoteSteps
      PROVE  Next
  <2>1. client[c].quote \in QuoteIds /\ FreeThread \in Threads
    BY <1>2, <1>5, FreeThreadIsFree DEF SubmitOrder
  <2>2. client[c].price \in Amounts
    BY <2>1, <1>5, OrderPriceTyped DEF SubmitOrder, CheckOrder
  <2> QED BY <2>1, <2>2, <1>1, <1>5 DEF SubmitOrder, Next
<1>6. ASSUME NEW c \in Clients, SendOrder(c) \/ SendOrderAgain(c) \/ SendChangedOrder(c)
      PROVE  Next
  BY <1>1, <1>5, <1>6 DEF SendOrder, SendOrderAgain, SendChangedOrder, At, QuoteSteps
<1>7. ASSUME NEW c \in Clients, SendDelivery(c) PROVE Next
  BY <1>1, <1>7, FreeThreadIsFree DEF SendDelivery, Next
<1>8. ASSUME NEW c \in Clients, QuoteExpires(c) PROVE Next
  BY <1>2, <1>8 DEF QuoteExpires, At, QuoteSteps, Next
<1>9. ASSUME NEW t \in Threads, Handler(t) PROVE Next
  BY <1>9 DEF Handler, Validated, RefusedEvents, OrderRecorded, Delivered, Next
<1>10. ASSUME ServiceRestarts PROVE Next
  BY <1>10 DEF ServiceRestarts, Next
<1>11. ASSUME NEW c \in Clients, OrderNotAccepted(c) \/ LoseExchange(c) \/ RunAgain(c)
       PROVE  UNCHANGED vars
  BY <1>11 DEF OrderNotAccepted, LoseExchange, RunAgain
<1>12. UNCHANGED clientsVars => UNCHANGED vars
  BY DEF clientsVars
<1> QED BY <1>3, <1>4, <1>6, <1>7, <1>8, <1>9, <1>10, <1>11, <1>12
        DEF ClientsNext, ClientStep

-----------------------------------------------------------------------------
(* What a client knows stays true while others act.                          *)

\* What a job asks for is typed.
LEMMA JobTyped ==
    ASSUME NEW c \in Clients
    PROVE  /\ Job[c].buyer \in Buyers /\ Job[c].service \in Services
           /\ Job[c].budget \in Budgets /\ Job[c].key \in OrderKeys
           /\ Job[c].input \in Batches /\ Job[c].changed \in Batches
BY ClientsAssumption DEF JobOf

\* An order on record stays the order it is, delivered or not.
LEMMA OnRecordKept ==
    ASSUME SellerInvariant, [Next]_vars, NEW c \in Clients, OnRecord(c),
           client'[c].price = client[c].price
    PROVE  /\ OnRecord(c)'
           /\ trades[Job[c].key].status = "delivered" => trades'[Job[c].key].status = "delivered"
<1> DEFINE k == Job[c].key
<1>1. k \in OrderKeys
  BY JobTyped
<1>2. trades[k] \in Trade /\ trades[k] # NoTrade
  BY <1>1 DEF OnRecord, SellerInvariant, SellerTypeOK, LedgerTypeOK
<1>3. trades'[k] \in {trades[k], [trades[k] EXCEPT !.status = "delivered"]}
  BY <1>1, <1>2, OrderKept DEF vars, ledgerVars
<1>4. trades'[k] \in Trade
  BY <1>2, <1>3 DEF Trade
<1>5. [trades'[k] EXCEPT !.status = "accepted"] = [trades[k] EXCEPT !.status = "accepted"]
  BY <1>2, <1>3 DEF Trade
<1>6. trades[k].status = "delivered" => trades'[k].status = "delivered"
  BY <1>2, <1>3 DEF Trade
<1>7. trades'[k] # NoTrade
  BY <1>4, LedgerAssumption
<1> QED BY <1>5, <1>6, <1>7 DEF OnRecord, OrderOf, Sends

\* Unless its quote id is given out again, a client that does not move knows as much
\* as before.
LEMMA HoldsKept ==
    ASSUME SellerInvariant, [Next]_vars, NEW c \in Clients, Holds(c),
           client'[c] = client[c],
           client[c].quote \in QuoteIds /\ quotes[client[c].quote] = NoQuote
             => quotes'[client[c].quote] = NoQuote
    PROVE  Holds(c)'
<1>1. HasQuote(c)'
  <2>1. SUFFICES ASSUME client[c].step \in QuoteSteps, quotes'[client[c].quote] # NoQuote
                 PROVE  /\ client[c].quote \in QuoteIds
                        /\ quotes'[client[c].quote].buyer = Job[c].buyer
                        /\ quotes'[client[c].quote].service = Job[c].service
    BY DEF HasQuote, Holds
  <2>2. client[c].quote \in QuoteIds /\ quotes[client[c].quote] # NoQuote
    BY <2>1 DEF Holds, HasQuote
  <2>3. /\ quotes[client[c].quote].buyer = Job[c].buyer
        /\ quotes[client[c].quote].service = Job[c].service
    BY <2>1, <2>2 DEF Holds, HasQuote
  <2> QED BY <2>1, <2>2, <2>3, QuoteKept DEF vars, sellerVars
<1>2. HasReceipt(c)'
  BY OnRecordKept DEF Holds, HasReceipt
<1> QED BY <1>1, <1>2 DEF Holds, InRole

\* No quote appears but by CreateQuote.
LEMMA NoQuoteAppears ==
    ASSUME SellerInvariant, NEW q \in QuoteIds, quotes[q] = NoQuote,
           \/ UNCHANGED quotes
           \/ \E p \in QuoteIds : Expire(p)
           \/ Restart
    PROVE  quotes'[q] = NoQuote
BY DEF Expire, IsLive, SellerInvariant, SellerTypeOK, Restart, Forget

\* A handler answers its client while neither of them moves.
LEMMA AnswersKept ==
    ASSUME NEW t \in Threads, NEW c \in Clients, Answers(t, c),
           client'[c].step = client[c].step, client'[c].price = client[c].price,
           task'[t] # NoTask, task'[t].key = task[t].key, task'[t].kind = task[t].kind,
           task'[t].trade = task[t].trade
    PROVE  Answers(t, c)'
BY DEF Answers, OrderOf, Sends

\* Who waits for a handler is in a step that waits.
LEMMA WaitingSteps ==
    ASSUME SellerInvariant, ClientsInvariant, NEW t \in Threads, owner[t] # NoClient
    PROVE  /\ owner[t] \in Clients
           /\ Answers(t, owner[t])
           /\ task[t] \in OrderTask \cup DeliverTask
           /\ client[owner[t]].step \in {"reorder", "ordering", "replaying", "refused",
                                         "failed", "delivering"}
<1>1. owner[t] \in Clients
  BY DEF ClientsInvariant, ClientsTypeOK
<1>2. Answers(t, owner[t])
  BY DEF ClientsInvariant, Answering
<1>3. task[t] \in OrderTask \cup DeliverTask
  BY <1>2 DEF Answers, SellerInvariant, SellerTypeOK
<1>4. task[t].kind \in {"order", "deliver"}
  BY <1>3 DEF OrderTask, DeliverTask
<1> QED BY <1>1, <1>2, <1>3, <1>4 DEF Answers

-----------------------------------------------------------------------------
(* Requests.                                                                 *)

\* Client c moves and nobody else does; its quote, if it is a new one, was nobody's.
LEMMA OthersHold ==
    ASSUME SellerInvariant, ClientsInvariant, [Next]_vars, NEW c \in Clients,
           \A d \in Clients : d # c => client'[d] = client[d],
           \A d \in Clients : d # c /\ client[d].quote \in QuoteIds
                               /\ quotes[client[d].quote] = NoQuote
                                 => quotes'[client[d].quote] = NoQuote
    PROVE  \A d \in Clients : d # c => Holds(d)'
BY HoldsKept DEF ClientsInvariant

\* Client c moves from a step in which it waits for nobody, and starts no handler.
LEMMA MoveOf ==
    ASSUME SellerInvariant, ClientsInvariant, [Next]_vars, NEW c \in Clients,
           client[c].step \in {"quote", "negotiate", "order", "replay", "deliver"},
           ClientsTypeOK', \A d \in Clients : Holds(d)',
           \A d \in Clients : d # c => client'[d] = client[d],
           UNCHANGED <<owner, task>>
    PROVE  ClientsInvariant'
<1>1. ASSUME NEW t \in Threads, owner[t] # NoClient PROVE owner[t] \in Clients \ {c}
  BY <1>1, WaitingSteps
<1>2. Answering'
  <2> SUFFICES ASSUME NEW t \in Threads, owner[t] # NoClient
               PROVE  Answers(t, owner[t])'
    BY DEF Answering
  <2>1. owner[t] \in Clients /\ client'[owner[t]] = client[owner[t]] /\ Answers(t, owner[t])
    BY <1>1, WaitingSteps
  <2>2. task'[t] = task[t] /\ task[t] # NoTask
    BY <2>1 DEF Answers
  <2> DEFINE d == owner[t]
  <2>3. Answers(t, d)'
    BY <2>1, <2>2 DEF Answers, OrderOf, Sends
  <2> QED BY <2>3
<1>3. OneAtATime'
  BY <1>1 DEF ClientsInvariant, OneAtATime
<1> QED BY <1>2, <1>3 DEF ClientsInvariant

\* A quote is for what its client asked for.
LEMMA AskQuoteKeeps ==
    ASSUME SellerInvariant, ClientsInvariant, NEW c \in Clients, AskQuote(c), [Next]_vars
    PROVE  ClientsInvariant'
<1> DEFINE q == FreshQuote
           new == [step |-> IF c \in Commands THEN "order" ELSE "negotiate",
                   quote |-> q, price |-> quotes'[q].ask]
           made == [buyer |-> Job[c].buyer, service |-> Job[c].service,
                    ask |-> AskPrice(Job[c].buyer, Job[c].budget),
                    reservation |-> FloorPrice, live |-> TRUE]
<1>1. q \in QuoteIds /\ quotes[q] = NoQuote /\ \A d \in Clients : client[d].quote # q
  BY FreshQuoteIsFree DEF AskQuote
<1>2. /\ quotes' = [quotes EXCEPT ![q] = made]
      /\ client' = [client EXCEPT ![c] = new]
      /\ client[c].step = "quote"
      /\ UNCHANGED <<owner, task>>
  BY DEF AskQuote, CreateQuote, At
<1>3. quotes'[q] = made /\ \A p \in QuoteIds : p # q => quotes'[p] = quotes[p]
  BY <1>1, <1>2 DEF SellerInvariant, SellerTypeOK
<1>4. quotes'[q].ask \in Amounts
  <2>1. AskPrice(Job[c].buyer, Job[c].budget) \in ListPrices
    BY JobTyped, AskPriceTyped DEF AskQuote, CreateQuote
  <2> QED BY <2>1, <1>3, PricesAssumption DEF ListPrices
<1>5. new \in Client
  BY <1>1, <1>4 DEF Client, Steps
<1>6. ClientsTypeOK' /\ client'[c] = new /\ \A d \in Clients : d # c => client'[d] = client[d]
  BY <1>2, <1>5 DEF ClientsInvariant, ClientsTypeOK
<1>7. Holds(c)'
  BY <1>1, <1>3, <1>6 DEF Holds, HasQuote, HasReceipt, InRole, QuoteSteps, ReceiptSteps
<1>8. \A d \in Clients : d # c => Holds(d)'
  BY <1>1, <1>3, <1>6, OthersHold
<1> QED BY <1>2, <1>6, <1>7, <1>8, MoveOf

\* A negotiation changes no quote.
LEMMA OfferReservationKeeps ==
    ASSUME SellerInvariant, ClientsInvariant, NEW c \in Clients, OfferReservation(c),
           [Next]_vars
    PROVE  ClientsInvariant'
<1> DEFINE q == client[c].quote
           final == agreed'[q]
           step == IF final = NoPrice THEN "refused" ELSE "order"
<1>1. /\ client[c].step = "negotiate" /\ q \in QuoteIds
      /\ client' = [client EXCEPT ![c].step = step, ![c].price = final]
      /\ UNCHANGED <<quotes, owner, task>>
  BY DEF OfferReservation, Negotiate, At, ClientsInvariant, Holds, HasQuote, QuoteSteps
<1>2. final \in Amounts \cup {NoPrice}
  BY <1>1, SellerNext DEF SellerInvariant, SellerTypeOK
<1>3. client[c] \in Client
  BY DEF ClientsInvariant, ClientsTypeOK
<1>4. [client[c] EXCEPT !.step = step, !.price = final] \in Client
  BY <1>2, <1>3 DEF Client, Steps
<1>5. /\ ClientsTypeOK'
      /\ client'[c] = [client[c] EXCEPT !.step = step, !.price = final]
      /\ \A d \in Clients : d # c => client'[d] = client[d]
  BY <1>1, <1>4 DEF ClientsInvariant, ClientsTypeOK
<1>6. client'[c].step = step /\ client'[c].quote = q
  BY <1>3, <1>5 DEF Client
<1>7. Holds(c)'
  BY <1>1, <1>6 DEF ClientsInvariant, Holds, HasQuote, HasReceipt, InRole, QuoteSteps,
                    ReceiptSteps
<1>8. \A d \in Clients : d # c => Holds(d)'
  BY <1>1, <1>5, OthersHold
<1> QED BY <1>1, <1>5, <1>7, <1>8, MoveOf

\* A step changes the step of one client only.
LEMMA GoToTyped ==
    ASSUME ClientsInvariant, NEW c \in Clients, NEW step \in Steps, GoTo(c, step)
    PROVE  /\ client' \in [Clients -> Client]
           /\ client'[c].step = step
           /\ client'[c].quote = client[c].quote /\ client'[c].price = client[c].price
           /\ \A d \in Clients : d # c => client'[d] = client[d]
<1>1. client \in [Clients -> Client] /\ client[c] \in Client
  BY DEF ClientsInvariant, ClientsTypeOK
<1>2. [client[c] EXCEPT !.step = step] \in Client
  BY <1>1 DEF Client
<1>3. client' = [client EXCEPT ![c] = [client[c] EXCEPT !.step = step]]
  BY <1>1 DEF GoTo
<1> QED BY <1>1, <1>2, <1>3 DEF Client

\* A client sends a request to a free handler and waits for it.
LEMMA HandleKeeps ==
    ASSUME SellerInvariant, ClientsInvariant, [Next]_vars, NEW c \in Clients,
           NEW step \in {"reorder", "ordering", "replaying", "delivering"}, Handle(c, step),
           FreeThreads # {}, NEW new \in OrderTask \cup DeliverTask,
           task' = [task EXCEPT ![FreeThread] = new], UNCHANGED quotes,
           client[c].step \in {"order", "reorder", "replay", "deliver"},
           client[c].step = "reorder" => step = "ordering",
           new.key = Job[c].key,
           IF new.kind = "order" THEN step # "delivering" ELSE step = "delivering",
           step \in {"reorder", "ordering"} => new.trade = OrderOf(c),
           Holds(c)'
    PROVE  ClientsInvariant'
<1> DEFINE free == FreeThread
<1>1. free \in Threads /\ task[free] = NoTask
  BY FreeThreadIsFree
<1>2. owner' = [owner EXCEPT ![free] = c]
  BY DEF Handle
<1>3. /\ client' \in [Clients -> Client] /\ client'[c].step = step
      /\ client'[c].price = client[c].price
      /\ \A d \in Clients : d # c => client'[d] = client[d]
  BY GoToTyped DEF Handle, Steps
<1>4. ClientsTypeOK'
  BY <1>1, <1>2, <1>3 DEF ClientsInvariant, ClientsTypeOK
<1>5. \A d \in Clients : Holds(d)'
  BY <1>3, OthersHold
<1>6. task'[free] = new /\ owner'[free] = c /\ new # NoTask
  BY <1>1, <1>2, NoValueAssumption
     DEF SellerInvariant, SellerTypeOK, ClientsInvariant, ClientsTypeOK
<1>7. \A t \in Threads \ {free} : task'[t] = task[t] /\ owner'[t] = owner[t]
  BY <1>1, <1>2 DEF SellerInvariant, SellerTypeOK, ClientsInvariant, ClientsTypeOK
<1>8. ASSUME NEW t \in Threads, owner[t] = c
      PROVE  client[c].step = "reorder" /\ step = "ordering"
  BY <1>8, WaitingSteps, ClientsAssumption
<1>9. new.kind \in {"order", "deliver"}
  BY DEF OrderTask, DeliverTask
<1>10. Answering'
  <2> SUFFICES ASSUME NEW t \in Threads, NEW d \in Clients, owner'[t] = d
               PROVE  Answers(t, d)'
    BY <1>4 DEF Answering, ClientsTypeOK
  <2>1. CASE t = free
    BY <2>1, <1>3, <1>6, <1>9 DEF Answers, OrderOf, Sends
  <2>2. CASE t # free
    <3>1. Answers(t, d) /\ task'[t] = task[t] /\ owner[t] = d
      BY <2>2, <1>7, WaitingSteps, ClientsAssumption
    <3>2. CASE d # c
      BY <3>1, <3>2, <1>3 DEF Answers, OrderOf, Sends
    <3>3. CASE d = c
      <4>1. client[c].step = "reorder" /\ step = "ordering"
        BY <3>1, <3>3, <1>8
      <4> QED BY <4>1, <3>1, <3>3, <1>3 DEF Answers, OrderOf, Sends
    <3> QED BY <3>2, <3>3
  <2> QED BY <2>1, <2>2
<1>11. OneAtATime'
  <2> SUFFICES ASSUME NEW s \in Threads, NEW t \in Threads, owner'[s] = owner'[t],
                      owner'[s] # NoClient,
                      client'[owner'[s]].step \in {"replaying", "delivering"}
               PROVE  s = t
    BY DEF OneAtATime
  <2>1. CASE owner'[s] = c
    BY <2>1, <1>3, <1>7, <1>8
  <2>2. CASE owner'[s] # c
    <3>1. owner'[s] = owner[s] /\ owner'[t] = owner[t]
      BY <2>2, <1>6, <1>7
    <3>2. client'[owner[s]] = client[owner[s]]
      BY <2>2, <3>1, <1>3, WaitingSteps
    <3> QED BY <3>1, <3>2 DEF ClientsInvariant, OneAtATime
  <2> QED BY <2>1, <2>2
<1> QED BY <1>4, <1>5, <1>10, <1>11 DEF ClientsInvariant

\* The order a handler is given is the one its client sends.
LEMMA SubmittedOrder ==
    ASSUME SellerInvariant, ClientsInvariant, NEW c \in Clients, NEW batch \in Batches,
           client[c].step \in QuoteSteps, SubmitOrder(c, batch)
    PROVE  \E new \in OrderTask :
              /\ task' = [task EXCEPT ![FreeThread] = new]
              /\ new.kind = "order" /\ new.key = Job[c].key /\ new.trade = Sends(c, batch)
<1> DEFINE q == client[c].quote
           new == [kind |-> "order", validated |-> FALSE, quote |-> q, key |-> Job[c].key,
                   trade |-> Sends(c, batch)]
<1>1. q \in QuoteIds /\ IsLive(q) /\ PriceAccepted(q, client[c].price)
  BY DEF ClientsInvariant, Holds, HasQuote, SubmitOrder, CheckOrder
<1>2. quotes[q].buyer = Job[c].buyer /\ quotes[q].service = Job[c].service
  BY <1>1 DEF ClientsInvariant, Holds, HasQuote, IsLive
<1>3. client[c].price \in Amounts
  BY <1>1, OrderPriceTyped
<1>4. Sends(c, batch) \in Trade
  BY <1>3, JobTyped DEF Sends, Trade
<1>5. new \in OrderTask
  BY <1>1, <1>4, JobTyped DEF OrderTask
<1>6. task' = [task EXCEPT ![FreeThread] = new]
  BY <1>2 DEF SubmitOrder, CheckOrder, Sends
<1> QED BY <1>5, <1>6

\* A client that moves on without a new quote or price keeps what it knows of them.
LEMMA MoverHolds ==
    ASSUME SellerInvariant, ClientsInvariant, [Next]_vars, NEW c \in Clients,
           client'[c].quote = client[c].quote, client'[c].price = client[c].price,
           UNCHANGED quotes,
           client'[c].step \in QuoteSteps => client[c].step \in QuoteSteps,
           client'[c].step \in ReceiptSteps =>
              client[c].step \in ReceiptSteps /\ client'[c].step # "done",
           c \in Commands => client'[c].step \notin {"negotiate", "reorder", "replay", "replaying"}
    PROVE  Holds(c)'
<1>1. Holds(c)
  BY DEF ClientsInvariant
<1>2. HasQuote(c)'
  BY <1>1 DEF Holds, HasQuote
<1>3. HasReceipt(c)'
  BY <1>1, OnRecordKept DEF Holds, HasReceipt
<1> QED BY <1>2, <1>3 DEF Holds, InRole

\* Both copies of an order and its changed replay.
LEMMA SendKeeps ==
    ASSUME SellerInvariant, ClientsInvariant, [Next]_vars, NEW c \in Clients,
           SendOrder(c) \/ SendOrderAgain(c) \/ SendChangedOrder(c)
    PROVE  ClientsInvariant'
<1>1. PICK batch \in Batches, step \in {"reorder", "ordering", "replaying"} :
        /\ SubmitOrder(c, batch) /\ Handle(c, step)
        /\ client[c].step \in {"order", "reorder", "replay"}
        /\ step = "replaying" <=> client[c].step = "replay"
        /\ client[c].step = "reorder" => step = "ordering"
        /\ step # "replaying" => batch = Job[c].input
        /\ step = "reorder" => c \notin Commands
  <2>1. CASE SendOrder(c)
    BY <2>1, JobTyped DEF SendOrder, At
  <2>2. CASE SendOrderAgain(c)
    BY <2>2, JobTyped DEF SendOrderAgain, At
  <2>3. CASE SendChangedOrder(c)
    BY <2>3, JobTyped DEF SendChangedOrder, At
  <2> QED BY <2>1, <2>2, <2>3
<1>2. PICK new \in OrderTask :
        /\ task' = [task EXCEPT ![FreeThread] = new]
        /\ new.kind = "order" /\ new.key = Job[c].key /\ new.trade = Sends(c, batch)
  BY <1>1, SubmittedOrder DEF QuoteSteps
<1>3. UNCHANGED quotes /\ FreeThreads # {}
  BY <1>1 DEF SubmitOrder, CheckOrder, sellerVars
<1>4. /\ client'[c].step = step /\ client'[c].quote = client[c].quote
      /\ client'[c].price = client[c].price
  BY <1>1, GoToTyped DEF Handle, Steps
<1>5. InRole(c)
  BY DEF ClientsInvariant, Holds
<1>6. Holds(c)'
  BY <1>1, <1>3, <1>4, <1>5, MoverHolds DEF QuoteSteps, ReceiptSteps, InRole
<1> QED BY <1>1, <1>2, <1>3, <1>6, HandleKeeps DEF OrderOf

\* A delivery is asked for by who has the receipt.
LEMMA SendDeliveryKeeps ==
    ASSUME SellerInvariant, ClientsInvariant, [Next]_vars, NEW c \in Clients,
           SendDelivery(c)
    PROVE  ClientsInvariant'
<1> DEFINE new == [kind |-> "deliver", validated |-> FALSE, key |-> Job[c].key,
                   trade |-> trades[Job[c].key]]
<1>1. /\ client[c].step = "deliver" /\ FreeThreads # {} /\ Handle(c, "delivering")
      /\ task' = [task EXCEPT ![FreeThread] = new] /\ UNCHANGED quotes
      /\ trades[Job[c].key] # NoTrade
  BY DEF SendDelivery, ReadTrade, At, sellerVars
<1>2. new \in DeliverTask
  BY <1>1, JobTyped DEF SellerInvariant, SellerTypeOK, LedgerTypeOK, DeliverTask
<1>3. /\ client'[c].step = "delivering" /\ client'[c].quote = client[c].quote
      /\ client'[c].price = client[c].price
  BY <1>1, GoToTyped DEF Handle, Steps
<1>4. Holds(c)'
  BY <1>1, <1>3, MoverHolds DEF QuoteSteps, ReceiptSteps
<1> QED BY <1>1, <1>2, <1>4, HandleKeeps

-----------------------------------------------------------------------------
(* Failures.                                                                 *)

\* Client c gives up or starts again, and no handler works for it.
LEMMA GoToKeeps ==
    ASSUME SellerInvariant, ClientsInvariant, [Next]_vars, NEW c \in Clients,
           NEW step \in {"quote", "failed", "refused"}, GoTo(c, step),
           UNCHANGED <<vars, owner>>,
           \A t \in Threads : owner[t] = c =>
              step # "quote" /\ (step = "failed" => c \notin Commands),
           client[c].step # "delivering"
    PROVE  ClientsInvariant'
<1>1. /\ client' \in [Clients -> Client] /\ client'[c].step = step
      /\ client'[c].quote = client[c].quote /\ client'[c].price = client[c].price
      /\ \A d \in Clients : d # c => client'[d] = client[d]
  BY GoToTyped DEF Steps
<1>2. ClientsTypeOK'
  BY <1>1 DEF ClientsInvariant, ClientsTypeOK
<1>3. UNCHANGED <<quotes, task>>
  BY DEF vars, sellerVars
<1>4. Holds(c)'
  BY <1>1, <1>3, MoverHolds DEF QuoteSteps, ReceiptSteps
<1>5. \A d \in Clients : Holds(d)'
  BY <1>1, <1>3, <1>4, OthersHold
<1>6. Answering'
  <2> SUFFICES ASSUME NEW t \in Threads, NEW d \in Clients, owner[t] = d
               PROVE  Answers(t, d)'
    BY <1>2 DEF Answering, ClientsTypeOK
  <2>1. Answers(t, d) /\ task[t].kind \in {"order", "deliver"}
    BY WaitingSteps, ClientsAssumption DEF OrderTask, DeliverTask
  <2>2. CASE d # c
    BY <2>1, <2>2, <1>1, <1>3 DEF Answers, OrderOf, Sends
  <2>3. CASE d = c
    BY <2>1, <2>3, <1>1, <1>3 DEF Answers
  <2> QED BY <2>2, <2>3
<1>7. OneAtATime'
  BY <1>1, <1>2 DEF ClientsInvariant, OneAtATime, ClientsTypeOK
<1> QED BY <1>2, <1>5, <1>6, <1>7 DEF ClientsInvariant

\* A refused order, and a command that is run again.
LEMMA GiveUpKeeps ==
    ASSUME SellerInvariant, ClientsInvariant, [Next]_vars, NEW c \in Clients,
           OrderNotAccepted(c) \/ RunAgain(c)
    PROVE  ClientsInvariant'
<1>1. ASSUME NEW t \in Threads, owner[t] = c
      PROVE  /\ client[c].step \in {"reorder", "ordering", "replaying", "refused",
                                    "failed", "delivering"}
             /\ client[c].step = "failed" => c \notin Commands
             /\ client[c].step = "reorder" => c \notin Commands
  <2>1. InRole(c)
    BY DEF ClientsInvariant, Holds
  <2> QED BY <1>1, <2>1, WaitingSteps, ClientsAssumption DEF Answers, InRole
<1>2. CASE OrderNotAccepted(c)
  <2>1. PICK step \in {"failed", "refused"} :
          /\ GoTo(c, step) /\ client[c].step \in {"order", "reorder", "replay"}
          /\ UNCHANGED <<vars, owner>>
    BY <1>2 DEF OrderNotAccepted, At
  <2> QED BY <2>1, <1>1, GoToKeeps
<1>3. CASE RunAgain(c)
  BY <1>1, <1>3, GoToKeeps DEF RunAgain, At
<1> QED BY <1>2, <1>3

\* Whoever waited for a lost exchange waits for nobody, and its command has failed.
LEMMA LoseExchangeKeeps ==
    ASSUME SellerInvariant, ClientsInvariant, [Next]_vars, NEW c \in Clients,
           LoseExchange(c)
    PROVE  ClientsInvariant'
<1>1. /\ client' \in [Clients -> Client] /\ client'[c].step = "failed"
      /\ client'[c].quote = client[c].quote /\ client'[c].price = client[c].price
      /\ \A d \in Clients : d # c => client'[d] = client[d]
  BY GoToTyped DEF LoseExchange, Steps
<1>2. owner' = [t \in Threads |-> IF owner[t] = c THEN NoClient ELSE owner[t]]
  BY DEF LoseExchange
<1>3. ClientsTypeOK'
  BY <1>1, <1>2 DEF ClientsInvariant, ClientsTypeOK
<1>4. UNCHANGED <<quotes, task>>
  BY DEF LoseExchange, vars, sellerVars
<1>5. Holds(c)'
  BY <1>1, <1>4, MoverHolds DEF QuoteSteps, ReceiptSteps
<1>6. \A d \in Clients : Holds(d)'
  BY <1>1, <1>4, <1>5, OthersHold
<1>7. \A t \in Threads : owner'[t] # NoClient =>
        owner'[t] = owner[t] /\ owner[t] \in Clients \ {c} /\ client'[owner[t]] = client[owner[t]]
  BY <1>1, <1>2, WaitingSteps
<1>8. Answering'
  <2> SUFFICES ASSUME NEW t \in Threads, NEW d \in Clients, owner'[t] = d, d # NoClient
               PROVE  Answers(t, d)'
    BY <1>3 DEF Answering, ClientsTypeOK
  <2>1. Answers(t, d) /\ client'[d] = client[d]
    BY <1>7, WaitingSteps
  <2> QED BY <2>1, <1>4 DEF Answers, OrderOf, Sends
<1>9. OneAtATime'
  BY <1>7 DEF ClientsInvariant, OneAtATime
<1> QED BY <1>3, <1>6, <1>8, <1>9 DEF ClientsInvariant

\* The clock moves no client.
LEMMA QuoteExpiresKeeps ==
    ASSUME SellerInvariant, ClientsInvariant, [Next]_vars, NEW c \in Clients,
           QuoteExpires(c)
    PROVE  ClientsInvariant'
<1>1. UNCHANGED <<client, owner, task>> /\ Expire(client[c].quote)
  BY DEF QuoteExpires, Expire
<1>2. client[c].quote \in QuoteIds
  BY DEF QuoteExpires, At, ClientsInvariant, Holds, HasQuote, QuoteSteps
<1>3. \A d \in Clients : Holds(d)'
  BY <1>1, <1>2, HoldsKept, NoQuoteAppears DEF ClientsInvariant
<1>4. ClientsTypeOK' /\ OneAtATime' /\ Answering'
  BY <1>1 DEF ClientsInvariant, ClientsTypeOK, OneAtATime, Answering, Answers, OrderOf, Sends
<1> QED BY <1>3, <1>4 DEF ClientsInvariant

\* After a restart nobody waits.
LEMMA ServiceRestartsKeeps ==
    ASSUME SellerInvariant, ClientsInvariant, [Next]_vars, ServiceRestarts
    PROVE  ClientsInvariant'
<1>1. /\ Restart
      /\ client' = [c \in Clients |-> IF Waiting(c) = {} THEN client[c]
                                      ELSE [client[c] EXCEPT !.step = "failed"]]
      /\ owner' = [t \in Threads |-> NoClient]
      /\ quotes' = [q \in QuoteIds |-> NoQuote]
  BY DEF ServiceRestarts, Restart, Forget
<1>2. ClientsTypeOK'
  <2>1. \A c \in Clients : client[c] \in Client /\ [client[c] EXCEPT !.step = "failed"] \in Client
    BY DEF ClientsInvariant, ClientsTypeOK, Client, Steps
  <2> QED BY <2>1, <1>1 DEF ClientsTypeOK
<1>3. ASSUME NEW c \in Clients PROVE Holds(c)'
  <2>1. CASE client'[c] = client[c]
    BY <2>1, <1>1, HoldsKept DEF ClientsInvariant
  <2>2. CASE client'[c] # client[c]
    <3>1. client'[c] = [client[c] EXCEPT !.step = "failed"]
      BY <2>2, <1>1
    <3>2. client'[c].step = "failed"
      BY <3>1 DEF ClientsInvariant, ClientsTypeOK, Client
    <3> QED BY <3>2 DEF Holds, HasQuote, HasReceipt, InRole, QuoteSteps, ReceiptSteps
  <2> QED BY <2>1, <2>2
<1>4. Answering' /\ OneAtATime'
  BY <1>1 DEF Answering, OneAtATime
<1> QED BY <1>2, <1>3, <1>4 DEF ClientsInvariant

-----------------------------------------------------------------------------
(* Answers.                                                                  *)

\* A handler ends and tells its client, if it still has one; another handler of the
\* same client works on only for a client that does not move or was refused.
LEMMA AnswerKeeps ==
    ASSUME SellerInvariant, ClientsInvariant, [Next]_vars, NEW t \in Threads,
           NEW step \in Steps, Answer(t, step),
           task' = [task EXCEPT ![t] = NoTask], UNCHANGED quotes,
           \A c \in Clients : owner[t] = c =>
              /\ Holds(c)'
              /\ \A s \in Threads \ {t} : owner[s] = c =>
                    step = client[c].step \/ step = "refused"
    PROVE  ClientsInvariant'
<1>1. owner' = [owner EXCEPT ![t] = NoClient]
  BY DEF Answer
<1>2. CASE owner[t] = NoClient
  <2>1. UNCHANGED <<client, owner>>
    BY <1>1, <1>2 DEF Answer, ClientsInvariant, ClientsTypeOK
  <2>2. \A d \in Clients : Holds(d)'
    BY <2>1, HoldsKept DEF ClientsInvariant
  <2>3. \A s \in Threads : owner[s] # NoClient => task'[s] = task[s]
    BY <1>2 DEF SellerInvariant, SellerTypeOK
  <2>4. Answering'
    BY <2>1, <2>3 DEF ClientsInvariant, Answering, Answers, OrderOf, Sends
  <2>5. ClientsTypeOK' /\ OneAtATime'
    BY <2>1 DEF ClientsInvariant, ClientsTypeOK, OneAtATime
  <2> QED BY <2>2, <2>4, <2>5 DEF ClientsInvariant
<1>3. CASE owner[t] # NoClient
  <2>1. PICK c \in Clients : owner[t] = c
    BY <1>3, WaitingSteps
  <2>2. /\ client' \in [Clients -> Client] /\ client'[c].step = step
        /\ client'[c].price = client[c].price
        /\ \A d \in Clients : d # c => client'[d] = client[d]
    <3>1. GoTo(c, step)
      BY <1>3, <2>1 DEF Answer, GoTo
    <3> QED BY <2>1, <3>1, GoToTyped
  <2>3. ClientsTypeOK'
    BY <1>1, <2>2 DEF ClientsInvariant, ClientsTypeOK
  <2>4. \A d \in Clients : Holds(d)'
    BY <2>1, <2>2, OthersHold
  <2>5. \A s \in Threads : owner'[s] # NoClient =>
          s # t /\ owner'[s] = owner[s] /\ task'[s] = task[s]
    BY <1>1 DEF ClientsInvariant, ClientsTypeOK, SellerInvariant, SellerTypeOK
  <2>6. Answering'
    <3> SUFFICES ASSUME NEW s \in Threads, NEW d \in Clients, owner'[s] = d, d # NoClient
                 PROVE  Answers(s, d)'
      BY <2>3 DEF Answering, ClientsTypeOK
    <3>1. /\ s # t /\ owner[s] = d /\ task'[s] = task[s]
          /\ Answers(s, d) /\ task[s].kind \in {"order", "deliver"}
      BY <2>5, WaitingSteps DEF OrderTask, DeliverTask
    <3>2. CASE d # c
      BY <3>1, <3>2, <2>2 DEF Answers, OrderOf, Sends
    <3>3. CASE d = c /\ step = client[c].step
      BY <3>1, <3>3, <2>2 DEF Answers, OrderOf, Sends
    <3>4. CASE d = c /\ step = "refused" /\ step # client[c].step
      <4>1. task[s].kind = "order"
        <5>1. client[c].step # "delivering"
          BY <1>3, <2>1, <3>1, <3>4 DEF ClientsInvariant, OneAtATime
        <5> QED BY <5>1, <3>1, <3>4 DEF Answers
      <4> QED BY <4>1, <3>1, <3>4, <2>2 DEF Answers
    <3> QED BY <2>1, <3>1, <3>2, <3>3, <3>4
  <2>7. OneAtATime'
    <3> SUFFICES ASSUME NEW r \in Threads, NEW s \in Threads, owner'[r] = owner'[s],
                        owner'[r] # NoClient,
                        client'[owner'[r]].step \in {"replaying", "delivering"}
                 PROVE  r = s
      BY DEF OneAtATime
    <3>1. /\ owner[r] = owner[s] /\ owner[r] # NoClient
          /\ r # t /\ owner'[r] = owner[r] /\ owner[r] \in Clients
      BY <2>5, WaitingSteps
    <3>2. client[owner[r]].step \in {"replaying", "delivering"}
      BY <2>1, <3>1, <2>2
    <3> QED BY <3>1, <3>2 DEF ClientsInvariant, OneAtATime
  <2> QED BY <2>3, <2>4, <2>6, <2>7 DEF ClientsInvariant
<1> QED BY <1>2, <1>3

\* validate_events passes: the handler goes on.
LEMMA ValidatedKeeps ==
    ASSUME SellerInvariant, ClientsInvariant, [Next]_vars, NEW t \in Threads, Validated(t)
    PROVE  ClientsInvariant'
<1>1. /\ UNCHANGED <<client, owner, quotes>>
      /\ task' = [task EXCEPT ![t].validated = TRUE] /\ task[t] # NoTask
  BY DEF Validated, ValidateTask, clientVars, sellerVars
<1>2. \A d \in Clients : Holds(d)'
  BY <1>1, HoldsKept DEF ClientsInvariant
<1>3. task[t] \in OrderTask \cup DeliverTask
  BY <1>1 DEF SellerInvariant, SellerTypeOK
<1>4. /\ [task[t] EXCEPT !.validated = TRUE] \in OrderTask \cup DeliverTask
      /\ [task[t] EXCEPT !.validated = TRUE].key = task[t].key
      /\ [task[t] EXCEPT !.validated = TRUE].kind = task[t].kind
      /\ [task[t] EXCEPT !.validated = TRUE].trade = task[t].trade
  BY <1>3 DEF OrderTask, DeliverTask
<1>5. \A s \in Threads : task[s] # NoTask =>
        /\ task'[s] # NoTask /\ task'[s].key = task[s].key
        /\ task'[s].kind = task[s].kind /\ task'[s].trade = task[s].trade
  BY <1>1, <1>4, NoValueAssumption DEF SellerInvariant, SellerTypeOK
<1>6. Answering'
  <2> SUFFICES ASSUME NEW s \in Threads, NEW d \in Clients, owner[s] = d, d # NoClient
               PROVE  Answers(s, d)'
    BY <1>1 DEF ClientsInvariant, ClientsTypeOK, Answering
  <2>1. Answers(s, d)
    BY WaitingSteps
  <2> QED BY <2>1, <1>1, <1>5 DEF Answers, OrderOf, Sends
<1>7. ClientsTypeOK' /\ OneAtATime'
  BY <1>1 DEF ClientsInvariant, ClientsTypeOK, OneAtATime
<1> QED BY <1>2, <1>6, <1>7 DEF ClientsInvariant

\* A conflict ends a changed replay as it should, and anything else in an error.
LEMMA RefusedEventsKeeps ==
    ASSUME SellerInvariant, ClientsInvariant, [Next]_vars, NEW t \in Threads,
           RefusedEvents(t)
    PROVE  ClientsInvariant'
<1> DEFINE step == AfterConflict(owner[t])
<1>1. /\ task' = [task EXCEPT ![t] = NoTask] /\ UNCHANGED quotes
      /\ Answer(t, step) /\ step \in {"deliver", "refused"}
  BY DEF RefusedEvents, RefuseTask, sellerVars, AfterConflict
<1>2. ASSUME NEW c \in Clients, owner[t] = c
      PROVE  /\ Holds(c)'
             /\ \A s \in Threads \ {t} : owner[s] = c => step = "refused"
  <2>1. GoTo(c, step)
    BY <1>1, <1>2, ClientsAssumption DEF Answer, GoTo
  <2>2. /\ client'[c].step = step /\ client'[c].quote = client[c].quote
        /\ client'[c].price = client[c].price
    BY <1>1, <2>1, GoToTyped DEF Steps
  <2>3. step = "deliver" => client[c].step = "replaying"
    BY <1>2 DEF AfterConflict
  <2>4. Holds(c)'
    BY <1>1, <2>2, <2>3, MoverHolds DEF QuoteSteps, ReceiptSteps
  <2> QED BY <1>1, <1>2, <2>3, <2>4, ClientsAssumption DEF ClientsInvariant, OneAtATime
<1>3. step \in Steps
  BY <1>1 DEF Steps
<1> HIDE DEF step
<1>4. \A c \in Clients : owner[t] = c =>
        /\ Holds(c)'
        /\ \A s \in Threads \ {t} : owner[s] = c => step = client[c].step \/ step = "refused"
  BY <1>2
<1>5. /\ task' = [task EXCEPT ![t] = NoTask] /\ UNCHANGED quotes /\ Answer(t, step)
  BY <1>1
<1> QED BY <1>3, <1>4, <1>5, AnswerKeeps

\* The receipt of an order says it is on record.
LEMMA OrderRecordedKeeps ==
    ASSUME SellerInvariant, ClientsInvariant, [Next]_vars, NEW t \in Threads,
           OrderRecorded(t)
    PROVE  ClientsInvariant'
<1> DEFINE same == SameOrder(task[t].key, task[t].trade)
           step == IF same THEN AfterReceipt(owner[t], t) ELSE AfterConflict(owner[t])
<1>1. /\ task[t] # NoTask /\ task[t].kind = "order" /\ Record(task[t].key, task[t].trade)
      /\ task' = [task EXCEPT ![t] = NoTask] /\ UNCHANGED quotes /\ Answer(t, step)
  BY DEF OrderRecorded, RecordOrder, sellerVars
<1>2. CASE owner[t] # NoClient
  <2> PICK c \in Clients : owner[t] = c
    BY <1>2, WaitingSteps
  <2>1. Answers(t, c) /\ task[t] \in OrderTask \cup DeliverTask
    BY <1>2, WaitingSteps
  <2>2. client[c].step \in {"reorder", "ordering", "replaying", "refused", "failed"}
    BY <1>1, <2>1 DEF Answers
  <2>3. \/ step = client[c].step /\ step # "ordering"
        \/ step = "ordering" /\ client[c].step = "ordering"
        \/ step = "refused"
        \/ step = "deliver" /\ client[c].step = "replaying"
        \/ /\ step \in {"deliver", "replay"} /\ client[c].step = "ordering" /\ same
           /\ Waiting(c) = {t} /\ (step = "replay" => c \notin Commands)
    BY <2>2 DEF AfterReceipt, AfterConflict
  <2> HIDE DEF step
  <2>4. step \in Steps
    BY <2>2, <2>3 DEF Steps
  <2>5. /\ client'[c].step = step /\ client'[c].quote = client[c].quote
        /\ client'[c].price = client[c].price
    <3>1. GoTo(c, step)
      BY <1>1, <1>2 DEF Answer, GoTo
    <3> QED BY <2>4, <3>1, GoToTyped
  <2>6. \A s \in Threads \ {t} : owner[s] = c => step = client[c].step \/ step = "refused"
    BY <1>2, <2>3 DEF Waiting, ClientsInvariant, OneAtATime
  <2>7. InRole(c)
    BY <2>1 DEF ClientsInvariant, Holds
  <2>8. Holds(c)'
    <3>1. CASE step \notin {"deliver", "replay"} \/ client[c].step = "replaying"
      BY <1>1, <2>1, <2>2, <2>3, <2>5, <2>7, <3>1, MoverHolds
         DEF QuoteSteps, ReceiptSteps, InRole
    <3>2. CASE step \in {"deliver", "replay"} /\ client[c].step = "ordering"
      <4>1. same /\ task[t].trade = OrderOf(c) /\ task[t].key = Job[c].key
        BY <2>1, <2>3, <3>2 DEF Answers
      <4>2. task[t].trade \in Trade /\ task[t].trade # NoTrade /\ Job[c].key \in OrderKeys
        BY <2>1, JobTyped, LedgerAssumption DEF OrderTask, DeliverTask
      <4>3. OrderOf(c)' = OrderOf(c)
        BY <2>5 DEF OrderOf, Sends
      <4>4. OnRecord(c)'
        <5>1. CASE trades[Job[c].key] = NoTrade
          <6>1. trades'[Job[c].key] = OrderOf(c)
            BY <1>1, <4>1, <4>2, <5>1 DEF Record, SellerInvariant, SellerTypeOK, LedgerTypeOK
          <6>2. [OrderOf(c) EXCEPT !.status = "accepted"] = OrderOf(c)
            BY DEF OrderOf, Sends
          <6> QED BY <4>1, <4>2, <4>3, <6>1, <6>2 DEF OnRecord
        <5>2. CASE trades[Job[c].key] # NoTrade
          BY <1>1, <4>1, <4>3, <5>2 DEF Record, SameOrder, OnRecord
        <5> QED BY <5>1, <5>2
      <4>5. HasQuote(c)'
        BY <1>1, <2>5, <3>2 DEF ClientsInvariant, Holds, HasQuote, QuoteSteps
      <4>6. HasReceipt(c)' /\ InRole(c)'
        BY <2>3, <2>5, <3>2, <4>4 DEF HasReceipt, InRole
      <4> QED BY <4>5, <4>6 DEF Holds
    <3> QED BY <2>2, <2>3, <3>1, <3>2
  <2>9. \A d \in Clients : owner[t] = d =>
          /\ Holds(d)'
          /\ \A s \in Threads \ {t} : owner[s] = d => step = client[d].step \/ step = "refused"
    BY <2>6, <2>8
  <2> QED BY <1>1, <2>4, <2>9, AnswerKeeps
<1>3. CASE owner[t] = NoClient
  <2>1. Answer(t, "failed") /\ "failed" \in Steps
    BY <1>1, <1>3 DEF Answer, Steps
  <2>2. \A c \in Clients : owner[t] # c
    BY <1>3, ClientsAssumption
  <2> HIDE DEF step
  <2> QED BY <1>1, <2>1, <2>2, AnswerKeeps
<1> QED BY <1>2, <1>3

\* A delivery that ended: the order on record is the client's, and delivered.
LEMMA DeliveredKeeps ==
    ASSUME SellerInvariant, ClientsInvariant, [Next]_vars, NEW t \in Threads, Delivered(t)
    PROVE  ClientsInvariant'
<1>1. /\ task[t] # NoTask /\ task[t].kind = "deliver" /\ Deliver(task[t].key)
      /\ task' = [task EXCEPT ![t] = NoTask] /\ UNCHANGED quotes /\ Answer(t, "done")
  BY DEF Delivered, UpdateStatus, sellerVars
<1>2. ASSUME NEW c \in Clients, owner[t] = c
      PROVE  /\ Holds(c)'
             /\ \A s \in Threads \ {t} : owner[s] # c
  <2>1. Answers(t, c) /\ c # NoClient
    BY <1>2, WaitingSteps, ClientsAssumption
  <2>2. client[c].step = "delivering" /\ task[t].key = Job[c].key
    BY <1>1, <2>1 DEF Answers
  <2>3. client'[c].step = "done" /\ client'[c].price = client[c].price
    <3>1. GoTo(c, "done")
      BY <1>1, <1>2, <2>1 DEF Answer, GoTo
    <3> QED BY <3>1, GoToTyped DEF Steps
  <2>4. OnRecord(c)
    BY <2>2 DEF ClientsInvariant, Holds, HasReceipt, ReceiptSteps
  <2>5. OnRecord(c)'
    BY <2>3, <2>4, OnRecordKept
  <2>6. trades'[Job[c].key].status = "delivered"
    <3>1. Job[c].key \in OrderKeys
      BY JobTyped
    <3>2. trades[Job[c].key] \in Trade
      BY <3>1, <2>4 DEF OnRecord, SellerInvariant, SellerTypeOK, LedgerTypeOK
    <3>3. trades'[Job[c].key] = [trades[Job[c].key] EXCEPT !.status = "delivered"]
      BY <1>1, <2>2, <3>1 DEF Deliver, SellerInvariant, SellerTypeOK, LedgerTypeOK
    <3> QED BY <3>2, <3>3 DEF Trade
  <2>7. Holds(c)'
    BY <2>3, <2>5, <2>6 DEF Holds, HasQuote, HasReceipt, InRole, QuoteSteps
  <2> QED BY <1>2, <2>1, <2>2, <2>7 DEF ClientsInvariant, OneAtATime
<1>3. \A c \in Clients : owner[t] = c =>
        /\ Holds(c)'
        /\ \A s \in Threads \ {t} : owner[s] = c =>
              "done" = client[c].step \/ "done" = "refused"
  BY <1>2
<1> QED BY <1>1, <1>3, AnswerKeeps DEF Steps

-----------------------------------------------------------------------------
(* The clients' invariant, and what a client is told of its order.           *)

LEMMA ClientsInitial == ClientsInit => SellerInvariant /\ ClientsInvariant
<1> SUFFICES ASSUME ClientsInit PROVE SellerInvariant /\ ClientsInvariant
  OBVIOUS
<1>1. SellerInvariant
  BY SellerInit DEF ClientsInit
<1>2. ClientsTypeOK
  BY DEF ClientsInit, ClientsTypeOK, Client, Steps
<1>3. \A c \in Clients : Holds(c)
  BY DEF ClientsInit, Holds, HasQuote, HasReceipt, InRole, QuoteSteps, ReceiptSteps
<1>4. Answering /\ OneAtATime
  BY DEF ClientsInit, Answering, OneAtATime
<1> QED BY <1>1, <1>2, <1>3, <1>4 DEF ClientsInvariant

LEMMA ClientsNextKeeps ==
    SellerInvariant /\ ClientsInvariant /\ [ClientsNext]_clientsVars
        => [Next]_vars /\ SellerInvariant' /\ ClientsInvariant'
<1> SUFFICES ASSUME SellerInvariant, ClientsInvariant, [ClientsNext]_clientsVars
             PROVE  [Next]_vars /\ SellerInvariant' /\ ClientsInvariant'
  OBVIOUS
<1>1. [Next]_vars
  BY ClientsUseNext
<1>2. SellerInvariant'
  BY <1>1, SellerNext
<1>3. ASSUME NEW c \in Clients, ClientStep(c) PROVE ClientsInvariant'
  <2>1. CASE AskQuote(c)
    BY <2>1, <1>1, AskQuoteKeeps
  <2>2. CASE OfferReservation(c)
    BY <2>2, <1>1, OfferReservationKeeps
  <2>3. CASE SendOrder(c) \/ SendOrderAgain(c) \/ SendChangedOrder(c)
    BY <2>3, <1>1, SendKeeps
  <2>4. CASE OrderNotAccepted(c)
    BY <2>4, <1>1, GiveUpKeeps
  <2>5. CASE SendDelivery(c)
    BY <2>5, <1>1, SendDeliveryKeeps
  <2> QED BY <1>3, <2>1, <2>2, <2>3, <2>4, <2>5 DEF ClientStep
<1>4. ASSUME NEW c \in Clients, LoseExchange(c) \/ QuoteExpires(c) \/ RunAgain(c)
      PROVE  ClientsInvariant'
  BY <1>1, <1>4, LoseExchangeKeeps, QuoteExpiresKeeps, GiveUpKeeps
<1>5. ASSUME NEW t \in Threads, Handler(t) PROVE ClientsInvariant'
  BY <1>1, <1>5, ValidatedKeeps, RefusedEventsKeeps, OrderRecordedKeeps, DeliveredKeeps
     DEF Handler
<1>6. ASSUME ServiceRestarts PROVE ClientsInvariant'
  BY <1>1, <1>6, ServiceRestartsKeeps
<1>7. ASSUME UNCHANGED clientsVars PROVE ClientsInvariant'
  <2>1. UNCHANGED <<client, owner, task, quotes>>
    BY <1>7 DEF clientsVars, clientVars, vars, sellerVars
  <2>2. \A c \in Clients : Holds(c)'
    BY <1>1, <2>1, HoldsKept DEF ClientsInvariant
  <2>3. ClientsTypeOK' /\ Answering' /\ OneAtATime'
    BY <2>1 DEF ClientsInvariant, ClientsTypeOK, Answering, Answers, OneAtATime, OrderOf, Sends
  <2> QED BY <2>2, <2>3 DEF ClientsInvariant
<1> QED BY <1>1, <1>2, <1>3, <1>4, <1>5, <1>6, <1>7 DEF ClientsNext

\* The inductive invariant of the clients and the service holds in every reachable state.
THEOREM ClientsInvariance == ClientsSpec => [](SellerInvariant /\ ClientsInvariant)
<1>1. SellerInvariant /\ ClientsInvariant /\ [ClientsNext]_clientsVars
        => (SellerInvariant /\ ClientsInvariant)'
  BY ClientsNextKeeps
<1> QED BY <1>1, ClientsInitial, PTL DEF ClientsSpec

\* The composition is the service used by clients of its own: every behaviour of it is
\* one of SellerApi, whose theorems thus hold of it (client_cli.py and seller_harness.py
\* send what api.py accepts).
THEOREM ClientsUseTheService == ClientsSpec => Spec
<1>1. ClientsInit => Init
  BY DEF ClientsInit
<1>2. SellerInvariant /\ ClientsInvariant /\ [ClientsNext]_clientsVars => [Next]_vars
  BY ClientsNextKeeps
<1> QED BY <1>1, <1>2, ClientsInvariance, PTL DEF ClientsSpec, Spec

\* What a client was told is delivered is on record as delivered, at the price it knows
\* and with the input it sent first, whoever else ordered, retried or replayed.
THEOREM DeliveredIsOnRecord == ClientsSpec => []DoneMeansDelivered
<1>1. SellerInvariant /\ ClientsInvariant => DoneMeansDelivered
  <2> SUFFICES ASSUME SellerInvariant, ClientsInvariant, NEW c \in Clients,
                      client[c].step = "done"
               PROVE  trades[Job[c].key] = [OrderOf(c) EXCEPT !.status = "delivered"]
    BY DEF DoneMeansDelivered, OrderOf, Sends
  <2> DEFINE trade == trades[Job[c].key]
  <2>1. OnRecord(c) /\ trade.status = "delivered"
    BY DEF ClientsInvariant, Holds, HasReceipt, ReceiptSteps
  <2>2. trade \in Trade
    BY <2>1, JobTyped DEF OnRecord, SellerInvariant, SellerTypeOK, LedgerTypeOK
  <2>3. [trade EXCEPT !.status = "accepted"] = OrderOf(c)
    BY <2>1 DEF OnRecord
  <2>4. trade = [[trade EXCEPT !.status = "accepted"] EXCEPT !.status = "delivered"]
    BY <2>1, <2>2 DEF Trade
  <2> QED BY <2>3, <2>4
<1> QED BY <1>1, ClientsInvariance, PTL

-----------------------------------------------------------------------------
(* Whom the service serves.                                                  *)
(*                                                                           *)
(* A second invariant, for what a client may be answered: the price of every *)
(* client's order and the input on record under its key are settled by its   *)
(* job alone, so no attempt of it can meet another order under its key.      *)

\* The price at which c orders.
AskedPrice(c) == Least(Job[c].budget, Greatest(FloorPrice, BasePrice))
FinalPrice(c) == IF c \in Commands THEN AskedPrice(c) ELSE FloorPrice

\* The order of c, with the input it sends first or changes.
With(c, events) ==
    [buyer |-> Job[c].buyer, service |-> Job[c].service, amount |-> FinalPrice(c),
     events |-> events, status |-> "accepted"]
Ordered(c) == With(c, Job[c].input)
Replayed(c) == With(c, Job[c].changed)

\* Nobody shares a quote, and nobody's offer is declined.
QuotesApart ==
    /\ closed = {}
    /\ \A c, d \in Clients :
        client[c].quote = client[d].quote /\ client[c].quote # NoQuote => c = d

\* While c uses its quote, the price it expects is the one the service does.
Priced(c) ==
    client[c].step \in QuoteSteps =>
        LET q == client[c].quote IN
        /\ inProcess => IsLive(q)
        /\ IF client[c].step = "negotiate" THEN agreed[q] = NoPrice
           ELSE /\ client[c].price = FinalPrice(c)
                /\ quotes[q] # NoQuote => ExpectedPrice(q) = FinalPrice(c)

\* Only the world that runs moves; a command is refused for its events alone, and no
\* harness buyer at all.
Standing(c) ==
    /\ c \notin Present => client[c].step = "quote"
    /\ client[c].step = "refused" => c \in Commands /\ Contradicts(c)
    /\ client[c].step = "failed" => c \in Commands

\* A handler works on a job of this world; a changed replay is of an order on record.
WorksFor(u, c) ==
    /\ u.key = Job[c].key
    /\ u.kind = "deliver" => u.trade.events = Job[c].input
    /\ u.kind = "order" =>
        \/ u.trade = Ordered(c)
        \/ c \in HarnessBuyers /\ u.trade = Replayed(c) /\ trades[u.key] # NoTrade

TasksOfJobs == \A t \in Threads : task[t] # NoTask => \E c \in Present : WorksFor(task[t], c)

ReplaysAwaited ==
    \A t \in Threads : owner[t] # NoClient /\ client[owner[t]].step = "replaying"
                        => task[t].trade = Replayed(owner[t])

\* An order on record is of a job of this world.
OrdersOfJobs ==
    \A k \in OrderKeys : trades[k] # NoTrade =>
        \E c \in Present : /\ k = Job[c].key
                           /\ [trades[k] EXCEPT !.status = "accepted"] = Ordered(c)

\* No identity on record contradicts an event of the harness.
EventsAgree ==
    inProcess => \A e \in HarnessEvents : identities[e.key] \in {NoContent, e.content}

ServedInvariant ==
    /\ inProcess \in BOOLEAN
    /\ QuotesApart
    /\ \A c \in Clients : Priced(c) /\ Standing(c)
    /\ TasksOfJobs
    /\ ReplaysAwaited
    /\ OrdersOfJobs
    /\ EventsAgree

\* Both invariants and the service's.
Invariants == SellerInvariant /\ ClientsInvariant /\ ServedInvariant

-----------------------------------------------------------------------------
(* Events.                                                                   *)

\* Events of the harness never conflict.
LEMMA HarnessNeverConflicts ==
    ASSUME EventsAgree, inProcess, NEW batch \in SUBSET HarnessEvents
    PROVE  ConflictsOf(batch) = {}
<1> SUFFICES ASSUME NEW c \in ConflictsOf(batch) PROVE FALSE
  OBVIOUS
<1> DEFINE e == [key |-> c[1], content |-> c[3]]
<1>1. e \in HarnessEvents /\ c[2] \in Previous(c[1], batch) \ {c[3]}
  BY DEF ConflictsOf
<1>2. identities[c[1]] \in {NoContent, c[3]}
  BY <1>1 DEF EventsAgree
<1>3. identities[c[1]] = NoContent
  BY <1>1, <1>2 DEF Previous
<1>4. PICK d \in batch : d.key = c[1] /\ d.content = c[2]
  BY <1>1, <1>3 DEF Previous
<1>5. d = e
  BY <1>1, <1>4, JobsAssumption
<1> QED BY <1>1, <1>4, <1>5

\* A conflict stays one: no identity on record is rewritten.
LEMMA ConflictsPersist ==
    ASSUME LedgerTypeOK, NEW batch \in SUBSET Event, NEW other \in SUBSET Event,
           ConflictsOf(batch) # {}, Register(other)
    PROVE  ConflictsOf(batch)' # {}
<1>1. PICK c \in ConflictsOf(batch) : TRUE
  OBVIOUS
<1> DEFINE key == c[1]  was == c[2]  is == c[3]
<1>2. /\ key \in EventKeys /\ was \in Contents /\ is \in Contents /\ was # is
      /\ [key |-> key, content |-> is] \in batch
      /\ was \in Previous(key, batch)
  BY <1>1 DEF ConflictsOf
<1>3. LedgerTypeOK' /\ \A events \in SUBSET Event : Registered(events) => Registered(events)'
  BY RegisterKeepsIdentities
<1>4. identities'[key] \in Contents \cup {NoContent}
  BY <1>2, <1>3 DEF LedgerTypeOK
<1>5. CASE identities[key] # NoContent
  <2>1. was = identities[key]
    BY <1>2, <1>5 DEF Previous
  <2>2. Registered({[key |-> key, content |-> was]})
    BY <2>1 DEF Registered
  <2>3. {[key |-> key, content |-> was]} \in SUBSET Event
    BY <1>2 DEF Event
  <2>4. identities'[key] = was
    BY <1>3, <2>2, <2>3 DEF Registered
  <2>5. was \in Previous(key, batch)'
    BY <1>2, <2>4, LedgerAssumption DEF Previous
  <2>6. <<key, was, is>> \in ConflictsOf(batch)'
    BY <1>2, <2>5 DEF ConflictsOf
  <2> QED BY <2>6
<1>6. CASE identities[key] = NoContent
  <2>1. PICK d \in batch : d.key = key /\ d.content = was
    BY <1>2, <1>6 DEF Previous
  <2>2. d = [key |-> key, content |-> was]
    BY <2>1 DEF Event
  <2>3. CASE identities'[key] = NoContent
    <3>1. was \in Previous(key, batch)'
      BY <2>1, <2>3 DEF Previous
    <3>2. <<key, was, is>> \in ConflictsOf(batch)'
      BY <1>2, <3>1 DEF ConflictsOf
    <3> QED BY <3>2
  <2>4. CASE identities'[key] # NoContent /\ identities'[key] # is
    <3>1. identities'[key] \in Previous(key, batch)'
      BY <2>4 DEF Previous
    <3>2. <<key, identities'[key], is>> \in ConflictsOf(batch)'
      BY <1>2, <1>4, <2>4, <3>1 DEF ConflictsOf
    <3> QED BY <3>2
  <2>5. CASE identities'[key] = is
    <3>1. is \in Previous(key, batch)'
      BY <1>2, <2>5, LedgerAssumption DEF Previous
    <3>2. <<key, is, was>> \in ConflictsOf(batch)'
      BY <1>2, <2>1, <2>2, <3>1 DEF ConflictsOf
    <3> QED BY <3>2
  <2> QED BY <2>3, <2>4, <2>5
<1> QED BY <1>5, <1>6

-----------------------------------------------------------------------------
(* Tasks and orders.                                                         *)

LEMMA PresentKeys ==
    ASSUME NEW c \in Present, NEW d \in Present, Job[c].key = Job[d].key
    PROVE  c = d /\ c \in Clients
BY JobsAssumption DEF Present, Clients

\* Who waits for a handler is present, and the handler works on its job.
LEMMA WaiterPresent ==
    ASSUME Invariants, NEW t \in Threads, NEW c \in Clients, owner[t] = c
    PROVE  c \in Present /\ WorksFor(task[t], c)
<1>1. /\ Answers(t, c) /\ client[c].step \in {"reorder", "ordering", "replaying", "refused",
                                              "failed", "delivering"}
  BY WaitingSteps, ClientsAssumption DEF Invariants
<1>2. c \in Present
  BY <1>1 DEF Invariants, ServedInvariant, Standing
<1>3. PICK d \in Present : WorksFor(task[t], d)
  BY <1>1 DEF Invariants, ServedInvariant, TasksOfJobs, Answers
<1>4. d = c
  BY <1>1, <1>2, <1>3, PresentKeys DEF Answers, WorksFor
<1> QED BY <1>2, <1>3, <1>4

\* What the handlers and the ledger hold, of this world's jobs.
ServiceServes == TasksOfJobs /\ OrdersOfJobs /\ EventsAgree

\* The ledger is left alone, and a task that is new is of a job.
LEMMA TasksServe ==
    ASSUME Invariants, UNCHANGED <<trades, identities, inProcess>>,
           \A t \in Threads : task'[t] \in {NoTask, task[t]}
                              \/ \E c \in Present : WorksFor(task'[t], c)
    PROVE  ServiceServes'
<1>1. Present' = Present
  BY DEF Present
<1>2. \A u, c : WorksFor(u, c) => WorksFor(u, c)'
  BY DEF WorksFor, Ordered, Replayed, With, FinalPrice, AskedPrice
<1>3. TasksOfJobs'
  BY <1>1, <1>2 DEF Invariants, ServedInvariant, TasksOfJobs
<1>4. OrdersOfJobs' /\ EventsAgree'
  BY <1>1 DEF Invariants, ServedInvariant, OrdersOfJobs, EventsAgree, Ordered, With
<1> QED BY <1>3, <1>4 DEF ServiceServes

\* A client sends the order of its job.
LEMMA SendServes ==
    ASSUME Invariants, NEW c \in Clients,
           SendOrder(c) \/ SendOrderAgain(c) \/ SendChangedOrder(c)
    PROVE  /\ ServiceServes'
           /\ \A t \in Threads : owner'[t] # owner[t] /\ client'[c].step = "replaying"
                                  => task'[t].trade = Replayed(c)
<1>1. PICK batch \in Batches :
        /\ SubmitOrder(c, batch) /\ c \in Present
        /\ client[c].step \in {"order", "reorder", "replay"}
        /\ IF client[c].step = "replay" THEN batch = Job[c].changed ELSE batch = Job[c].input
  BY JobTyped DEF SendOrder, SendOrderAgain, SendChangedOrder, At
<1>2. PICK new \in OrderTask :
        /\ task' = [task EXCEPT ![FreeThread] = new]
        /\ new.kind = "order" /\ new.key = Job[c].key /\ new.trade = Sends(c, batch)
  BY <1>1, SubmittedOrder DEF Invariants, QuoteSteps
<1>3. client[c].price = FinalPrice(c)
  BY <1>1 DEF Invariants, ServedInvariant, Priced, QuoteSteps
<1>4. new.trade = With(c, batch)
  BY <1>2, <1>3 DEF Sends, With
<1>5. client[c].step = "replay" => c \in HarnessBuyers /\ trades[Job[c].key] # NoTrade
  BY DEF Invariants, ClientsInvariant, Holds, HasReceipt, OnRecord, InRole, ReceiptSteps,
         Clients
<1>6. WorksFor(new, c)
  BY <1>1, <1>2, <1>4, <1>5 DEF WorksFor, Ordered, Replayed
<1>7. FreeThread \in Threads /\ UNCHANGED <<trades, identities, inProcess>>
  BY <1>1, FreeThreadIsFree
     DEF SubmitOrder, CheckOrder, SendOrder, SendOrderAgain, SendChangedOrder, Handle, ledgerVars
<1>8. \A t \in Threads : task'[t] = IF t = FreeThread THEN new ELSE task[t]
  BY <1>2, <1>7 DEF Invariants, SellerInvariant, SellerTypeOK
<1>9. ServiceServes'
  BY <1>1, <1>6, <1>7, <1>8, TasksServe
<1>10. ASSUME NEW t \in Threads, owner'[t] # owner[t], client'[c].step = "replaying"
       PROVE  task'[t].trade = Replayed(c)
  <2>1. t = FreeThread
    BY <1>7, <1>10 DEF SendOrder, SendOrderAgain, SendChangedOrder, Handle, Invariants,
                       ClientsInvariant, ClientsTypeOK
  <2>2. client[c].step = "replay"
    BY <1>10, GoToTyped DEF SendOrder, SendOrderAgain, SendChangedOrder, Handle, Invariants,
                            At, Steps
  <2> QED BY <1>1, <1>4, <1>8, <2>1, <2>2 DEF Replayed
<1> QED BY <1>9, <1>10

\* A delivery is of the order on record, hence of the input its client sent.
LEMMA SendDeliveryServes ==
    ASSUME Invariants, NEW c \in Clients, SendDelivery(c)
    PROVE  ServiceServes'
<1> DEFINE new == [kind |-> "deliver", validated |-> FALSE, key |-> Job[c].key,
                   trade |-> trades[Job[c].key]]
<1>1. /\ c \in Present /\ client[c].step = "deliver" /\ FreeThread \in Threads
      /\ task' = [task EXCEPT ![FreeThread] = new]
      /\ UNCHANGED <<trades, identities, inProcess>>
  BY FreeThreadIsFree DEF SendDelivery, ReadTrade, At, Handle, ledgerVars
<1>2. OnRecord(c)
  BY <1>1 DEF Invariants, ClientsInvariant, Holds, HasReceipt, ReceiptSteps
<1>3. trades[Job[c].key] \in Trade
  BY <1>2, JobTyped DEF OnRecord, Invariants, SellerInvariant, SellerTypeOK, LedgerTypeOK
<1>4. trades[Job[c].key].events = Job[c].input
  <2>1. [trades[Job[c].key] EXCEPT !.status = "accepted"].events = trades[Job[c].key].events
    BY <1>3 DEF Trade
  <2> QED BY <2>1, <1>2 DEF OnRecord, OrderOf, Sends
<1>5. WorksFor(new, c)
  BY <1>4 DEF WorksFor
<1>6. \A t \in Threads : task'[t] = IF t = FreeThread THEN new ELSE task[t]
  BY <1>1 DEF Invariants, SellerInvariant, SellerTypeOK
<1> QED BY <1>1, <1>5, <1>6, TasksServe

\* Events that are validated are some job's, hence the harness's when it runs.
LEMMA ValidatedServes ==
    ASSUME Invariants, NEW t \in Threads, Validated(t)
    PROVE  ServiceServes'
<1>1. /\ task[t] # NoTask /\ Register(Range(task[t].trade.events))
      /\ task' = [task EXCEPT ![t].validated = TRUE] /\ UNCHANGED <<trades, inProcess>>
  BY DEF Validated, ValidateTask, clientVars, Register
<1>2. Present' = Present
  BY <1>1 DEF Present
<1>3. task[t] \in OrderTask \cup DeliverTask
  BY <1>1 DEF Invariants, SellerInvariant, SellerTypeOK
<1>4. /\ [task[t] EXCEPT !.validated = TRUE].key = task[t].key
      /\ [task[t] EXCEPT !.validated = TRUE].kind = task[t].kind
      /\ [task[t] EXCEPT !.validated = TRUE].trade = task[t].trade
  BY <1>3 DEF OrderTask, DeliverTask
<1>5. ASSUME NEW s \in Threads, NEW c \in Present, task[s] # NoTask, WorksFor(task[s], c)
      PROVE  WorksFor(task[s], c)'
  <2>1. /\ task'[s].key = task[s].key /\ task'[s].kind = task[s].kind
        /\ task'[s].trade = task[s].trade
    BY <1>1, <1>4 DEF Invariants, SellerInvariant, SellerTypeOK
  <2> QED BY <1>1, <1>5, <2>1 DEF WorksFor, Ordered, Replayed, With, FinalPrice, AskedPrice
<1>6. TasksOfJobs'
  BY <1>1, <1>2, <1>5 DEF Invariants, ServedInvariant, TasksOfJobs, SellerInvariant, SellerTypeOK
<1>7. OrdersOfJobs'
  BY <1>1, <1>2 DEF Invariants, ServedInvariant, OrdersOfJobs, Ordered, With
<1>8. EventsAgree'
  <2> SUFFICES ASSUME inProcess, NEW e \in HarnessEvents
               PROVE  identities'[e.key] \in {NoContent, e.content}
    BY <1>1 DEF EventsAgree
  <2> DEFINE batch == Range(task[t].trade.events)
  <2>1. PICK c \in HarnessBuyers : WorksFor(task[t], c)
    BY <1>1 DEF Invariants, ServedInvariant, TasksOfJobs, Present
  <2>2. batch \in SUBSET HarnessEvents /\ batch \in SUBSET Event
    <3>1. task[t].kind \in {"order", "deliver"} /\ task[t].trade.events \in Batches
      BY <1>3 DEF OrderTask, DeliverTask, Trade
    <3>2. task[t].trade.events \in {Job[c].input, Job[c].changed}
      BY <2>1, <3>1 DEF WorksFor, Ordered, Replayed, With
    <3> QED BY <3>1, <3>2, EventsOfBatch DEF HarnessEvents
  <2>3. e \in Event
    BY JobTyped, EventsOfBatch DEF HarnessEvents, Clients
  <2>4. identities[e.key] \in {NoContent, e.content}
    BY DEF Invariants, ServedInvariant, EventsAgree
  <2>5. \/ identities'[e.key] = identities[e.key]
        \/ \E d \in batch : d.key = e.key /\ identities'[e.key] = d.content
    <3>1. e.key \in EventKeys
      BY <2>3 DEF Event
    <3>2. CASE \E d \in batch : d.key = e.key
      <4>1. PICK d \in batch : d.key = e.key
        BY <3>2
      <4>2. \A f \in batch : f.key = e.key => f.content = d.content
        BY <2>2, <4>1, JobsAssumption
      <4> QED BY <1>1, <3>1, <4>1, <4>2 DEF Register
    <3>3. CASE ~\E d \in batch : d.key = e.key
      BY <1>1, <3>1, <3>3 DEF Register
    <3> QED BY <3>2, <3>3
  <2> QED BY <2>2, <2>4, <2>5, JobsAssumption
<1> QED BY <1>6, <1>7, <1>8 DEF ServiceServes

\* Tasks end, and orders on record stay what they are.
LEMMA EndedServes ==
    ASSUME Invariants, UNCHANGED <<identities, inProcess>>,
           \A t \in Threads : task'[t] \in {NoTask, task[t]},
           \A k \in OrderKeys : trades[k] # NoTrade => trades'[k] # NoTrade,
           OrdersOfJobs'
    PROVE  ServiceServes'
<1>1. Present' = Present
  BY DEF Present
<1>2. ASSUME NEW t \in Threads, NEW c \in Present, task'[t] = task[t], task[t] # NoTask,
             WorksFor(task[t], c)
      PROVE  WorksFor(task[t], c)'
  <2>1. task[t].key \in OrderKeys
    BY <1>2 DEF Invariants, SellerInvariant, SellerTypeOK, OrderTask, DeliverTask
  <2> QED BY <1>2, <2>1 DEF WorksFor, Ordered, Replayed, With, FinalPrice, AskedPrice
<1>3. TasksOfJobs'
  BY <1>1, <1>2 DEF Invariants, ServedInvariant, TasksOfJobs
<1>4. EventsAgree'
  BY DEF Invariants, ServedInvariant, EventsAgree
<1> QED BY <1>3, <1>4 DEF ServiceServes

\* What RecordOrder writes is the order of a job: a replay finds the order it changed.
LEMMA OrderRecordedServes ==
    ASSUME Invariants, NEW t \in Threads, OrderRecorded(t)
    PROVE  ServiceServes'
<1> DEFINE u == task[t]
<1>1. /\ u # NoTask /\ u.kind = "order" /\ Record(u.key, u.trade)
      /\ task' = [task EXCEPT ![t] = NoTask] /\ UNCHANGED <<identities, inProcess>>
  BY DEF OrderRecorded, RecordOrder, Record, Answer
<1>2. u \in OrderTask
  BY <1>1 DEF Invariants, SellerInvariant, SellerTypeOK, DeliverTask
<1>3. u.key \in OrderKeys /\ u.trade \in Trade /\ u.trade # NoTrade
  BY <1>2, LedgerAssumption DEF OrderTask
<1>4. PICK c \in Present : WorksFor(u, c)
  BY <1>1 DEF Invariants, ServedInvariant, TasksOfJobs
<1>5. Present' = Present
  BY <1>1 DEF Present
<1>6. OrdersOfJobs'
  <2> SUFFICES ASSUME NEW k \in OrderKeys, trades'[k] # NoTrade
               PROVE  \E d \in Present : /\ k = Job[d].key
                                        /\ [trades'[k] EXCEPT !.status = "accepted"] = Ordered(d)
    BY <1>5 DEF OrdersOfJobs, Ordered, With, FinalPrice, AskedPrice
  <2>1. CASE trades'[k] = trades[k]
    BY <2>1 DEF Invariants, ServedInvariant, OrdersOfJobs
  <2>2. CASE trades'[k] # trades[k]
    <3>1. k = u.key /\ trades'[k] = u.trade /\ trades[k] = NoTrade
      BY <1>1, <1>3, <2>2 DEF Record, Invariants, SellerInvariant, SellerTypeOK, LedgerTypeOK
    <3>2. u.trade = Ordered(c) /\ k = Job[c].key
      BY <1>1, <1>4, <3>1 DEF WorksFor
    <3>3. [Ordered(c) EXCEPT !.status = "accepted"] = Ordered(c)
      BY DEF Ordered, With
    <3> QED BY <3>1, <3>2, <3>3
  <2> QED BY <2>1, <2>2
<1>7. \A k \in OrderKeys : trades[k] # NoTrade => trades'[k] # NoTrade
  BY <1>1, <1>3 DEF Record, Invariants, SellerInvariant, SellerTypeOK, LedgerTypeOK
<1>8. \A s \in Threads : task'[s] \in {NoTask, task[s]}
  BY <1>1 DEF Invariants, SellerInvariant, SellerTypeOK
<1> QED BY <1>1, <1>6, <1>7, <1>8, EndedServes

\* A delivery changes the status of an order, which no order is compared by.
LEMMA DeliveredServes ==
    ASSUME Invariants, NEW t \in Threads, Delivered(t)
    PROVE  ServiceServes'
<1> DEFINE u == task[t]
           delivered == [trades[u.key] EXCEPT !.status = "delivered"]
<1>1. /\ u # NoTask /\ u.kind = "deliver"
      /\ trades' = [trades EXCEPT ![u.key] = delivered]
      /\ task' = [task EXCEPT ![t] = NoTask] /\ UNCHANGED <<identities, inProcess>>
  BY DEF Delivered, UpdateStatus, Deliver, Answer
<1>2. u.key \in OrderKeys
  BY <1>1 DEF Invariants, SellerInvariant, SellerTypeOK, OrderTask, DeliverTask
<1>3. trades[u.key] # NoTrade /\ trades[u.key] \in Trade
  BY <1>1, <1>2 DEF Invariants, SellerInvariant, SellerTypeOK, LedgerTypeOK, DeliveriesKnown
<1>4. /\ [delivered EXCEPT !.status = "accepted"] = [trades[u.key] EXCEPT !.status = "accepted"]
      /\ delivered \in Trade /\ delivered # NoTrade
  BY <1>3, LedgerAssumption DEF Trade
<1>5. \A k \in OrderKeys : trades'[k] = IF k = u.key THEN delivered ELSE trades[k]
  BY <1>1 DEF Invariants, SellerInvariant, SellerTypeOK, LedgerTypeOK
<1>6. Present' = Present
  BY <1>1 DEF Present
<1>7. OrdersOfJobs'
  <2> SUFFICES ASSUME NEW k \in OrderKeys, trades'[k] # NoTrade
               PROVE  \E d \in Present : /\ k = Job[d].key
                                        /\ [trades'[k] EXCEPT !.status = "accepted"] = Ordered(d)
    BY <1>6 DEF OrdersOfJobs, Ordered, With, FinalPrice, AskedPrice
  <2>1. /\ trades[k] # NoTrade
        /\ [trades'[k] EXCEPT !.status = "accepted"] = [trades[k] EXCEPT !.status = "accepted"]
    BY <1>3, <1>4, <1>5
  <2> QED BY <2>1 DEF Invariants, ServedInvariant, OrdersOfJobs
<1>8. \A k \in OrderKeys : trades[k] # NoTrade => trades'[k] # NoTrade
  BY <1>4, <1>5
<1>9. \A s \in Threads : task'[s] \in {NoTask, task[s]}
  BY <1>1 DEF Invariants, SellerInvariant, SellerTypeOK
<1> QED BY <1>1, <1>7, <1>8, <1>9, EndedServes

\* Every step keeps what the handlers and the ledger hold.
LEMMA ServiceServesNext ==
    ASSUME Invariants, [ClientsNext]_clientsVars
    PROVE  ServiceServes'
<1>1. ASSUME NEW c \in Clients, SendOrder(c) \/ SendOrderAgain(c) \/ SendChangedOrder(c)
      PROVE  ServiceServes'
  BY <1>1, SendServes
<1>2. ASSUME NEW c \in Clients, SendDelivery(c) PROVE ServiceServes'
  BY <1>2, SendDeliveryServes
<1>3. ASSUME NEW t \in Threads, Handler(t) PROVE ServiceServes'
  <2>1. CASE RefusedEvents(t)
    <3>1. UNCHANGED <<trades, identities, inProcess>> /\ task' = [task EXCEPT ![t] = NoTask]
      BY <2>1 DEF RefusedEvents, RefuseTask, Refuse, Answer
    <3>2. \A s \in Threads : task'[s] \in {NoTask, task[s]}
      BY <3>1 DEF Invariants, SellerInvariant, SellerTypeOK
    <3> QED BY <3>1, <3>2, TasksServe
  <2> QED BY <1>3, <2>1, ValidatedServes, OrderRecordedServes, DeliveredServes DEF Handler
<1>4. CASE ServiceRestarts
  <2>1. /\ UNCHANGED <<trades, identities, inProcess>>
        /\ \A t \in Threads : task'[t] = NoTask
    BY <1>4 DEF ServiceRestarts, Restart, Forget, ledgerVars
  <2> QED BY <2>1, TasksServe
<1>5. CASE UNCHANGED <<trades, identities, task, inProcess>>
  BY <1>5, TasksServe
<1>6. ASSUME NEW c \in Clients, AskQuote(c) \/ OfferReservation(c) \/ OrderNotAccepted(c)
                               \/ LoseExchange(c) \/ QuoteExpires(c) \/ RunAgain(c)
      PROVE  UNCHANGED <<trades, identities, task, inProcess>>
  BY <1>6 DEF AskQuote, CreateQuote, OfferReservation, Negotiate, OrderNotAccepted,
              LoseExchange, QuoteExpires, Expire, RunAgain, vars, ledgerVars
<1>7. UNCHANGED clientsVars => UNCHANGED <<trades, identities, task, inProcess>>
  BY DEF clientsVars, clientVars, vars, ledgerVars
<1> QED BY <1>1, <1>2, <1>3, <1>4, <1>5, <1>6, <1>7 DEF ClientsNext, ClientStep

-----------------------------------------------------------------------------
(* Prices.                                                                   *)

\* A client that goes on to another step of its order, or to a step without a quote,
\* and whose quote and price are left alone.
KeepsQuote(c) ==
    /\ client'[c].quote = client[c].quote /\ client'[c].price = client[c].price
    /\ client'[c].step \in QuoteSteps =>
        \/ client'[c].step = client[c].step
        \/ client[c].step \in QuoteSteps \ {"negotiate"} /\ client'[c].step # "negotiate"

\* Most steps of clients and handlers are of this kind.
LEMMA StepsKeepQuotes ==
    ASSUME Invariants,
           \/ \E c \in Clients : \/ SendOrder(c) \/ SendOrderAgain(c) \/ SendChangedOrder(c)
                                \/ OrderNotAccepted(c) \/ SendDelivery(c)
                                \/ LoseExchange(c) \/ RunAgain(c)
           \/ \E t \in Threads : Handler(t)
    PROVE  /\ UNCHANGED <<sellerVars, inProcess>>
           /\ \A c \in Clients : KeepsQuote(c)
<1>1. UNCHANGED <<sellerVars, inProcess>>
  BY DEF SendOrder, SendOrderAgain, SendChangedOrder, SubmitOrder, CheckOrder, Handle,
         OrderNotAccepted, SendDelivery, ReadTrade, LoseExchange, RunAgain, Handler,
         Validated, ValidateTask, RefusedEvents, RefuseTask, OrderRecorded, RecordOrder,
         Delivered, UpdateStatus, Answer, clientVars, vars
<1>2. ASSUME NEW c \in Clients, NEW step \in Steps, GoTo(c, step),
             step \in QuoteSteps => /\ client[c].step \in QuoteSteps \ {"negotiate"}
                                   /\ step # "negotiate"
      PROVE  \A d \in Clients : KeepsQuote(d)
  BY <1>2, GoToTyped DEF Invariants, KeepsQuote
<1>3. ASSUME NEW c \in Clients, SendOrder(c) \/ SendOrderAgain(c) \/ SendChangedOrder(c)
                               \/ SendDelivery(c)
      PROVE  \A d \in Clients : KeepsQuote(d)
  BY <1>2, <1>3 DEF SendOrder, SendOrderAgain, SendChangedOrder, SendDelivery, Handle, At,
                    QuoteSteps, Steps
<1>4. ASSUME NEW c \in Clients, OrderNotAccepted(c) \/ LoseExchange(c) \/ RunAgain(c)
      PROVE  \A d \in Clients : KeepsQuote(d)
  BY <1>2, <1>4 DEF OrderNotAccepted, LoseExchange, RunAgain, QuoteSteps, Steps
<1>5. ASSUME NEW t \in Threads, Handler(t)
      PROVE  \A d \in Clients : KeepsQuote(d)
  <2>1. ASSUME ~Validated(t)
        PROVE  \E step \in Steps :
                  /\ Answer(t, step)
                  /\ \/ step \notin QuoteSteps
                     \/ step = client[owner[t]].step
                     \/ step = "replay" /\ client[owner[t]].step = "ordering"
                     \/ owner[t] = NoClient
    <3>2. CASE RefusedEvents(t)
      BY <3>2 DEF RefusedEvents, AfterConflict, Steps, QuoteSteps
    <3>3. CASE OrderRecorded(t)
      <4> DEFINE same == SameOrder(task[t].key, task[t].trade)
                 step == IF same THEN AfterReceipt(owner[t], t) ELSE AfterConflict(owner[t])
      <4>1. Answer(t, step)
        BY <3>3 DEF OrderRecorded
      <4>2. CASE owner[t] = NoClient
        <5>1. Answer(t, "failed") /\ "failed" \in Steps
          BY <4>1, <4>2 DEF Answer, Steps
        <5> QED BY <4>2, <5>1
      <4>3. CASE owner[t] # NoClient
        <5>1. client[owner[t]].step \in Steps
          BY <4>3, WaitingSteps DEF Invariants, Steps
        <5>2. /\ step \in Steps
              /\ \/ step \notin QuoteSteps
                 \/ step = client[owner[t]].step
                 \/ step = "replay" /\ client[owner[t]].step = "ordering"
          BY <5>1 DEF AfterReceipt, AfterConflict, Steps, QuoteSteps
        <5> HIDE DEF step
        <5> QED BY <4>1, <5>2
      <4> QED BY <4>2, <4>3
    <3>4. CASE Delivered(t)
      BY <3>4 DEF Delivered, Steps, QuoteSteps
    <3> QED BY <1>5, <2>1, <3>2, <3>3, <3>4 DEF Handler
  <2>2. CASE Validated(t) \/ owner[t] = NoClient
    <3>1. UNCHANGED client
      BY <2>1, <2>2 DEF Validated, clientVars, Answer
    <3> QED BY <3>1 DEF KeepsQuote
  <2>3. CASE ~Validated(t) /\ owner[t] # NoClient
    <3> PICK step \in Steps :
              /\ Answer(t, step)
              /\ \/ step \notin QuoteSteps
                 \/ step = client[owner[t]].step
                 \/ step = "replay" /\ client[owner[t]].step = "ordering"
      BY <2>1, <2>3
    <3>1. PICK c \in Clients : owner[t] = c
      BY <2>3, WaitingSteps DEF Invariants
    <3>2. GoTo(c, step)
      BY <2>3, <3>1 DEF Answer, GoTo
    <3>3. /\ client'[c].step = step
          /\ client'[c].quote = client[c].quote /\ client'[c].price = client[c].price
          /\ \A d \in Clients : d # c => client'[d] = client[d]
      BY <3>2, GoToTyped DEF Invariants
    <3> QED BY <3>1, <3>3 DEF KeepsQuote, QuoteSteps
  <2> QED BY <2>2, <2>3
<1> QED BY <1>1, <1>3, <1>4, <1>5

\* What the clients pay.
PricesServe == QuotesApart /\ \A c \in Clients : Priced(c)

\* A quote whose terms and agreement are left alone prices its client's order as before.
LEMMA PricedKept ==
    ASSUME Invariants, NEW c \in Clients, KeepsQuote(c), UNCHANGED inProcess,
           client[c].quote \in QuoteIds =>
              /\ quotes'[client[c].quote] = quotes[client[c].quote]
              /\ agreed'[client[c].quote] = agreed[client[c].quote]
    PROVE  Priced(c)'
<1> SUFFICES ASSUME client'[c].step \in QuoteSteps PROVE Priced(c)'
  BY DEF Priced
<1>1. client[c].step \in QuoteSteps
  BY DEF KeepsQuote
<1>2. client[c].quote \in QuoteIds
  BY <1>1 DEF Invariants, ClientsInvariant, Holds, HasQuote
<1>3. Priced(c)
  BY DEF Invariants, ServedInvariant
<1> QED BY <1>1, <1>2, <1>3
        DEF Priced, KeepsQuote, IsLive, ExpectedPrice, FinalPrice, AskedPrice

\* A quote is asked for: the ask price is the same for a first purchase and a later one.
LEMMA AskQuotePriced ==
    ASSUME Invariants, NEW c \in Clients, AskQuote(c)
    PROVE  PricesServe'
<1> DEFINE q == FreshQuote
           made == [buyer |-> Job[c].buyer, service |-> Job[c].service,
                    ask |-> AskPrice(Job[c].buyer, Job[c].budget),
                    reservation |-> FloorPrice, live |-> TRUE]
           new == [step |-> IF c \in Commands THEN "order" ELSE "negotiate",
                   quote |-> q, price |-> quotes'[q].ask]
<1>1. q \in QuoteIds /\ quotes[q] = NoQuote /\ \A d \in Clients : client[d].quote # q
  BY FreshQuoteIsFree DEF AskQuote
<1>2. /\ quotes' = [quotes EXCEPT ![q] = made] /\ client' = [client EXCEPT ![c] = new]
      /\ UNCHANGED <<agreed, closed, inProcess>>
  BY DEF AskQuote, CreateQuote
<1>3. /\ quotes'[q] = made /\ \A p \in QuoteIds : p # q => quotes'[p] = quotes[p]
      /\ client'[c] = new /\ \A d \in Clients : d # c => client'[d] = client[d]
  BY <1>1, <1>2 DEF Invariants, SellerInvariant, SellerTypeOK, ClientsInvariant, ClientsTypeOK
<1>4. made.ask = AskedPrice(c)
  BY JobsAssumption DEF AskPrice, AskedPrice
<1>5. made # NoQuote
  <2>1. AskPrice(Job[c].buyer, Job[c].budget) \in ListPrices
    BY JobTyped, AskPriceTyped DEF AskQuote, CreateQuote
  <2>2. AskPrice(Job[c].buyer, Job[c].budget) \in Amounts
    BY <2>1, PricesAssumption DEF ListPrices
  <2>3. FloorPrice \in Amounts
    BY PricesAssumption
  <2>4. made \in Quote
    BY <2>2, <2>3, JobTyped DEF Quote
  <2> QED BY <2>4, NoValueAssumption
<1>6. agreed[q] = NoPrice
  BY <1>1 DEF Invariants, SellerInvariant, NegotiationConsistent
<1>7. Priced(c)'
  BY <1>2, <1>3, <1>4, <1>5, <1>6
     DEF Priced, IsLive, ExpectedPrice, FinalPrice, AskedPrice, QuoteSteps
<1>8. \A d \in Clients : d # c => Priced(d)'
  BY <1>1, <1>2, <1>3, PricedKept DEF KeepsQuote
<1>9. QuotesApart'
  BY <1>1, <1>2, <1>3 DEF Invariants, ServedInvariant, QuotesApart
<1> QED BY <1>7, <1>8, <1>9 DEF PricesServe

\* The reservation price is accepted, and is what the harness orders at.
LEMMA OfferReservationPriced ==
    ASSUME Invariants, NEW c \in Clients, OfferReservation(c)
    PROVE  /\ PricesServe'
           /\ client'[c].step = "order" /\ c \in Present
           /\ \A d \in Clients : d # c => client'[d] = client[d]
<1> DEFINE q == client[c].quote
           final == agreed'[q]
<1>1. /\ client[c].step = "negotiate" /\ c \in Present /\ IsLive(q)
      /\ AcceptOffer(q, quotes[q].reservation) \/ DeclineOffer(q, quotes[q].reservation)
      /\ client' = [client EXCEPT ![c].step = IF final = NoPrice THEN "refused" ELSE "order",
                                ![c].price = final]
      /\ UNCHANGED <<quotes, inProcess>>
  BY DEF OfferReservation, Negotiate, At
<1>2. q \in QuoteIds
  BY <1>1 DEF Invariants, ClientsInvariant, Holds, HasQuote, QuoteSteps
<1>3. quotes[q] # NoQuote /\ quotes[q].reservation = FloorPrice /\ quotes[q].ask \in ListPrices
  BY <1>1, <1>2 DEF IsLive, Invariants, SellerInvariant, QuotesWithinPolicy
<1>4. Least(FloorPrice, quotes[q].ask) = FloorPrice
  BY <1>3, PricesAssumption DEF Least, ListPrices
<1>5. agreed' = [agreed EXCEPT ![q] = FloorPrice] /\ UNCHANGED closed
  BY <1>1, <1>3, <1>4, PricesAssumption DEF AcceptOffer, DeclineOffer
<1>6. final = FloorPrice /\ \A p \in QuoteIds : p # q => agreed'[p] = agreed[p]
  BY <1>2, <1>5 DEF Invariants, SellerInvariant, SellerTypeOK
<1>7. final # NoPrice
  <2>1. FloorPrice \in FloorPrice .. BasePrice
    BY PricesAssumption
  <2> QED BY <1>6, <2>1, PricesAssumption, NoValueAssumption
<1>8. client[c] \in Client
  BY DEF Invariants, ClientsInvariant, ClientsTypeOK
<1>9. /\ client'[c].step = "order" /\ client'[c].price = FloorPrice /\ client'[c].quote = q
      /\ \A d \in Clients : d # c => client'[d] = client[d]
  BY <1>1, <1>6, <1>7, <1>8 DEF Invariants, ClientsInvariant, ClientsTypeOK, Client
<1>10. c \notin Commands
  BY <1>1 DEF Invariants, ClientsInvariant, Holds, InRole
<1>11. Priced(c)'
  <2>1. FinalPrice(c) = FloorPrice
    BY <1>10 DEF FinalPrice
  <2> QED BY <1>1, <1>6, <1>7, <1>9, <1>10, <2>1 DEF Priced, IsLive, ExpectedPrice, FinalPrice
<1>12. \A d \in Clients : d # c => client[d].quote # q
  BY <1>2, ClientsAssumption DEF Invariants, ServedInvariant, QuotesApart
<1>13. \A d \in Clients : d # c => Priced(d)'
  BY <1>1, <1>6, <1>9, <1>12, PricedKept DEF KeepsQuote
<1>14. QuotesApart'
  BY <1>5, <1>9 DEF Invariants, ServedInvariant, QuotesApart
<1> QED BY <1>1, <1>9, <1>11, <1>13, <1>14 DEF PricesServe

\* The clock, a restart and everything else leave the prices as they are.
LEMMA PricesServeNext ==
    ASSUME Invariants, [ClientsNext]_clientsVars
    PROVE  PricesServe'
<1>1. ASSUME UNCHANGED <<sellerVars, inProcess>>, \A c \in Clients : KeepsQuote(c)
      PROVE  PricesServe'
  <2>1. \A c \in Clients : Priced(c)'
    BY <1>1, PricedKept DEF sellerVars
  <2>2. QuotesApart'
    BY <1>1 DEF Invariants, ServedInvariant, QuotesApart, KeepsQuote, sellerVars
  <2> QED BY <2>1, <2>2 DEF PricesServe
<1>2. ASSUME NEW c \in Clients, QuoteExpires(c)
      PROVE  PricesServe'
  <2> DEFINE q == client[c].quote
  <2>1. /\ ~inProcess /\ q \in QuoteIds /\ IsLive(q)
        /\ quotes' = [quotes EXCEPT ![q].live = FALSE]
        /\ UNCHANGED <<agreed, closed, client, inProcess>>
    BY <1>2, ClientsAssumption
       DEF QuoteExpires, Expire, At, Present, Invariants, ClientsInvariant, Holds, HasQuote,
           QuoteSteps, clientVars
  <2>2. \A p \in QuoteIds : quotes'[p] # NoQuote =>
          quotes[p] # NoQuote /\ quotes'[p].ask = quotes[p].ask
    <3>1. quotes[q] \in Quote
      BY <2>1 DEF IsLive, Invariants, SellerInvariant, SellerTypeOK
    <3> QED BY <2>1, <3>1 DEF IsLive, Invariants, SellerInvariant, SellerTypeOK, Quote
  <2>3. ASSUME NEW d \in Clients PROVE Priced(d)'
    <3>1. Priced(d)
      BY DEF Invariants, ServedInvariant
    <3>2. client[d].step \in QuoteSteps => client[d].quote \in QuoteIds
      BY DEF Invariants, ClientsInvariant, Holds, HasQuote
    <3> QED BY <2>1, <2>2, <3>1, <3>2 DEF Priced, ExpectedPrice, FinalPrice, AskedPrice
  <2>4. QuotesApart'
    BY <2>1 DEF Invariants, ServedInvariant, QuotesApart
  <2> QED BY <2>3, <2>4 DEF PricesServe
<1>3. ASSUME ServiceRestarts
      PROVE  PricesServe'
  <2>1. /\ ~inProcess /\ UNCHANGED inProcess /\ closed' = {}
        /\ quotes' = [q \in QuoteIds |-> NoQuote] /\ agreed' = [q \in QuoteIds |-> NoPrice]
        /\ client' = [c \in Clients |-> IF Waiting(c) = {} THEN client[c]
                                        ELSE [client[c] EXCEPT !.step = "failed"]]
    BY <1>3 DEF ServiceRestarts, Restart, Forget
  <2>2. ASSUME NEW c \in Clients
        PROVE  /\ client'[c].quote = client[c].quote /\ client'[c].price = client[c].price
               /\ client'[c].step \in {"failed", client[c].step}
    <3>1. client[c] \in Client
      BY DEF Invariants, ClientsInvariant, ClientsTypeOK
    <3> QED BY <2>1, <3>1 DEF Client
  <2>3. ASSUME NEW c \in Clients PROVE Priced(c)'
    <3>1. Priced(c)
      BY DEF Invariants, ServedInvariant
    <3>2. client[c].step \in QuoteSteps => client[c].quote \in QuoteIds
      BY DEF Invariants, ClientsInvariant, Holds, HasQuote
    <3> QED BY <2>1, <2>2, <3>1, <3>2 DEF Priced, QuoteSteps, FinalPrice, AskedPrice
  <2>4. QuotesApart'
    BY <2>1, <2>2 DEF Invariants, ServedInvariant, QuotesApart
  <2> QED BY <2>3, <2>4 DEF PricesServe
<1>4. ASSUME UNCHANGED clientsVars
      PROVE  PricesServe'
  <2>1. UNCHANGED <<sellerVars, inProcess, client>>
    BY <1>4 DEF clientsVars, clientVars, vars
  <2> QED BY <1>1, <2>1 DEF KeepsQuote
<1> QED BY <1>1, <1>2, <1>3, <1>4, StepsKeepQuotes, AskQuotePriced, OfferReservationPriced
        DEF ClientsNext, ClientStep

-----------------------------------------------------------------------------
(* Answers of the right kind.                                                *)

\* Events that contradict those on record do so for ever.
LEMMA ContradictsKept ==
    ASSUME Invariants, [ClientsNext]_clientsVars, NEW c \in Clients, Contradicts(c)
    PROVE  Contradicts(c)'
<1>1. CASE UNCHANGED identities
  BY <1>1 DEF Contradicts, ConflictsOf, Previous
<1>2. CASE \E t \in Threads : Validated(t)
  <2>1. PICK t \in Threads : Validated(t)
    BY <1>2
  <2>2. Register(Range(task[t].trade.events)) /\ task[t] # NoTask
    BY <2>1 DEF Validated, ValidateTask
  <2>3. Range(task[t].trade.events) \in SUBSET Event
    <3>1. task[t] \in OrderTask \cup DeliverTask
      BY <2>2 DEF Invariants, SellerInvariant, SellerTypeOK
    <3>2. task[t].trade \in Trade
      BY <3>1 DEF OrderTask, DeliverTask
    <3> QED BY <3>2, EventsOfBatch DEF Trade
  <2>4. Range(Job[c].input) \in SUBSET Event
    BY JobTyped, EventsOfBatch
  <2>5. LedgerTypeOK /\ ConflictsOf(Range(Job[c].input)) # {}
    BY DEF Invariants, SellerInvariant, SellerTypeOK, Contradicts
  <2>6. ConflictsOf(Range(Job[c].input))' # {}
    BY <2>2, <2>3, <2>4, <2>5, ConflictsPersist
  <2> QED BY <2>6 DEF Contradicts
<1>3. UNCHANGED identities \/ \E t \in Threads : Validated(t)
  BY DEF ClientsNext, ClientStep, AskQuote, CreateQuote, OfferReservation, Negotiate,
         SendOrder, SendOrderAgain, SendChangedOrder, SubmitOrder, CheckOrder,
         OrderNotAccepted, SendDelivery, ReadTrade, LoseExchange, QuoteExpires, Expire,
         RunAgain, Handler, RefusedEvents, RefuseTask, Refuse, OrderRecorded, RecordOrder,
         Record, Delivered, UpdateStatus, Deliver, ServiceRestarts, Restart, clientsVars,
         vars, ledgerVars
<1> QED BY <1>1, <1>2, <1>3

\* One client moves, for a good reason if it fails or is refused.
LEMMA MoverStands ==
    ASSUME Invariants, [ClientsNext]_clientsVars, UNCHANGED inProcess,
           NEW c \in Clients, c \in Present,
           \A d \in Clients : d # c => client'[d] = client[d],
           client'[c].step = "refused" => c \in Commands /\ Contradicts(c),
           client'[c].step = "failed" => c \in Commands
    PROVE  \A d \in Clients : Standing(d)'
<1>1. Present' = Present
  BY DEF Present
<1>2. ASSUME NEW d \in Clients, d # c PROVE Standing(d)'
  <2>1. Standing(d) /\ client'[d] = client[d]
    BY <1>2 DEF Invariants, ServedInvariant
  <2> QED BY <1>1, <2>1, ContradictsKept DEF Standing
<1>3. Standing(c)'
  BY <1>1, ContradictsKept DEF Standing
<1> QED BY <1>2, <1>3

\* No changed replay is sent: those on their way are awaited as before.
LEMMA ReplaysKept ==
    ASSUME Invariants,
           \A t \in Threads : owner'[t] # NoClient =>
              owner'[t] = owner[t] /\ task'[t].trade = task[t].trade,
           \A c \in Clients : client'[c].step = "replaying" => client[c].step = "replaying"
    PROVE  ReplaysAwaited'
<1> SUFFICES ASSUME NEW t \in Threads, NEW c \in Clients, owner'[t] = c, c # NoClient,
                    client'[c].step = "replaying"
             PROVE  task'[t].trade = Replayed(c)
  BY WaitingSteps DEF ReplaysAwaited, Invariants, Replayed, With, FinalPrice, AskedPrice
<1>1. owner[t] = c /\ client[c].step = "replaying" /\ task'[t].trade = task[t].trade
  OBVIOUS
<1> QED BY <1>1 DEF Invariants, ServedInvariant, ReplaysAwaited

ClientsStand == ReplaysAwaited /\ \A c \in Clients : Standing(c)

\* A client that asks, offers or sends goes on.
LEMMA RequestsStand ==
    ASSUME Invariants, [ClientsNext]_clientsVars, NEW c \in Clients,
           \/ AskQuote(c) \/ OfferReservation(c)
           \/ SendOrder(c) \/ SendOrderAgain(c) \/ SendChangedOrder(c) \/ SendDelivery(c)
    PROVE  ClientsStand'
<1>1. CASE AskQuote(c)
  <2>1. /\ c \in Present /\ UNCHANGED <<owner, task, inProcess>>
        /\ client'[c].step \in {"order", "negotiate"}
        /\ \A d \in Clients : d # c => client'[d] = client[d]
    BY <1>1 DEF AskQuote, CreateQuote, At, Invariants, ClientsInvariant, ClientsTypeOK
  <2> QED BY <2>1, MoverStands, ReplaysKept DEF ClientsStand
<1>2. CASE OfferReservation(c)
  <2>1. UNCHANGED <<owner, task, inProcess>>
    BY <1>2 DEF OfferReservation, Negotiate
  <2> QED BY <1>2, <2>1, OfferReservationPriced, MoverStands, ReplaysKept DEF ClientsStand
<1>3. CASE SendOrder(c) \/ SendOrderAgain(c) \/ SendChangedOrder(c) \/ SendDelivery(c)
  <2>1. PICK step \in {"reorder", "ordering", "replaying", "delivering"} :
          /\ c \in Present /\ Handle(c, step) /\ FreeThreads # {}
          /\ client[c].step \in {"order", "reorder", "replay", "deliver"}
          /\ step = "replaying" => client[c].step = "replay" /\ SendChangedOrder(c)
          /\ \E new : task' = [task EXCEPT ![FreeThread] = new]
    <3>1. CASE SendOrder(c)
      BY <3>1 DEF SendOrder, SubmitOrder, CheckOrder, At
    <3>2. CASE SendOrderAgain(c)
      BY <3>2 DEF SendOrderAgain, SubmitOrder, CheckOrder, At
    <3>3. CASE SendChangedOrder(c)
      BY <3>3 DEF SendChangedOrder, SubmitOrder, CheckOrder, At
    <3>4. CASE SendDelivery(c)
      BY <3>4 DEF SendDelivery, ReadTrade, At
    <3> QED BY <1>3, <3>1, <3>2, <3>3, <3>4
  <2>2. /\ client'[c].step = step /\ \A d \in Clients : d # c => client'[d] = client[d]
        /\ UNCHANGED inProcess
    BY <2>1, GoToTyped DEF Handle, Invariants, Steps
  <2>3. FreeThread \in Threads /\ task[FreeThread] = NoTask
    BY <2>1, FreeThreadIsFree
  <2>4. \A t \in Threads \ {FreeThread} : owner'[t] = owner[t] /\ task'[t] = task[t]
    BY <2>1, <2>3 DEF Handle, Invariants, SellerInvariant, SellerTypeOK, ClientsInvariant,
                      ClientsTypeOK
  <2>5. owner'[FreeThread] = c /\ owner[FreeThread] = NoClient
    BY <2>1, <2>3, WaitingSteps
       DEF Handle, Answers, Invariants, ClientsInvariant, ClientsTypeOK
  <2>6. \A d \in Clients : Standing(d)'
    BY <2>1, <2>2, MoverStands
  <2>7. ReplaysAwaited'
    <3> SUFFICES ASSUME NEW t \in Threads, NEW d \in Clients, owner'[t] = d, d # NoClient,
                        client'[d].step = "replaying"
                 PROVE  task'[t].trade = Replayed(d)
      BY <2>4, <2>5, WaitingSteps
         DEF ReplaysAwaited, Invariants, Replayed, With, FinalPrice, AskedPrice
    <3>1. CASE t = FreeThread
      <4>1. SendChangedOrder(c) /\ d = c /\ owner'[t] # owner[t]
        BY <2>1, <2>2, <2>5, <3>1
      <4> QED BY <4>1, SendServes
    <3>2. CASE t # FreeThread
      <4>1. owner[t] = d /\ task'[t] = task[t]
        BY <2>4, <3>2
      <4>2. d # c \/ client[c].step \in {"reorder", "delivering"}
        BY <2>1, <4>1, WaitingSteps DEF Invariants
      <4>3. d # c
        <5>1. CASE d = c
          <6>1. step = "replaying" /\ client[c].step = "replay"
            BY <2>1, <2>2, <5>1
          <6> QED BY <4>2, <5>1, <6>1
        <5> QED BY <5>1
      <4> QED BY <2>2, <4>1, <4>3 DEF Invariants, ServedInvariant, ReplaysAwaited
    <3> QED BY <3>1, <3>2
  <2> QED BY <2>6, <2>7 DEF ClientsStand
<1> QED BY <1>1, <1>2, <1>3

\* The price a client orders at is never refused while its quote lives, and the
\* harness's quotes live as long as its process.
LEMMA GiveUpStands ==
    ASSUME Invariants, [ClientsNext]_clientsVars, NEW c \in Clients,
           OrderNotAccepted(c) \/ RunAgain(c)
    PROVE  ClientsStand'
<1>1. c \in Present /\ UNCHANGED <<owner, task, inProcess>>
  BY DEF OrderNotAccepted, RunAgain, At, vars
<1>2. CASE OrderNotAccepted(c)
  <2> DEFINE q == client[c].quote
  <2>1. client[c].step \in {"order", "reorder", "replay"}
        /\ ~(IsLive(q) /\ PriceAccepted(q, client[c].price))
    BY <1>2 DEF OrderNotAccepted, At
  <2>2. Priced(c) /\ closed = {}
    BY DEF Invariants, ServedInvariant, QuotesApart
  <2>3. ~IsLive(q)
    BY <2>1, <2>2 DEF Priced, PriceAccepted, IsLive, QuoteSteps
  <2>4. c \in Commands
    BY <1>1, <2>1, <2>2, <2>3 DEF Priced, Present, QuoteSteps, Invariants, ServedInvariant
  <2>5. GoTo(c, "failed")
    BY <1>2, <2>3 DEF OrderNotAccepted
  <2>6. client'[c].step = "failed" /\ \A d \in Clients : d # c => client'[d] = client[d]
    BY <2>5, GoToTyped DEF Invariants, Steps
  <2> QED BY <1>1, <2>4, <2>6, MoverStands, ReplaysKept DEF ClientsStand
<1>3. CASE RunAgain(c)
  <2>1. client'[c].step = "quote" /\ \A d \in Clients : d # c => client'[d] = client[d]
    BY <1>3, GoToTyped DEF RunAgain, Invariants, Steps
  <2> QED BY <1>1, <2>1, MoverStands, ReplaysKept DEF ClientsStand
<1> QED BY <1>2, <1>3

\* Only a command loses an exchange, its quote or the service.
LEMMA FaultsStand ==
    ASSUME Invariants, [ClientsNext]_clientsVars,
           (\E c \in Clients : LoseExchange(c) \/ QuoteExpires(c)) \/ ServiceRestarts
    PROVE  ClientsStand'
<1>1. ASSUME NEW c \in Clients, LoseExchange(c)
      PROVE  ClientsStand'
  <2>1. /\ c \in Present /\ c \in Commands /\ UNCHANGED <<task, inProcess>>
        /\ client'[c].step = "failed" /\ \A d \in Clients : d # c => client'[d] = client[d]
    BY <1>1, GoToTyped DEF LoseExchange, Invariants, Steps, vars
  <2>2. \A t \in Threads : owner'[t] # NoClient => owner'[t] = owner[t]
    BY <1>1 DEF LoseExchange
  <2> QED BY <2>1, <2>2, MoverStands, ReplaysKept DEF ClientsStand
<1>2. ASSUME NEW c \in Clients, QuoteExpires(c)
      PROVE  ClientsStand'
  <2>1. c \in Present /\ UNCHANGED <<task, inProcess, owner, client>>
    BY <1>2 DEF QuoteExpires, Expire, At
  <2>2. Standing(c)
    BY DEF Invariants, ServedInvariant
  <2> QED BY <2>1, <2>2, MoverStands, ReplaysKept DEF ClientsStand, Standing
<1>3. ASSUME ServiceRestarts
      PROVE  ClientsStand'
  <2>1. /\ ~inProcess /\ UNCHANGED inProcess
        /\ owner' = [t \in Threads |-> NoClient]
        /\ client' = [c \in Clients |-> IF Waiting(c) = {} THEN client[c]
                                        ELSE [client[c] EXCEPT !.step = "failed"]]
    BY <1>3 DEF ServiceRestarts
  <2>2. ReplaysAwaited'
    BY <2>1 DEF ReplaysAwaited
  <2>3. ASSUME NEW c \in Clients PROVE Standing(c)'
    <3>1. Standing(c)
      BY DEF Invariants, ServedInvariant
    <3>2. CASE Waiting(c) = {}
      BY <2>1, <3>1, <3>2, ContradictsKept DEF Standing, Present
    <3>3. CASE Waiting(c) # {}
      <4>1. c \in Present
        BY <3>3, WaiterPresent DEF Waiting
      <4>2. client'[c].step = "failed"
        BY <2>1, <3>3 DEF Invariants, ClientsInvariant, ClientsTypeOK, Client
      <4> QED BY <2>1, <4>1, <4>2 DEF Standing, Present
    <3> QED BY <3>2, <3>3
  <2> QED BY <2>2, <2>3 DEF ClientsStand
<1> QED BY <1>1, <1>2, <1>3

\* An answer is what its client may expect.
LEMMA AnswerStands ==
    ASSUME Invariants, [ClientsNext]_clientsVars, NEW t \in Threads, NEW step \in Steps,
           Answer(t, step), task' = [task EXCEPT ![t] = NoTask],
           \A c \in Clients : owner[t] = c =>
              /\ step = "replaying" => client[c].step = "replaying"
              /\ step = "refused" => c \in Commands /\ Contradicts(c)
              /\ step = "failed" => c \in Commands
    PROVE  ClientsStand'
<1>1. owner' = [owner EXCEPT ![t] = NoClient] /\ UNCHANGED inProcess
  BY DEF Answer
<1>2. \A s \in Threads : owner'[s] # NoClient => owner'[s] = owner[s] /\ task'[s] = task[s]
  BY <1>1 DEF Invariants, SellerInvariant, SellerTypeOK, ClientsInvariant, ClientsTypeOK
<1>3. CASE owner[t] = NoClient
  <2>1. UNCHANGED client
    BY <1>3 DEF Answer
  <2>2. \A c \in Clients : Standing(c)'
    BY <1>1, <2>1, ContradictsKept DEF Invariants, ServedInvariant, Standing, Present
  <2> QED BY <1>2, <2>1, <2>2, ReplaysKept DEF ClientsStand
<1>4. CASE owner[t] # NoClient
  <2>1. PICK c \in Clients : owner[t] = c
    BY <1>4, WaitingSteps DEF Invariants
  <2>2. GoTo(c, step)
    BY <1>4, <2>1 DEF Answer, GoTo
  <2>3. client'[c].step = step /\ \A d \in Clients : d # c => client'[d] = client[d]
    BY <2>2, GoToTyped DEF Invariants
  <2>4. c \in Present
    BY <2>1, WaiterPresent
  <2>5. \A d \in Clients : Standing(d)'
    BY <1>1, <2>1, <2>3, <2>4, MoverStands
  <2>6. ReplaysAwaited'
    BY <1>2, <2>1, <2>3, ReplaysKept
  <2> QED BY <2>5, <2>6 DEF ClientsStand
<1> QED BY <1>3, <1>4

\* 409 for its events: a command's own; the harness never gets it.
LEMMA RefusedEventsStand ==
    ASSUME Invariants, [ClientsNext]_clientsVars, NEW t \in Threads, RefusedEvents(t)
    PROVE  ClientsStand'
<1> DEFINE u == task[t]
           step == AfterConflict(owner[t])
<1>1. /\ u # NoTask /\ ConflictsOf(Range(u.trade.events)) # {}
      /\ task' = [task EXCEPT ![t] = NoTask] /\ Answer(t, step)
  BY DEF RefusedEvents, RefuseTask, Refuse
<1>2. u \in OrderTask \cup DeliverTask
  BY <1>1 DEF Invariants, SellerInvariant, SellerTypeOK
<1>3. PICK d \in Present : WorksFor(u, d)
  BY <1>1 DEF Invariants, ServedInvariant, TasksOfJobs
<1>4. \/ u.trade.events = Job[d].input
      \/ d \in HarnessBuyers /\ u.trade.events = Job[d].changed
  BY <1>2, <1>3 DEF WorksFor, OrderTask, DeliverTask, Ordered, Replayed, With
<1>5. d \notin HarnessBuyers
  <2> SUFFICES ASSUME d \in HarnessBuyers PROVE FALSE
    OBVIOUS
  <2>1. Range(u.trade.events) \in SUBSET HarnessEvents
    BY <1>4 DEF HarnessEvents
  <2>2. inProcess
    BY <1>3, ClientsAssumption DEF Present
  <2> QED BY <1>1, <2>1, <2>2, HarnessNeverConflicts DEF Invariants, ServedInvariant
<1>6. ASSUME NEW c \in Clients, owner[t] = c
      PROVE  step = "refused" /\ c \in Commands /\ Contradicts(c)
  <2>1. c \in Present /\ WorksFor(u, c)
    BY <1>6, WaiterPresent
  <2>2. c = d
    BY <1>3, <2>1, PresentKeys DEF WorksFor
  <2>3. c \in Commands /\ u.trade.events = Job[c].input
    BY <1>4, <1>5, <2>2 DEF Clients
  <2>4. client[c].step # "replaying"
    BY <2>3 DEF Invariants, ClientsInvariant, Holds, InRole
  <2> QED BY <1>1, <1>6, <2>3, <2>4 DEF AfterConflict, Contradicts
<1>7. step \in Steps
  BY DEF AfterConflict, Steps
<1> HIDE DEF step
<1>8. \A c \in Clients : owner[t] = c =>
        /\ step = "replaying" => client[c].step = "replaying"
        /\ step = "refused" => c \in Commands /\ Contradicts(c)
        /\ step = "failed" => c \in Commands
  BY <1>6
<1> QED BY <1>1, <1>7, <1>8, AnswerStands

\* An order meets no other order under its key, unless it is a changed replay: 200 for
\* the first, 409 for the second.
LEMMA OrderRecordedStands ==
    ASSUME Invariants, [ClientsNext]_clientsVars, NEW t \in Threads, OrderRecorded(t)
    PROVE  ClientsStand'
<1> DEFINE u == task[t]
           same == SameOrder(u.key, u.trade)
           step == IF same THEN AfterReceipt(owner[t], t) ELSE AfterConflict(owner[t])
<1>1. /\ u # NoTask /\ u.kind = "order" /\ Answer(t, step)
      /\ task' = [task EXCEPT ![t] = NoTask]
  BY DEF OrderRecorded, RecordOrder
<1>2. CASE owner[t] = NoClient
  <2>1. Answer(t, "deliver") /\ "deliver" \in Steps
    BY <1>1, <1>2 DEF Answer, Steps
  <2>2. \A c \in Clients : owner[t] # c
    BY <1>2, ClientsAssumption
  <2> HIDE DEF step
  <2> QED BY <1>1, <2>1, <2>2, AnswerStands
<1>3. CASE owner[t] # NoClient
  <2>1. PICK c \in Clients : owner[t] = c
    BY <1>3, WaitingSteps DEF Invariants
  <2>2. c \in Present /\ WorksFor(u, c) /\ Answers(t, c) /\ u.key = Job[c].key
    BY <1>3, <2>1, WaiterPresent, WaitingSteps DEF Invariants, WorksFor
  <2>3. trades[Job[c].key] # NoTrade =>
          [trades[Job[c].key] EXCEPT !.status = "accepted"] = Ordered(c)
    <3> SUFFICES ASSUME trades[Job[c].key] # NoTrade
                 PROVE  [trades[Job[c].key] EXCEPT !.status = "accepted"] = Ordered(c)
      OBVIOUS
    <3>1. PICK d \in Present : /\ Job[c].key = Job[d].key
                              /\ [trades[Job[c].key] EXCEPT !.status = "accepted"] = Ordered(d)
      BY JobTyped DEF Invariants, ServedInvariant, OrdersOfJobs
    <3> QED BY <2>2, <3>1, PresentKeys
  <2>4. client[c].step \in {"reorder", "ordering", "replaying", "refused", "failed"}
    BY <1>1, <2>2 DEF Answers
  <2>5. CASE client[c].step = "replaying"
    <3>1. c \in HarnessBuyers
      BY <2>5 DEF Invariants, ClientsInvariant, Holds, InRole, Clients
    <3>2. u.trade = Replayed(c)
      BY <1>3, <2>1, <2>5 DEF Invariants, ServedInvariant, ReplaysAwaited
    <3>3. trades[Job[c].key] # NoTrade
      BY <2>5 DEF Invariants, ClientsInvariant, Holds, HasReceipt, OnRecord, ReceiptSteps
    <3>4. Ordered(c) # Replayed(c)
      BY <3>1, JobsAssumption DEF Ordered, Replayed, With
    <3>5. ~same
      BY <2>2, <2>3, <3>2, <3>3, <3>4 DEF SameOrder
    <3>6. step = "deliver"
      BY <2>1, <2>5, <3>5 DEF AfterConflict
    <3>7. \A d \in Clients : owner[t] = d => step = "deliver"
      BY <3>6
    <3>8. step \in Steps
      BY <3>6 DEF Steps
    <3> HIDE DEF step
    <3> QED BY <1>1, <3>7, <3>8, AnswerStands
  <2>6. CASE client[c].step # "replaying"
    <3>1. u.trade = Ordered(c)
      <4>1. CASE client[c].step \in {"reorder", "ordering"}
        <5>1. client[c].price = FinalPrice(c)
          BY <4>1 DEF Invariants, ServedInvariant, Priced, QuoteSteps
        <5> QED BY <2>2, <4>1, <5>1 DEF Answers, OrderOf, Sends, Ordered, With
      <4>2. CASE client[c].step \in {"refused", "failed"}
        <5>1. c \in Commands
          BY <4>2 DEF Invariants, ServedInvariant, Standing
        <5> QED BY <1>1, <2>2, <5>1, ClientsAssumption DEF WorksFor
      <4> QED BY <2>4, <2>6, <4>1, <4>2
    <3>2. same
      BY <2>2, <2>3, <3>1 DEF SameOrder
    <3>3. step \in {"deliver", "replay", client[c].step}
      BY <2>1, <2>6, <3>2 DEF AfterReceipt
    <3>4. step \in Steps
      BY <2>4, <3>3 DEF Steps
    <3>5. Standing(c)
      BY DEF Invariants, ServedInvariant
    <3> HIDE DEF step
    <3>6. \A d \in Clients : owner[t] = d =>
            /\ step = "replaying" => client[d].step = "replaying"
            /\ step = "refused" => d \in Commands /\ Contradicts(d)
            /\ step = "failed" => d \in Commands
      BY <2>1, <2>6, <3>3, <3>5 DEF Standing
    <3> QED BY <1>1, <3>4, <3>6, AnswerStands
  <2> QED BY <2>5, <2>6
<1> QED BY <1>2, <1>3

LEMMA HandlersStand ==
    ASSUME Invariants, [ClientsNext]_clientsVars, NEW t \in Threads, Handler(t)
    PROVE  ClientsStand'
<1>1. CASE Validated(t)
  <2>1. /\ UNCHANGED <<client, owner, inProcess>> /\ task[t] # NoTask
        /\ task' = [task EXCEPT ![t].validated = TRUE]
    BY <1>1 DEF Validated, ValidateTask, clientVars
  <2>2. \A s \in Threads : task[s] # NoTask => task'[s].trade = task[s].trade
    BY <2>1 DEF Invariants, SellerInvariant, SellerTypeOK, OrderTask, DeliverTask
  <2>3. \A s \in Threads : owner[s] # NoClient => task[s] # NoTask
    BY WaitingSteps DEF Invariants, Answers
  <2>4. \A c \in Clients : Standing(c)'
    BY <2>1, ContradictsKept DEF Invariants, ServedInvariant, Standing, Present
  <2> QED BY <2>1, <2>2, <2>3, <2>4, ReplaysKept DEF ClientsStand
<1>2. CASE Delivered(t)
  <2>1. task' = [task EXCEPT ![t] = NoTask] /\ Answer(t, "done") /\ "done" \in Steps
    BY <1>2 DEF Delivered, UpdateStatus, Steps
  <2> QED BY <2>1, AnswerStands
<1> QED BY <1>1, <1>2, RefusedEventsStand, OrderRecordedStands DEF Handler

-----------------------------------------------------------------------------
(* The second invariant, and what a client is answered.                      *)

LEMMA ServedNext ==
    Invariants /\ [ClientsNext]_clientsVars => Invariants'
<1> SUFFICES ASSUME Invariants, [ClientsNext]_clientsVars PROVE Invariants'
  OBVIOUS
<1>1. SellerInvariant' /\ ClientsInvariant'
  BY ClientsNextKeeps DEF Invariants
<1>2. ServiceServes' /\ PricesServe'
  BY ServiceServesNext, PricesServeNext
<1>3. ClientsStand'
  <2>1. CASE UNCHANGED clientsVars
    <3>1. UNCHANGED <<client, owner, task, inProcess, identities>>
      BY <2>1 DEF clientsVars, clientVars, vars, ledgerVars
    <3>2. \A c \in Clients : Standing(c)'
      BY <3>1, ContradictsKept DEF Invariants, ServedInvariant, Standing, Present
    <3> QED BY <3>1, <3>2, ReplaysKept DEF ClientsStand
  <2> QED BY <2>1, RequestsStand, GiveUpStands, FaultsStand, HandlersStand
          DEF ClientsNext, ClientStep
<1>4. UNCHANGED inProcess
  BY DEF ClientsNext, ClientStep, AskQuote, OfferReservation, SendOrder, SendOrderAgain,
         SendChangedOrder, Handle, OrderNotAccepted, SendDelivery, LoseExchange,
         QuoteExpires, RunAgain, Handler, Validated, RefusedEvents, OrderRecorded,
         Delivered, Answer, ServiceRestarts, clientsVars, clientVars
<1> QED BY <1>1, <1>2, <1>3, <1>4
        DEF Invariants, ServedInvariant, ServiceServes, PricesServe, ClientsStand

LEMMA ServedInitial == ClientsInit => Invariants
<1> SUFFICES ASSUME ClientsInit PROVE Invariants
  OBVIOUS
<1>1. SellerInvariant /\ ClientsInvariant
  BY ClientsInitial
<1>2. QuotesApart
  BY DEF ClientsInit, Init, QuotesApart
<1>3. \A c \in Clients : Priced(c) /\ Standing(c)
  BY DEF ClientsInit, Priced, Standing, QuoteSteps
<1>4. TasksOfJobs /\ ReplaysAwaited /\ OrdersOfJobs
  BY DEF ClientsInit, Init, LedgerInit, TasksOfJobs, ReplaysAwaited, OrdersOfJobs
<1>5. EventsAgree
  <2>1. \A e \in HarnessEvents : e.key \in EventKeys
    BY JobTyped, EventsOfBatch DEF HarnessEvents, Clients, Event
  <2> QED BY <2>1 DEF ClientsInit, Init, LedgerInit, EventsAgree
<1> QED BY <1>1, <1>2, <1>3, <1>4, <1>5 DEF Invariants, ServedInvariant, ClientsInit

\* The second invariant holds in every reachable state too.
THEOREM ServedInvariance == ClientsSpec => []Invariants
BY ServedInitial, ServedNext, PTL DEF ClientsSpec

\* A command that is run again with its key is never answered 409, whatever became of
\* its earlier attempts, unless its events contradict those on record
\* (docs/AGENT_CLIENT.md, api.py 146-177, ledger.py 128-183).
THEOREM RetriesAreNotRefused == ClientsSpec => []RetryIsNotRefused
<1>1. Invariants => RetryIsNotRefused
  BY DEF Invariants, ServedInvariant, Standing, RetryIsNotRefused, Clients
<1> QED BY <1>1, ServedInvariance, PTL

\* No assertion of a harness buyer fails, however many of them interleave
\* (seller_harness.py _exercise_buyer).
THEOREM HarnessAssertionsNeverFail == ClientsSpec => []HarnessAssertionsHold
<1>1. Invariants => HarnessAssertionsHold
  BY ClientsAssumption
     DEF Invariants, ServedInvariant, Standing, HarnessAssertionsHold, Clients
<1> QED BY <1>1, ServedInvariance, PTL
=============================================================================
