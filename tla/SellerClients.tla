--------------------------- MODULE SellerClients ---------------------------
(***************************************************************************)
(* The programs that call the seller's HTTP service, composed with it.     *)
(* interaction-client analyze (client_cli.py) asks for a quote, orders at  *)
(* its ask price and has the order delivered; when the command fails it is *)
(* run again with the same --idempotency-key, hence with a new quote.  A   *)
(* buyer of seller_harness.py negotiates, sends its order twice at once,   *)
(* replays it with another input and asserts what must come back.          *)
(*                                                                         *)
(* A command talks to a service it does not control: answers get lost, the *)
(* quote expires, the service restarts.  The harness calls an app of its   *)
(* own in its process, where none of this happens.                         *)
(***************************************************************************)
EXTENDS SellerApi

CONSTANTS
    Commands,      \* analyze commands, each with its key
    HarnessBuyers, \* concurrent calls of _exercise_buyer
    Job,           \* what each of them asks for, see JobOf
    MaxFaults,     \* bound: answers lost and quotes expired
    NoClient

Clients == Commands \cup HarnessBuyers

\* `changed` is the harness's conflicting_payload: one event has another artifact
\* hash and, having no event_id, another identity.
JobOf == [buyer : Buyers, service : Services, budget : Budgets, key : OrderKeys,
          input : Batches, changed : Batches]

Steps == {"quote", "negotiate", "order", "reorder", "ordering", "replay", "replaying",
          "deliver", "delivering", "done", "failed", "refused"}
Client == [step : Steps, quote : QuoteIds \cup {NoQuote}, price : Amounts \cup {NoPrice}]

ASSUME ClientsAssumption ==
    /\ Job \in [Clients -> JobOf]
    /\ MaxFaults \in Nat
    /\ NoQuote \notin QuoteIds /\ NoClient \notin Clients
    /\ Commands \cap HarnessBuyers = {}
    /\ FloorPrice \in Offers

HarnessEvents == UNION {Range(Job[c].input) \cup Range(Job[c].changed) : c \in HarnessBuyers}

\* The discount of a first purchase rounds to nothing at the list price (ceil(6 * 0.9)
\* is 6), each command and each harness buyer has a key of its own, the changed replay
\* is another input, and events of the harness differ in their identity when they
\* differ at all.
ASSUME JobsAssumption ==
    /\ FirstPrice = BasePrice
    /\ \A c, d \in Commands : Job[c].key = Job[d].key => c = d
    /\ \A c, d \in HarnessBuyers : Job[c].key = Job[d].key => c = d
    /\ \A c \in HarnessBuyers : Job[c].changed # Job[c].input
    /\ \A d, e \in HarnessEvents : d.key = e.key => d = e

VARIABLES
    client,     \* where each client stands
    owner,      \* the client that waits for the answer of each handler
    inProcess,  \* the service is the harness's own app
    faults      \* exchanges lost and quotes expired so far

clientVars == <<client, owner, inProcess, faults>>
clientsVars == <<vars, clientVars>>

ClientsInit ==
    /\ Init
    /\ client = [c \in Clients |-> [step |-> "quote", quote |-> NoQuote, price |-> NoPrice]]
    /\ owner = [t \in Threads |-> NoClient]
    /\ inProcess \in BOOLEAN
    /\ faults = 0

\* In one world the commands run, in the other the harness.
Present == IF inProcess THEN HarnessBuyers ELSE Commands
At(c, step) == c \in Present /\ client[c].step = step
GoTo(c, step) == client' = [client EXCEPT ![c].step = step]
Waiting(c) == {t \in Threads : owner[t] = c}

-----------------------------------------------------------------------------
(* Requests.  Quotes and handlers are interchangeable: any free one will do. *)

FreshQuotes == {q \in QuoteIds : quotes[q] = NoQuote /\ \A c \in Clients : client[c].quote # q}
FreshQuote == CHOOSE q \in FreshQuotes : TRUE
FreeThreads == {t \in Threads : task[t] = NoTask}
FreeThread == CHOOSE t \in FreeThreads : TRUE

\* The handler of c's request starts; c waits for it in this step.
Handle(c, step) ==
    /\ owner' = [owner EXCEPT ![FreeThread] = c]
    /\ GoTo(c, step)
    /\ UNCHANGED <<inProcess, faults>>

\* POST /v1/quotes.
AskQuote(c) ==
    /\ At(c, "quote") /\ FreshQuotes # {}
    /\ CreateQuote(FreshQuote, Job[c].buyer, Job[c].service, Job[c].budget)
    /\ client' = [client EXCEPT ![c] =
                    [step |-> IF c \in Commands THEN "order" ELSE "negotiate",
                     quote |-> FreshQuote, price |-> quotes'[FreshQuote].ask]]
    /\ UNCHANGED <<owner, inProcess, faults>>

\* The harness offers the reservation price and orders at the final price.
OfferReservation(c) ==
    /\ At(c, "negotiate")
    /\ Negotiate(client[c].quote, quotes[client[c].quote].reservation)
    /\ LET final == agreed'[client[c].quote] IN
       client' = [client EXCEPT ![c].step = IF final = NoPrice THEN "refused" ELSE "order",
                                ![c].price = final]
    /\ UNCHANGED <<owner, inProcess, faults>>

\* POST /v1/orders, until the handler has passed its price check.
SubmitOrder(c, input) ==
    /\ FreeThreads # {}
    /\ CheckOrder(FreeThread, client[c].quote, client[c].price, Job[c].key, input)

\* The harness sends its order twice before it waits for an answer.
SendOrder(c) ==
    /\ At(c, "order")
    /\ SubmitOrder(c, Job[c].input)
    /\ Handle(c, IF c \in Commands THEN "ordering" ELSE "reorder")

SendOrderAgain(c) ==
    /\ At(c, "reorder")
    /\ SubmitOrder(c, Job[c].input)
    /\ Handle(c, "ordering")

SendChangedOrder(c) ==
    /\ At(c, "replay")
    /\ SubmitOrder(c, Job[c].changed)
    /\ Handle(c, "replaying")

\* create_order answers 404 or 410 before the price check, 409 at it.
OrderNotAccepted(c) ==
    /\ \E step \in {"order", "reorder", "replay"} : At(c, step)
    /\ ~(IsLive(client[c].quote) /\ PriceAccepted(client[c].quote, client[c].price))
    /\ GoTo(c, IF IsLive(client[c].quote) THEN "refused" ELSE "failed")
    /\ UNCHANGED <<vars, owner, inProcess, faults>>

\* POST /v1/orders/{trade_id}/deliver.
SendDelivery(c) ==
    /\ At(c, "deliver") /\ FreeThreads # {}
    /\ ReadTrade(FreeThread, Job[c].key)
    /\ Handle(c, "delivering")

-----------------------------------------------------------------------------
(* Answers.  A handler whose client has gone works on for nobody.            *)

Answer(t, step) ==
    /\ client' = IF owner[t] = NoClient THEN client
                 ELSE [client EXCEPT ![owner[t]].step = step]
    /\ owner' = [owner EXCEPT ![t] = NoClient]
    /\ UNCHANGED <<inProcess, faults>>

\* The answer 200 to an order: a changed one must not get it; the harness waits
\* for both of two.
AfterReceipt(c, t) ==
    CASE client[c].step = "replaying" -> "refused"
      [] client[c].step = "ordering" /\ Waiting(c) = {t} ->
            IF c \in Commands THEN "deliver" ELSE "replay"
      [] OTHER -> client[c].step

\* The answer 409: what the changed order must get, an error for any other.
AfterConflict(c) == IF client[c].step = "replaying" THEN "deliver" ELSE "refused"

Validated(t) ==
    /\ ValidateTask(t)
    /\ UNCHANGED clientVars

RefusedEvents(t) ==
    /\ RefuseTask(t)
    /\ Answer(t, AfterConflict(owner[t]))

OrderRecorded(t) ==
    /\ RecordOrder(t)
    /\ Answer(t, IF SameOrder(task[t].key, task[t].trade)
                 THEN AfterReceipt(owner[t], t) ELSE AfterConflict(owner[t]))

Delivered(t) ==
    /\ UpdateStatus(t)
    /\ Answer(t, "done")

-----------------------------------------------------------------------------
(* What a command meets, and the harness does not.                           *)

\* The connection fails or the timeout passes: main returns 1.  The request may
\* never have arrived, or its handler goes on.
LoseExchange(c) ==
    /\ faults < MaxFaults
    /\ c \in Present \cap Commands
    /\ client[c].step \notin {"done", "failed", "refused"}
    /\ GoTo(c, "failed")
    /\ owner' = [t \in Threads |-> IF owner[t] = c THEN NoClient ELSE owner[t]]
    /\ faults' = faults + 1
    /\ UNCHANGED <<vars, inProcess>>

QuoteExpires(c) ==
    /\ faults < MaxFaults
    /\ At(c, "order") /\ c \in Commands
    /\ Expire(client[c].quote)
    /\ faults' = faults + 1
    /\ UNCHANGED <<client, owner, inProcess>>

\* Whoever waits for the service loses the connection.
ServiceRestarts ==
    /\ ~inProcess
    /\ Restart
    /\ client' = [c \in Clients |-> IF Waiting(c) = {} THEN client[c]
                                    ELSE [client[c] EXCEPT !.step = "failed"]]
    /\ owner' = [t \in Threads |-> NoClient]
    /\ UNCHANGED <<inProcess, faults>>

\* "Reuse this key when retrying the same logical order."
RunAgain(c) ==
    /\ At(c, "failed") /\ c \in Commands
    /\ GoTo(c, "quote")
    /\ UNCHANGED <<vars, owner, inProcess, faults>>

ClientStep(c) ==
    \/ AskQuote(c) \/ OfferReservation(c)
    \/ SendOrder(c) \/ SendOrderAgain(c) \/ SendChangedOrder(c)
    \/ OrderNotAccepted(c) \/ SendDelivery(c)

Handler(t) == Validated(t) \/ RefusedEvents(t) \/ OrderRecorded(t) \/ Delivered(t)

ClientsNext ==
    \/ \E c \in Clients :
        ClientStep(c) \/ LoseExchange(c) \/ QuoteExpires(c) \/ RunAgain(c)
    \/ \E t \in Threads : Handler(t)
    \/ ServiceRestarts

ClientsSpec == ClientsInit /\ [][ClientsNext]_clientsVars

\* A program that waits for nobody goes on, handlers too, and who runs a command
\* runs it again until it succeeds.
Fairness ==
    /\ \A c \in Clients : WF_clientsVars(ClientStep(c)) /\ WF_clientsVars(RunAgain(c))
    /\ \A t \in Threads : WF_clientsVars(Handler(t))

FairClientsSpec == ClientsSpec /\ Fairness

-----------------------------------------------------------------------------
(* Properties.                                                               *)

\* Its events contradict events on record: the one reason to refuse a command.
Contradicts(c) == ConflictsOf(Range(Job[c].input)) # {}

\* A command is safe to retry with its key (docs/AGENT_CLIENT.md): whatever became of
\* the first attempt, and although the new quote is made when the buyer may already
\* be on record (seller.py 74), its order is never answered 409 unless its events
\* contradict those of another order.
RetryIsNotRefused == \A c \in Commands : client[c].step = "refused" => Contradicts(c)

\* What a client was told is delivered is on record: its own order, at the price it
\* knows, with the input it sent first; no retry, concurrent copy or changed replay
\* replaced it (ledger.py record).
DoneMeansDelivered ==
    \A c \in Clients :
        client[c].step = "done" =>
            trades[Job[c].key] =
                [buyer |-> Job[c].buyer, service |-> Job[c].service, amount |-> client[c].price,
                 events |-> Job[c].input, status |-> "delivered"]

\* No assertion of _exercise_buyer fails, however the buyers' requests interleave: the
\* reservation price is accepted, both copies of an order get a receipt, the changed
\* replay gets 409.
HarnessAssertionsHold == \A c \in HarnessBuyers : client[c].step \notin {"refused", "failed"}

\* Every command completes if it is run again after each failure, unless its events are
\* refused, and so does every buyer of the harness: no order is left that can be
\* neither placed nor delivered.
EveryoneIsServed ==
    \A c \in Clients :
        c \in Present ~> \/ client[c].step = "done"
                         \/ c \in Commands /\ client[c].step = "refused" /\ Contradicts(c)
=============================================================================
