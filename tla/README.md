# A formal model of the SharedOS commerce agent

This directory models the parts of the program that move money or must not lose
state: the Arena workflow with its purchase protocol, the outbound operation
journal with several invocations of one run on it, the market planner, the
seller's HTTP service with its ledger, its clients and the report it sells, and
the durable reading of a SharedNet room. TLC checks the models on small instances;
TLAPS proves the theorems listed below for every value of the constants.
Paths are relative to `src/sharedos_commerce_agent/` of the repository.

    tlc -workers 2 -config MCArenaWorkflow_faults.cfg MCArenaWorkflow
    tlapm ArenaWorkflowTheorems.tla

## The system

| Component | State | Operations | Talks to |
|---|---|---|---|
| Arena workflow (`graph.py`) | the channels of `ArenaGraphState`; progress inside them | one node per step: prepare, discover, evaluate, publish feedback, rank, plan, prepare / execute / reconcile / record purchase, audit | Arena client (await), journal (direct calls), checkpointer (LangGraph) |
| Arena runner (`arena.py`) | checkpoints, one thread per `run_id` | `run_round`, `resume` | builds the graph |
| Operation journal (`operation_journal.py`) | one row per idempotency key | `prepare`, `get`, `transition`; in memory under a lock or in SQLite | called by the graph |
| Market strategy (`strategy.py`) | none (local loops) | `plan_purchases` | called by plan_market |
| Critique strategy (`strategy.py`) | none | `select_targets`, `create`, `rank` | called by the graph |
| Pricing policy (`strategy.py`) | none | `quote`, `negotiate` | called by the seller |
| Seller API and service (`api.py`, `seller.py`) | quotes, agreed prices, low offers, closed negotiations (in memory) | quote, negotiate, order, deliver; run in a thread pool | ledger |
| Ledger (`ledger.py`) | orders, event identities, conflicts, room inbox and cursors (SQLite) | `record`, `update_status`, `validate_events`, `receive_messages`, `acknowledge_message` | called by seller and room client |
| Room client (`sharednet_adapter.py`) | `_last_sequence`, member token | `join`, `wait`, `read`, `say`, `receive_pending` | SharedNet over HTTP, ledger |
| HTTP Arena client (`sharednet_adapter.py`) | none | the six calls of `ArenaClient` | the Arena over HTTP |
| Telemetry, event identity, risk rules | none | `identity`, `deduplicate_events`, `evaluate_interaction_trace`: pure functions of an event list | called by the seller and the ledger |
| Client CLI (`client_cli.py`) | none but the key its user passes again | `analyze`: quote, order, deliver | the seller over HTTP |
| Seller harness (`seller_harness.py`) | one round of buyers | `_exercise_buyer`: negotiate, order twice, replay changed, deliver, assert | an app in its own process |
| Sales replies, model client, scenario harness, dashboard, scripts | none that survives a call | | |

What is hard in this code:

- **Crashes.** A purchase spans three stores that are not updated together: the
  checkpoint, the journal and the Arena. LangGraph saves checkpoints behind the
  running nodes, so a crash takes back *several* nodes while the journal and the
  Arena keep theirs, and the resumed run may discover other listings.
- **Timeouts and late answers.** A request whose answer is lost may have been
  settled, or may settle later, and is reconciled while it races the Arena.
- **Replays.** `resume`, and `run_round` on the same `run_id`, walk the plan again
  over entries in any status, and nothing stops a second invocation while the
  first is alive: both share the checkpoint, the journal and the keys.
- **Retries.** A command whose order was recorded but whose answer was lost is run
  again with its key and a *new* quote; a harness buyer sends two copies at once.
- **Two transactions that look like one.** `SqliteOperationJournal.transition`
  reads and updates separately; an order checks its price under a lock, then
  validates and records in two ledger transactions; a delivery takes three.
- **Two cursors.** Raw reads move the room client's cursor; the durable consumer
  must not depend on it.

Correctness, per component: a key is sent at most once, progress counts exactly
the money that moved, and a valid report accounts for every planned purchase
(workflow); a verdict is final and a key bound to one intent (journal); a
returned plan meets the budget and both floors, and the loops end (planner); an
accepted order keeps its price and content and can be delivered (seller); a
retry is served and gets what was ordered (clients); a report depends on the
events and not on how they arrived (telemetry); no message is skipped,
reordered, or repeated without a failure (room).
`PROJECT.json` lists each hazard at its line with the properties that cover it.

## Modules

| Module | Models |
|---|---|
| `OperationJournal` | the journal as its callers see it: atomic `Prepare` and `Transition` |
| `SqliteJournal` | the SQLite statements, with other connections and deaths in between |
| `SharedRun` | composes `SqliteJournal` with the purchase cycle of several invocations of one run, in one process or several |
| `ArenaWorkflow` | graph, runner, checkpoints, journal (an instance of `OperationJournal`) and the external Arena |
| `PurchaseContract` | abstract: a purchase is asked for once, paid once after that, booked once after that, for good unless the run is started over with another progress |
| `ArenaWorkflowInvariant` | the inductive invariants of the workflow |
| `MarketPlan` | `plan_purchases`, one action per loop iteration |
| `Ledger`, `SellerApi` | the ledger's order and event tables; the HTTP handlers on top |
| `SellerClients` | composes `SellerApi` with the CLI's `analyze` and the harness's buyers |
| `InteractionReport` | event identity, deduplication and the whole report as operators, on traces that grow, repeat and reorder |
| `RoomInbox` | `receive_pending` over the inbox tables, with the room and its consumer |
| `ArenaWorkflowProofs`, `ArenaWorkflowTheorems`, `SharedRunProofs` (which also holds those of `SqliteJournal`), `MarketPlanProofs`, `SellerApiProofs`, `SellerClientsProofs`, `InteractionReportProofs`, `RoomInboxProofs` | theorems and proofs |
| `MC*` | constants for TLC |

**ArenaWorkflow.** `st` is the channels of `ArenaGraphState`, with `ArenaProgress`
flattened into it and `st.next` the node the edges select. A node is one action;
where it awaits the Arena it is split: `ExecutePurchase` writes SUBMITTED and
sends, one of `BuyReturnsReceipt`, `BuyRefused` and `BuyTransportFails` ends it;
feedback and ranking take one action per attempt. `Commit` applies a node's
result and queues its checkpoint in `unsaved`; `SaveCheckpoint` moves one to
`saved`, possibly several nodes later (`MaxLag`). `Stop` drops `st` and
`unsaved`; `Resume` goes on from `saved`. `run_round` applies its input to the
channels of the thread (`Started`): the mode of this call, the violations and the
other channels as they were, and the progress as it was or, when the caller passes
one (`arena.py:109-110`), that one instead. So does the first call (`Init`) on empty
channels, and each later one on the same `run_id` (`RunRoundAgain`). A progress that
is passed is one of `Carried`: that of the report of an earlier run, hence exact, with
trades of its own (`OtherTrades`). One of another `agent_id` raises ValueError in
prepare and is left out. The Arena settles, refuses or loses a request
at any time, whether or not anyone still waits; `ArenaFaults` names how a
settlement may differ from the intent (price, seller, service, not paid,
duplicate trade, hidden receipt, one-sided or mismatching ledger entries), after
the fields of `ArenaScenario`. `BuiltinErrors` tells the mock client, whose
timeouts are `TimeoutError`, from the HTTP client, whose timeouts are not.
`discover_services` and the planner are abstracted to the targets and the plan a
discovery leads to; `MarketPlan` says what those plans can be.

**SqliteJournal.** `call[c]` is a transition between its SELECT and its UPDATE and
the row it read. `prepare` is a single write transaction, hence one step.

**SharedRun.** `walk[c]` is where invocation `c` stands in the purchase cycle, with
the part of the state the cycle changes; `saved` is the thread's latest checkpoint,
which every invocation overwrites and from which `Start` loads. `process[c]` says
who shares an event loop: between two awaits nothing else of that process runs
(`MidNode`), so there get, transition and the call of `buy` are one turn, while
another process may come between any two statements. `ProcessDies` takes all
invocations of a process. The Arena settles as asked or refuses, and pays one key
once; an answer that is taken for a failure may also follow a request that was paid
(`BuyFails`). The faulty Arena, late checkpoints and changing plans are `ArenaWorkflow`'s.

**SellerApi.** `task[t]` is what a handler has checked and is about to do; each
ledger method is one step. `Restart` loses quotes and tasks and keeps the ledger.
In `SellerApi` alone a handler that only answers an error is no step. An event is
an identity key and a content hash, a batch a list of them without repeats (repeats
go before the order is stored), and a replayed order is compared with its list, so
that another order of the events is another request. `create_order` looks the quote
up and checks its expiry before it takes `negotiation_lock`, and reads the price
under it. `CheckOrder` is one step for both: of all that may happen in between, only
`Expire` touches what the first part read, and nothing under the lock reads that, so
the expiry can be put after the lock with the same result; quotes never change
otherwise. The two ledger transactions that follow are steps of their own.

**SellerClients.** `client[c]` is the step of a CLI command or a harness buyer and the
quote and price it holds; `owner[t]` is who waits for handler `t`, so that a handler
whose client has gone works on for nobody. `Job[c]` is what it orders. Commands meet
lost exchanges, expired quotes and restarts and are run again with the same key
(`RunAgain`); the harness has an app of its own (`inProcess`), where none of this
happens, and its assertions are the steps that lead to `refused` or `failed`.

**InteractionReport.** `trace` is the list of events as they arrive; `Submit`,
`SendAgain` and `Overtake` are what senders and the network make of it. `Outcome`
is what the service answers: the conflict of `deduplicate_events`, or the report of
`evaluate_interaction_trace` with score and rates as exact integers (the score
times `2000 * Count`, the rate in ten-thousandths), stages, flags and provenance
included.

**RoomInbox.** A message is its sequence number; `room[s]` is its id, which may be
missing or reused, or `Hole` where the room shows the member nothing. `Fetch`,
`Store`, `Handle` and `Acknowledge` are separate steps with crashes and raw reads in
between. `Answers` is what the room may return: a page may be short, may hold messages
that were sent before, which `INSERT OR IGNORE` keeps as they are, and its
`next_cursor` may lie past its last item. Two things are assumed of the room, because
`receive_pending` stores whatever cursor it is given (`sharednet_adapter.py:277`): the
cursor passes no later message that the page does not hold, and a page is not without
later messages when there are some. A room that broke the first would make any reader
skip messages.

## Runs

| Run | Shows | States |
|---|---|---|
| `faults` | with every Arena fault, a price that changes between discoveries, two crashes and a second `run_round`, progress carried in or not: a key is sent once, the cycle finds its journal entry, no checkpoint passes an unjudged purchase, progress is exact, counts only paid trades, FAILED means uncharged, a valid report settles its plan and accounts for every credit, SETTLED is final, checkpoints forget nothing but what a caller replaces, and the whole implements `PurchaseContract` | 3.3 M |
| `full` | a round in any mode, then one in any mode, with or without a carried progress, two targets, two purchases, two lost exchanges and a crash: one loss is absorbed by the retry, a valid report means everything was published, and every run completes | 0.9 M |
| `resumers` | a run resumed while alive, two invocations, four starts: one event loop sends once and keeps the journal atomic; in any case a key keeps its intent and a valid report means paid | 2.8 M |
| `plan` | every list of up to four listings in every order | 125 k |
| `seller` | two interleaved handlers, conflicting batches, negotiation, expiry, a restart: an order is final, deliverable and at a price of its quote, an agreement binds | 1.7 M |
| `clients` | two commands of one buyer whose events contradict, or two harness buyers: retries are served, what was delivered is what was ordered, no assertion of the harness fails, everybody ends | 215 k |
| `reports` | every trace of up to four of twelve events: replays and order of arrival decide nothing, a dispute never helps | 23 k |
| `room` | four messages or holes in pages of two, messages sent again, missing and reused ids, two failures | 340 k |
| `http`, `replan`, `downgrade`, `incomplete` | disagreements with what the repository says, below | |

The bounds. Two purchases are the fewest in which one can be recorded as another
and a plan can be reordered. Progress is carried in empty or with a purchase of the
same service, which may be confused with the run's own, and in `full` with a seller
already tried, critiqued and ranked. Two crashes allow a crash
during recovery; a lag of two to three checkpoints loses plan and purchase
together. Two keys, intents and connections are the fewest with a conflict; two
handlers, two events with two contents each and two order keys give every rival
order. Four messages in pages of two give a full page behind a pending one; there are
three ids, so that of four messages two share one or one has none and the page is
rejected, and three well identified ones with a hole are consumed. The
planner's prices (20, 27, 40, 52) put totals at, below and above 80 and 100 and
differ by less than a factor of 2.9, so each order of them is one the sort by
value per credit can produce. In `faults` the floors are below the plan's total,
so that a missing purchase cannot hide behind the floor violation it would cause.
Four starts let each of two invocations die and be resumed once. Two faults and a
restart let one command lose the answer to its order and then its quote, and the
budgets 5 and 6 are the floor and the full price. Four messages are the fewest
that hold two events, a replay of one and a third; the events have missing and
shared ids, one id with two contents, equal times and a latency past the 20 s
after which no points are left. MCInteractionReport.tla lists them.

Deadlock is checked except in `seller`, `clients`, `reports` and `room`: an idle
server, clients that are all served, a full trace and a room nobody speaks in do
stop.

Fairness. `ArenaWorkflow!FairSpec`: weak fairness of a ready node (the event loop
runs it, an outstanding HTTP call returns or times out: both clients set a
timeout), of the checkpoint saver's task and of the operator who resumes a stopped
run. Nothing is assumed of the Arena: it may never answer. `MarketPlan`: the loop
goes on. `RoomInbox`: the consumer calls `receive_pending` in a loop.
`SellerClients!Fairness`: a program that waits for nobody and a handler go on, and
whoever runs a command runs it again until it succeeds, as the help of
`--idempotency-key` and `docs/AGENT_CLIENT.md` ask. Crashes and lost exchanges are bounded by constants, never excluded.

## Where the code differs from what is said of it

- **`http`.** `execute_purchase` takes `TimeoutError` and `ConnectionError` as
  ambiguous and everything else as FAILED (`graph.py:344-357`).
  `HttpArenaClient` raises `httpx` exceptions, which are neither: a purchase that
  was charged before its response timed out is FAILED and is not reconciled,
  against `README.md:28-30`. The run checks the step that stores FAILED
  (`ChargedIsNotRecordedFailed`), so its trace has the Arena settle and charge first.
  With the mock's exceptions the stronger `FailedMeansUncharged` holds (`faults`).
  `retry_idempotent` misses httpx exceptions for the same reason.
- **`replan`.** The key names the plan position, and the plan may not be saved yet
  when its first purchase leaves. After a crash another ranking gives the service
  another key, and it is paid twice, against `README.md:24-25`. With an unchanged
  market `NoDoublePay` holds (`faults`), and with `durability="sync"` (`MaxLag =
  0`) the plan would be saved first.
- **`downgrade`.** When a run is resumed by a second process, a SETTLED row is
  overwritten (`operation_journal.py:257-289`), against the early return at line
  264 and `tests/test_operation_journal.py:73`. On one event loop it is not
  (`OneLoopIsAtomic`). A report stays honest all the same: the receipt survives in
  the row but not the verdict, so the purchase is reported as a violation or is
  reconciled again (`ValidMeansPaid`).
- **`incomplete`.** `plan_purchases` raises "No valid plan" although one exists.

## Proofs

Assumptions are the named ASSUMEs of the modules: the bounds are numbers, the
"no value" constants lie outside the sets they complete, a progress carried into a run is
exact and of other trades, and, in `SellerApi`, the
floor is at most the base and the first price. `SellerClients!JobsAssumption` adds
what the last two theorems about clients need: the first-purchase discount rounds to
nothing (`math.ceil(6 * 0.9)` is 6, strategy.py 38-39), every command and every
harness buyer has a key of its own, and the harness's events differ in identity when
they differ at all (they have no `event_id`). TLC evaluates all of them.

**Workflow.** None of the safety properties is inductive. `InductiveInvariant`
adds what a step relies on: `RemoteSound`, the journal and the Arena agree key by
key (nothing was sent before SUBMITTED, an entry sent is sent once, SETTLED is
backed by the trade the Arena settled and matches the intent); and `Sound(s,
journal, trades)` for *every* snapshot `s`, that is memory, the checkpoint on disk
and each one not saved yet, since a crash may bring any of them back. `Sound` is
kept because journal and trades only grow in the ways it depends on: an intent
never changes, a verdict stays one, a trade is settled once
(`ArenaWorkflowProofs`, one lemma per action). From `Invariance` follow
`SentAtMostOnce`, `PendingAlwaysJournalled`, `AdvanceNeedsVerdict`,
`RecordedAlwaysPaid`, `ValidReportMeansSettled`, `TypeCorrect` and
`SettledStaysSettled`. They hold for any plan length, market, set of faults, lag,
number of crashes and repeated rounds, in whatever modes and with whatever progress
these are called. `RecordedAlwaysPaid` speaks of the receipts this run adds: those of a
carried progress are trades of another run, which its journal never saw.

The other promises have an invariant each, inductive relative to the first
(`ArenaWorkflowInvariant`, `ArenaWorkflowTheorems`). The argument that repeats is
that every snapshot after a step was one before it, or is the running state the
step commits (`SnapshotsMove`), so only the committing nodes need care.

- `ProgressAlwaysExact`. `ProgressInvariant`: in each snapshot `spent` is the sum of
  the receipts, `purchased` their sellers, and no two receipts bear one trade. The
  sum is a fold; that adding a receipt adds its amount is shown first.
- `CheckpointAccumulates`. `Chain`: disk, queue and memory are a chain in which each
  state keeps the violations of the one before, and its receipts with at most one more,
  unless a caller of `run_round` has just replaced its progress (`Replaced`). So the
  violations on disk only grow, whatever is passed, crashed or lost; receipts do between
  two such calls. Nothing better is true: `run_round(progress=ArenaProgress(...))` on the
  same `run_id` does make the checkpoint forget its receipts.
- `ContractImplemented`, from `Chain` and `TradesAsked`: a send is `Ask`, a settlement
  `Pay`, a save `Book`, or `StartOver` if it is the save of a replaced progress. `paid` and `booked` are the *trades* that moved credits and
  that the checkpoint counts, without those of earlier runs. Under the purchases' own keys the refinement is false,
  when a plan holds a service twice and the Arena answers the second purchase with
  the trade of the first: that purchase would be paid and booked in one step.
- `JournalFollowsProtocol`: what the workflow does to the journal is `OperationJournal`'s
  specification. Each purchase node writes an entry that exists, for the intent of its
  position, with SETTLED always carrying the receipt that settles. This is the
  protocol `SqliteJournal` is proved about (`TransitionCalls`).
- `ValidCritiqueAlwaysPublished`. `CritiqueInvariant`: a critique that a state counts
  was carried in, is in the Arena or is a violation of the run, and so is each one the
  running node has passed. A carried progress may call the critiques complete; those of
  the round's own targets and the ranking are posted all the same.
- `FailedNeverCharged` assumes `BuiltinErrors`, a client whose timeouts are
  `TimeoutError` as the mock's are; the run `http` shows what happens without.
- `OneLossIsAbsorbed` assumes `BuiltinErrors` and an Arena that does not refuse: a
  refusal is no lost exchange, and its violation is deserved.
- `ServicePaidOnce` and `ValidReportIsComplete` follow from `PlanInvariant` (only
  purchases of a discovered plan are ever prepared) when the market keeps still across
  the restarts of a run: `SamePurchases`, every plan buys the same services in the same
  order. Prices and sellers may move, and a plan may buy a service several times, as
  `strategy.py:235-250` does to reach the floor. `faults` has such a market; `replan` has
  not, and finds the double payment. `ServicePaidOnce` needs no such market when every
  checkpoint is saved before the next node runs (`MaxLag = 0`, durability="sync") and
  the round is not repeated: then `PlanIsJournalled`, every entry of the journal is a
  purchase of the plan on disk, is invariant (`SyncedPlanInvariance`), crashes included.
  A repeated round plans again by design.

**Journal.** `SqliteInvariant` says of each pending update that it is a call the
workflow makes on an existing row. `NothingPreparedAgain` and
`SettledRowsHaveReceipts` then hold for any number of connections.
`OneConnectionIsAtomic` is the refinement: with one connection the row is still
the one that was read when the UPDATE runs, so SELECT is a stuttering step and
UPDATE the atomic `Transition`.

**Shared run.** `WorkflowUsesTheJournal` shows that the composition implements
`SqliteSpec`, so the journal's theorems carry over (`ResumedNothingPreparedAgain`).
`ControlInvariant` says that of one process at most one invocation is between two
awaits and ties each pending SQL call to the node that made it. `ValidReportsArePaid`
adds that receipts, in the journal, in a pending call or in a checkpoint, are of
paid keys, and that a walk without violations has the receipt of every purchase it
has passed. `OneLoopSendsOnce` adds, under `OneLoop`, that an entry that is still
PREPARED was never sent and that nobody else is between the check and the send;
`OneLoopCannotTear` that the row a transition read is the row it updates. All hold
for any number of invocations, processes, starts and purchases.

**Planner.** `PlanInvariant` ties `sellers` to the selection and keeps `spent` within
the budget. `ReturnedPlansAreValid` gives budget, both floors and eligibility.
`SpentWithinBudget` adds that `spent` is the recursive sum of price times quantity:
the invariant `SpentIsExact` carries the running totals of the quantities, which a
selection raises by the price from the service's position on, and running totals are
unique.
`IterationsAdvance` is the safety half of `PlanningEnds`: the remaining phases, the
unspent credits and the remaining listings decrease lexicographically with every
iteration, because a selection costs at least one credit.

**Seller.** `SellerInvariant`: the events of every order, and of every handler past
validation, are registered with their own content (identities are never
rewritten), and a checked order carries a price of its quote even after the
negotiation moved on. `OrdersStayDeliverable`, `OrdersCarryTheirPrice`,
`OrdersAreFinal` and `AgreementsBind` follow, and that a quote is open, agreed within
its terms, or closed (`NegotiationsConsistent`), which is a part of the invariant.

**Seller and clients.** `ClientsUseTheService` shows that the composition implements
`SellerApi!Spec`: a client names only quotes it was given and offers only their
reservation price. `ClientsInvariant` says what each client knows (its quote is for
its own job; once it has a receipt its order is on record) and what each handler will
tell it. Both are stable under everybody else's steps, because an order on record is
final and a quote keeps its terms; what needs care is a handler that outlives its
client's interest, and that the harness's changed replay and every delivery are sent
one at a time, so that their answers cannot be mistaken. `DeliveredIsOnRecord`
follows. `ServedInvariant` adds that a job alone settles the price and the input under
its key: quotes are not shared, the ask price is the same for a buyer on record, every
task and order is of some job of the running world, and conflicts persist. So no
attempt meets another order under its key, which gives `RetriesAreNotRefused` and
`HarnessAssertionsNeverFail`, for any number of clients, quotes, handlers, lost
exchanges and restarts.

**Reports.** For any events and any length of trace. `ReplaysAreNeutral`: a replay is
never the first of its key, so the kept positions and with them every operator of
the report are the same. `ArrivalOrderDecidesNothing`: swapping two neighbours of
different times maps positions by a bijection that keeps the first of each key,
the order by time and every count; equal contents have equal times, which is why
two copies of one event need not be excluded.
`PublicReportsAreNotEligible`: on self-reported events alone no report is eligible,
which the harness asserts of one example.
`DisputesNeverHelp`: a step from an undisputed report to a disputed one submits a
dispute that is a new unique event. With one event more, valid or not, the exact
score falls, since 20 points over the new count are less than 25, and rounding keeps
the order.

**Room.** `InboxInvariant`: the inbox is the messages up to the durable cursor, the
acknowledged ones are a prefix of it, a page in flight holds all that lies between this
cursor and its own, and a batch in hand is the rest of the inbox in order; every processing of a message but one is paid for by
a failure. `NothingEverSkipped`, `ProcessedInRoomOrder` and `RepeatsNeedFailures`
follow, for any page size and number of messages, ids, holes and failures, under the
two assumptions about the room. That sorting a set of messages lists each once and in
order is `SortedMessages`.

Sums and other recursive functions are handled by least counterexamples: in a
nonempty set of positions (or of parts of a finite set) for which a claim fails there
is a smallest one (`NatLessThanWellFounded`, `FS_StrictSubsetOrderingWellFounded`
with `WFMin`), and the recursion yields a smaller. The library's induction theorems
take an operator as a parameter, which the provers cannot instantiate.

Only model-checked: `RunCompletes`, `PlanningEnds`, `EveryMessageAcknowledged` and
`EveryoneIsServed`, since liveness under fairness is beyond the prover. Every
invariant and every action property of the passing runs is proved.

## Not modelled

Two processes that serve one ledger file; the choice of critique targets and the
text the strategies write; authentication; parsing of payloads; the soak mode and
statistics of the seller harness; model client, sales replies, scenario harness,
dashboard and scripts, which keep no state the rest depends on.
`receipt.buyer_id`, which `receipt_violation` does not compare, and two listings
with one `service_id` are listed as hazards without a property.

## Plan

1. `CritiqueStrategy`: `select_targets` and `rank`, composed with `Discover`
   through listings instead of ready-made plans, which also brings two listings
   with one `service_id` into `ArenaWorkflow`.
2. Two processes on one ledger file: the ledger's methods as SQL statements, as
   `SqliteJournal` does for the journal.
3. Proofs for what 1 and 2 add; that a planner's listings keep `SamePurchases` when
   their values do not change.
