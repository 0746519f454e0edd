---------------------------- MODULE ArenaWorkflow ----------------------------
(***************************************************************************)
(* One Arena run (one run_id, hence one LangGraph thread): the nodes of    *)
(* graph.py in execution order, the outbound operation journal they write, *)
(* the checkpoints LangGraph saves behind them, and the remote Arena that  *)
(* settles purchases on its own time.  The process may die between any two *)
(* steps and is started again by ArenaRunner.resume, or by run_round on    *)
(* the same run_id, in a mode and with a progress of the caller's choice.  *)
(*                                                                         *)
(* A node is one action, except where it awaits the Arena: buy is split    *)
(* into sending and answer, the feedback loop and the ranking into one     *)
(* action per attempt.  Everything a node does between two awaits happens  *)
(* in one step of one event loop.                                          *)
(***************************************************************************)
EXTENDS Integers, Sequences, FiniteSetsExt

CONSTANTS
    Services, Sellers,   \* identifiers of listings and of their owners
    Amounts,             \* credits a listing may cost or a trade may move
    MaxPlan,             \* bound: length of the longest purchase plan
    Discoveries,         \* what discover_services may lead to, see Discovery
    Modes,               \* ArenaRunModes the calls of run_round may ask for
    Carried,             \* ArenaProgress a call may pass, from earlier runs
    OtherTrades,         \* trade_ids of those earlier runs
    MinimumSpend,        \* 80 in models.py and strategy.py
    MinimumProducts,     \* 3 in models.py and strategy.py
    BuiltinErrors,       \* TRUE: the client raises TimeoutError/ConnectionError
                         \* (MockArenaClient); FALSE: httpx errors (HttpArenaClient)
    ArenaFaults,         \* ways the Arena departs from the intent, see Faults
    MaxLag,              \* bound: node results whose checkpoint is not saved yet
    MaxStops,            \* bound: times the process dies
    MaxReruns,           \* bound: run_round calls on the same run_id
    MaxLosses,           \* bound: transport failures outside the purchase cycle
    NoIntent, NoReceipt, NoKey

RunModes == {"critique", "market", "full_dry_run"}
Faults == {"refused", "failed", "price", "seller", "service", "duplicate",
           "hidden", "one_sided", "mismatch"}

\* A position in the plan, counted from 0 as purchase_index is.
Positions == 0 .. MaxPlan - 1

\* f"{run_id}:purchase:{service_id}:{index}" within one run_id.
PurchaseKeys == Services \X Positions

PurchaseIntent == [service : Services, seller : Sellers, price : Amounts]

\* trade_id is abstracted to the purchase it was first issued for.
TradeReceipt ==
    [trade : PurchaseKeys, service : Services, seller : Sellers,
     amount : Amounts, status : {"paid", "failed"}]
EarlierReceipt ==
    [trade : OtherTrades, service : Services, seller : Sellers,
     amount : Amounts, status : {"paid", "failed"}]

ArenaProgress ==
    [tried : SUBSET Sellers, critiqued : SUBSET Sellers, ranked : BOOLEAN,
     receipts : SUBSET EarlierReceipt, spent : Nat, purchased : SUBSET Sellers]

Credits(receipts) == MapThenSumSet(LAMBDA r : r.amount, receipts)

\* spent_credits is the sum of the receipts, purchased_products their sellers, and
\* no trade is counted twice.
CountsItsReceipts(x) ==
    /\ x.spent = Credits(x.receipts)
    /\ x.purchased = {r.seller : r \in x.receipts}
    /\ \A r1, r2 \in x.receipts : r1.trade = r2.trade => r1 = r2

(* discover_services is external.  What a set of listings leads to is a       *)
(* function of it: the sellers select_targets picks (none: ComplianceError)   *)
(* and the plan plan_purchases makes (none: ComplianceError).                 *)
Plan == {p \in Seq(PurchaseIntent) : Len(p) =< MaxPlan}
Discovery == [targets : Seq(Sellers), plan : Plan]

ASSUME ConstantsAssumption ==
    /\ MaxPlan \in Nat \ {0}
    /\ Amounts \subseteq Nat
    /\ Discoveries # {} /\ Discoveries \subseteq Discovery
    /\ Modes # {} /\ Modes \subseteq RunModes
    /\ MinimumSpend \in Nat /\ MinimumProducts \in Nat
    /\ BuiltinErrors \in BOOLEAN
    /\ ArenaFaults \subseteq Faults
    /\ {MaxLag, MaxStops, MaxReruns, MaxLosses} \subseteq Nat
    /\ NoIntent \notin PurchaseIntent
    /\ NoReceipt \notin TradeReceipt \cup EarlierReceipt
    /\ NoKey \notin PurchaseKeys

\* A progress passed to run_round is the one of some report, hence exact.
ASSUME CarriedAssumption ==
    /\ Carried \subseteq ArenaProgress
    /\ OtherTrades \cap PurchaseKeys = {}
    /\ \A p \in Carried : IsFiniteSet(p.receipts) /\ CountsItsReceipts(p)

CarriedReceipts == UNION {p.receipts : p \in Carried}
CarriedCritiques == UNION {p.critiqued : p \in Carried}

VARIABLES
    st,         \* the channels of ArenaGraphState, as the process holds them
    alive,      \* an invocation of the graph is running
    local,      \* what the running node keeps in its own variables
    saved,      \* the latest checkpoint on disk
    unsaved,    \* checkpoints handed to the saver and not on disk yet, in order
    journal,    \* the outbound operation journal
    arena,      \* per purchase key, what became of the request
    trades,     \* per purchase key, the trade the Arena settled for it
    sends,      \* per purchase key, how many times buy was called
    published,  \* feedback and ranking that reached the Arena
    stops, reruns, losses    \* counters of the bounded events

clientVars  == <<st, alive, local>>
durableVars == <<saved, unsaved>>
arenaVars   == <<arena, trades, sends>>
countVars   == <<stops, reruns, losses>>
vars == <<clientVars, durableVars, journal, arenaVars, published, countVars>>

Journal == INSTANCE OperationJournal
             WITH Keys <- PurchaseKeys, Intents <- PurchaseIntent,
                  Receipts <- TradeReceipt

Nodes == {"prepare", "discover", "evaluate_services", "publish_required_feedback",
          "rank", "plan_market", "prepare_purchase", "execute_purchase",
          "reconcile_purchase", "record_purchase", "audit", "complete"}

\* A violation is told apart by its kind and its subject, as its text is.
ViolationKinds ==
    {"targets", "plan", "feedback", "ranking", "duplicate", "bilateral",
     "disputed", "failed", "unknown", "critique_floor", "market_floor"}
NoSubject == "run"
Violation == ViolationKinds \X (Services \cup Sellers \cup PurchaseKeys \cup {NoSubject})

\* ArenaGraphState with ArenaProgress flattened into it; `next` is the node the
\* edges select, `found` stands for listings and evaluation_targets.
GraphState ==
    [next : Nodes, mode : RunModes, found : Discovery, plan : Plan,
     index : Nat, pending : PurchaseKeys \cup {NoKey},
     tried : SUBSET Sellers, critiqued : SUBSET Sellers, ranked : BOOLEAN,
     receipts : SUBSET (TradeReceipt \cup EarlierReceipt),
     spent : Nat, purchased : SUBSET Sellers,
     violations : SUBSET Violation, report : {"none", "valid", "invalid"}]

FreshState ==
    [next |-> "prepare", mode |-> "full_dry_run",
     found |-> [targets |-> <<>>, plan |-> <<>>],
     plan |-> <<>>, index |-> 0, pending |-> NoKey,
     tried |-> {}, critiqued |-> {}, ranked |-> FALSE,
     receipts |-> {}, spent |-> 0, purchased |-> {},
     violations |-> {}, report |-> "none"]

\* buying: the call of client.buy has not returned; posted: critiques already
\* handled; attempt: of the current post; failed: targets not posted.
IdleNode == [buying |-> FALSE, posted |-> 0, attempt |-> 1, failed |-> {}]

\* graph_input of run_round over the channels s: the mode always, the progress
\* only when the caller passes one, which then replaces the one in s.
WithProgress(s, p) ==
    [s EXCEPT !.tried = p.tried, !.critiqued = p.critiqued, !.ranked = p.ranked,
              !.receipts = p.receipts, !.spent = p.spent, !.purchased = p.purchased]
AtStart(s) == {[s EXCEPT !.next = "prepare", !.mode = m] : m \in Modes}
Started(s) == AtStart(s) \cup UNION {AtStart(WithProgress(s, p)) : p \in Carried}

Init ==
    /\ st \in Started(FreshState) /\ alive = TRUE /\ local = IdleNode
    /\ saved = st /\ unsaved = <<>>
    /\ Journal!Init
    /\ arena = [k \in PurchaseKeys |-> "idle"]
    /\ trades = [k \in PurchaseKeys |-> NoReceipt]
    /\ sends = [k \in PurchaseKeys |-> 0]
    /\ published = {}
    /\ stops = 0 /\ reruns = 0 /\ losses = 0

-----------------------------------------------------------------------------
(* LangGraph.  A node's result is applied to the channels and its checkpoint *)
(* is queued; with the default durability the next node does not wait for    *)
(* the save (MaxLag = 0 is durability="sync").                               *)

Runs(node) ==
    /\ alive /\ st.next = node /\ ~local.buying
    /\ Len(unsaved) =< MaxLag

Commit(state) ==
    /\ st' = state
    /\ unsaved' = Append(unsaved, state)
    /\ local' = IdleNode
    /\ UNCHANGED <<alive, saved>>

SaveCheckpoint ==
    /\ unsaved # <<>>
    /\ saved' = Head(unsaved)
    /\ unsaved' = Tail(unsaved)
    /\ UNCHANGED <<clientVars, journal, arenaVars, published, countVars>>

-----------------------------------------------------------------------------
(* Nodes before the purchases.                                               *)

\* Mutant: every run_round starts from an empty progress.
PrepareAfresh ==
    /\ Runs("prepare")
    /\ Commit([st EXCEPT !.next = "discover", !.receipts = {}, !.spent = 0,
                         !.purchased = {}])
    /\ UNCHANGED <<journal, arenaVars, published, countVars>>

Prepare ==
    /\ Runs("prepare")
    /\ Commit([st EXCEPT !.next = "discover"])
    /\ UNCHANGED <<journal, arenaVars, published, countVars>>

Discover ==
    /\ Runs("discover")
    /\ \E d \in Discoveries :
         LET found == [d EXCEPT !.targets = IF st.mode = "market" THEN <<>> ELSE @]
             short == st.mode # "market" /\ d.targets = <<>>
         IN Commit([st EXCEPT
              !.found = found,
              !.violations = IF short THEN @ \cup {<<"targets", NoSubject>>} ELSE @,
              !.next = CASE st.mode = "market" -> "plan_market"
                         [] short -> "audit"
                         [] OTHER -> "evaluate_services"])
    /\ UNCHANGED <<journal, arenaVars, published, countVars>>

\* discover_services raises: the exception ends the invocation.
DiscoverRaises ==
    /\ Runs("discover")
    /\ losses < MaxLosses
    /\ losses' = losses + 1
    /\ alive' = FALSE
    /\ UNCHANGED <<st, local, durableVars, journal, arenaVars, published, stops, reruns>>

Targets == {st.found.targets[i] : i \in 1 .. Len(st.found.targets)}

\* A failed invocation becomes evidence: the product was tried all the same.
EvaluateServices ==
    /\ Runs("evaluate_services")
    /\ Commit([st EXCEPT !.tried = @ \cup Targets,
                         !.next = "publish_required_feedback"])
    /\ UNCHANGED <<journal, arenaVars, published, countVars>>

\* One attempt of retry_idempotent.  A lost exchange may have reached the Arena.
Attempt(item, outcome) ==
    /\ outcome = "refused" => "refused" \in ArenaFaults
    /\ outcome = "lost" => losses < MaxLosses
    /\ losses' = IF outcome = "lost" THEN losses + 1 ELSE losses
    /\ published' \in
         CASE outcome = "ok" -> {published \cup {item}}
           [] outcome = "refused" -> {published}
           [] outcome = "lost" -> {published, published \cup {item}}

Outcomes == {"ok", "refused", "lost"}

\* Mutant: no retry.
NeverRetries(outcome) == FALSE

\* Only a first attempt that raised TimeoutError or ConnectionError is retried.
Retries(outcome) == outcome = "lost" /\ BuiltinErrors /\ local.attempt = 1

PostCritique ==
    /\ Runs("publish_required_feedback")
    /\ local.posted < Len(st.found.targets)
    /\ LET seller == st.found.targets[local.posted + 1] IN
       \E outcome \in Outcomes :
         /\ Attempt(<<"feedback", seller, local.posted>>, outcome)
         /\ local' = IF Retries(outcome)
                     THEN [local EXCEPT !.attempt = 2]
                     ELSE [local EXCEPT
                             !.posted = @ + 1, !.attempt = 1,
                             !.failed = IF outcome = "ok" THEN @ ELSE @ \cup {seller}]
    /\ UNCHANGED <<st, alive, durableVars, journal, arenaVars, stops, reruns>>

\* Mutant: a critique that could not be posted is forgotten.
FeedbackDoneSilently ==
    /\ Runs("publish_required_feedback")
    /\ local.posted = Len(st.found.targets)
    /\ Commit([st EXCEPT !.critiqued = @ \cup Targets, !.next = "rank"])
    /\ UNCHANGED <<journal, arenaVars, published, countVars>>

FeedbackDone ==
    /\ Runs("publish_required_feedback")
    /\ local.posted = Len(st.found.targets)
    /\ Commit([st EXCEPT !.critiqued = @ \cup Targets,
                         !.violations = @ \cup {<<"feedback", s>> : s \in local.failed},
                         !.next = "rank"])
    /\ UNCHANGED <<journal, arenaVars, published, countVars>>

Rank ==
    /\ Runs("rank")
    /\ \E outcome \in Outcomes :
         /\ Attempt(<<"ranking", NoSubject, 0>>, outcome)
         /\ IF Retries(outcome)
            THEN /\ local' = [local EXCEPT !.attempt = 2]
                 /\ UNCHANGED <<st, alive, durableVars>>
            ELSE Commit([st EXCEPT
                   !.ranked = IF outcome = "ok" THEN st.found.targets # <<>> ELSE @,
                   !.violations = IF outcome = "ok" THEN @
                                  ELSE @ \cup {<<"ranking", NoSubject>>},
                   !.next = IF st.mode = "critique" THEN "audit" ELSE "plan_market"])
    /\ UNCHANGED <<journal, arenaVars, stops, reruns>>

\* Mutant: the first position is off by one.
PlanMarketOffByOne ==
    /\ Runs("plan_market")
    /\ Commit([st EXCEPT !.plan = st.found.plan, !.index = -1,
                         !.next = "prepare_purchase"])
    /\ UNCHANGED <<journal, arenaVars, published, countVars>>

PlanMarket ==
    /\ Runs("plan_market")
    /\ Commit(IF st.found.plan = <<>>
              THEN [st EXCEPT !.plan = <<>>, !.next = "audit",
                              !.violations = @ \cup {<<"plan", NoSubject>>}]
              ELSE [st EXCEPT !.plan = st.found.plan, !.index = 0,
                              !.next = "prepare_purchase"])
    /\ UNCHANGED <<journal, arenaVars, published, countVars>>

-----------------------------------------------------------------------------
(* The purchase cycle.                                                       *)

Intent(s, i) == s.plan[i + 1]

\* Mutant: the key counts receipts instead of naming the position in the plan.
KeyOfReceipts(s, i) ==
    <<Intent(s, i).service, Min({Cardinality(s.receipts), MaxPlan - 1})>>

Key(s, i) == <<Intent(s, i).service, i>>

\* Mutant: a SUBMITTED entry found by a replay is recorded, not reconciled.
AfterPreparationTrusting(k) ==
    CASE Journal!Created(k) -> "execute_purchase"
      [] journal[k].status \in {"prepared", "unknown"} -> "reconcile_purchase"
      [] OTHER -> "record_purchase"

\* Where a replayed purchase goes: a PREPARED entry found by a replay may have
\* been sent just before the process died, so only a fresh one is executed.
AfterPreparation(k) ==
    CASE Journal!Created(k) -> "execute_purchase"
      [] journal[k].status \in {"prepared", "submitted", "unknown"} -> "reconcile_purchase"
      [] OTHER -> "record_purchase"

PreparePurchase ==
    /\ Runs("prepare_purchase")
    /\ IF st.index >= Len(st.plan)
       THEN Commit([st EXCEPT !.next = "audit"]) /\ UNCHANGED journal
       ELSE LET k == Key(st, st.index) IN
            /\ Journal!Prepare(k, Intent(st, st.index))
            /\ Commit([st EXCEPT !.next = AfterPreparation(k), !.pending = k])
    /\ UNCHANGED <<arenaVars, published, countVars>>

\* prepare(...) raises ValueError: the key belongs to another intent.
PreparePurchaseRaises ==
    /\ Runs("prepare_purchase")
    /\ st.index < Len(st.plan)
    /\ ~Journal!SameIntent(Key(st, st.index), Intent(st, st.index))
    /\ alive' = FALSE
    /\ UNCHANGED <<st, local, durableVars, journal, arenaVars, published, countVars>>

\* Mutant: the status is not read again before sending.
ExecuteWithoutCheck ==
    /\ Runs("execute_purchase")
    /\ Journal!Transition(st.pending, "submitted", NoReceipt)
    /\ sends' = [sends EXCEPT ![st.pending] = @ + 1]
    /\ arena' = [arena EXCEPT ![st.pending] = IF @ = "idle" THEN "in_flight" ELSE @]
    /\ local' = [local EXCEPT !.buying = TRUE]
    /\ UNCHANGED <<st, alive, durableVars, trades, published, countVars>>

\* SUBMITTED is durable before the request leaves; the node then awaits buy.
ExecutePurchase ==
    /\ Runs("execute_purchase")
    /\ journal[st.pending].status = "prepared"
    /\ Journal!Transition(st.pending, "submitted", NoReceipt)
    /\ sends' = [sends EXCEPT ![st.pending] = @ + 1]
    /\ arena' = [arena EXCEPT ![st.pending] = IF @ = "idle" THEN "in_flight" ELSE @]
    /\ local' = [local EXCEPT !.buying = TRUE]
    /\ UNCHANGED <<st, alive, durableVars, trades, published, countVars>>

ExecuteAlreadySubmitted ==
    /\ Runs("execute_purchase")
    /\ journal[st.pending].status # "prepared"
    /\ Commit([st EXCEPT !.next = "reconcile_purchase"])
    /\ UNCHANGED <<journal, arenaVars, published, countVars>>

\* Mutant: a receipt that did not settle is accepted.
ReceiptMatchesUnpaid(receipt, intent) ==
    /\ receipt.amount = intent.price
    /\ receipt.seller = intent.seller
    /\ receipt.service = intent.service

\* receipt_violation is None.
ReceiptMatches(receipt, intent) ==
    /\ receipt.status = "paid"
    /\ receipt.amount = intent.price
    /\ receipt.seller = intent.seller
    /\ receipt.service = intent.service

ReceiptVerdict(receipt, intent) ==
    <<IF ReceiptMatches(receipt, intent) THEN "settled" ELSE "disputed", receipt>>

\* The node's transition and its result, for the verdict <<status, receipt>>.
Conclude(verdict, next) ==
    /\ Journal!Transition(st.pending, verdict[1], verdict[2])
    /\ Commit([st EXCEPT !.next = next])
    /\ UNCHANGED <<arenaVars, published, countVars>>

BuyReturnsReceipt ==
    /\ alive /\ local.buying
    /\ arena[st.pending] = "settled"
    /\ Conclude(ReceiptVerdict(trades[st.pending], Intent(st, st.index)), "record_purchase")

\* The Arena answers with an error of its own: FAILED without reconciliation.
BuyRefused ==
    /\ alive /\ local.buying
    /\ arena[st.pending] = "refused"
    /\ Conclude(<<"failed", NoReceipt>>, "record_purchase")

\* Mutants: every transport failure is a failure; no client-side timeout.
BuyTransportFailsAlways ==
    alive /\ local.buying /\ Conclude(<<"failed", NoReceipt>>, "record_purchase")
BuyWaitsForArena ==
    /\ alive /\ local.buying
    /\ arena[st.pending] = "lost"
    /\ Conclude(<<"unknown", NoReceipt>>, "reconcile_purchase")

\* The request or its answer is lost, or the client stops waiting.  Only
\* TimeoutError and ConnectionError are taken as ambiguous (line 344); every
\* other exception is taken as a failure (line 351).
BuyTransportFails ==
    /\ alive /\ local.buying
    /\ IF BuiltinErrors
       THEN Conclude(<<"unknown", NoReceipt>>, "reconcile_purchase")
       ELSE Conclude(<<"failed", NoReceipt>>, "record_purchase")

\* TradeReconciliation: the platform receipt, else the two ledger entries.
EntriesOf(trade) ==
    IF trade.status # "paid" THEN {}
    ELSE {"both"} \cup (ArenaFaults \cap {"one_sided", "mismatch"})

EvidenceOf(k) ==
    LET nothing == [platform |-> NoReceipt, entries |-> "none"] IN
    IF arena[k] # "settled" THEN {nothing}
    ELSE {[platform |-> trades[k], entries |-> "none"]} \cup
         (IF "hidden" \in ArenaFaults
          THEN {nothing} \cup {[platform |-> NoReceipt, entries |-> e] :
                                 e \in EntriesOf(trades[k])}
          ELSE {})

\* bilateral_entries_match: the entries name no service, so it is not compared.
BilateralEntriesMatch(k, evidence, intent) ==
    /\ evidence.entries = "both"
    /\ trades[k].amount = intent.price
    /\ trades[k].seller = intent.seller

EvidenceVerdict(k, evidence, intent) ==
    IF evidence.platform # NoReceipt THEN ReceiptVerdict(evidence.platform, intent)
    ELSE <<CASE evidence.entries \in {"none", "one_sided"} -> "unknown"
             [] BilateralEntriesMatch(k, evidence, intent) -> "bilaterally_confirmed"
             [] OTHER -> "disputed", NoReceipt>>

ReconcilePurchase ==
    /\ Runs("reconcile_purchase")
    /\ \E evidence \in EvidenceOf(st.pending) :
         Conclude(EvidenceVerdict(st.pending, evidence, Intent(st, st.index)),
                  "record_purchase")

ReconcileUnavailable ==
    /\ Runs("reconcile_purchase")
    /\ Conclude(<<"unknown", NoReceipt>>, "record_purchase")

\* The violation record_purchase writes for a purchase that is not SETTLED.
ViolationOf(status) ==
    CASE status = "bilaterally_confirmed" -> "bilateral"
      [] status \in {"disputed", "failed"} -> status
      [] OTHER -> "unknown"

\* Mutants: no check for a trade already counted; unsettled purchases pass.
RecordedAgain(op, intent) ==
    IF op.status # "settled"
    THEN [st EXCEPT !.violations = @ \cup {<<ViolationOf(op.status), intent.service>>}]
    ELSE [st EXCEPT !.receipts = @ \cup {op.receipt},
                    !.spent = @ + op.receipt.amount,
                    !.purchased = @ \cup {op.receipt.seller}]
RecordedLeniently(op, intent) ==
    IF op.status # "settled" THEN st
    ELSE [st EXCEPT !.receipts = @ \cup {op.receipt},
                    !.spent = @ + op.receipt.amount,
                    !.purchased = @ \cup {op.receipt.seller}]

Recorded(op, intent) ==
    IF op.status # "settled"
    THEN [st EXCEPT !.violations = @ \cup {<<ViolationOf(op.status), intent.service>>}]
    ELSE IF op.receipt.trade \in {r.trade : r \in st.receipts}
    THEN [st EXCEPT !.violations = @ \cup {<<"duplicate", op.receipt.trade>>}]
    ELSE [st EXCEPT !.receipts = @ \cup {op.receipt},
                    !.spent = @ + op.receipt.amount,
                    !.purchased = @ \cup {op.receipt.seller}]

RecordPurchase ==
    /\ Runs("record_purchase")
    /\ Commit([Recorded(journal[st.pending], Intent(st, st.index)) EXCEPT
                 !.index = @ + 1,
                 !.pending = NoKey,
                 !.next = IF st.index + 1 < Len(st.plan)
                          THEN "prepare_purchase" ELSE "audit"])
    /\ UNCHANGED <<journal, arenaVars, published, countVars>>

CritiqueCompliant ==
    /\ Cardinality(st.tried) >= MinimumProducts
    /\ st.tried \subseteq st.critiqued
    /\ st.ranked
MarketCompliant ==
    st.spent >= MinimumSpend /\ Cardinality(st.purchased) >= MinimumProducts

Audit ==
    /\ Runs("audit")
    /\ LET added ==
             {v \in {<<"critique_floor", NoSubject>>} :
                 st.mode # "market" /\ ~CritiqueCompliant} \cup
             {v \in {<<"market_floor", NoSubject>>} :
                 st.mode # "critique" /\ ~MarketCompliant}
           all == st.violations \cup added
       IN Commit([st EXCEPT !.violations = all, !.next = "complete",
                            !.report = IF all = {} THEN "valid" ELSE "invalid"])
    /\ UNCHANGED <<journal, arenaVars, published, countVars>>

-----------------------------------------------------------------------------
(* The Arena (external): a request in flight is settled, refused or lost at   *)
(* any time, whether or not the client still waits for it.                    *)

TradesFor(k) ==
    LET intent == journal[k].intent
        honest == [trade |-> k, service |-> intent.service, seller |-> intent.seller,
                   amount |-> intent.price, status |-> "paid"]
        Faulty(fault, S) == IF fault \in ArenaFaults THEN S ELSE {}
    IN {honest} \cup
       Faulty("failed", {[honest EXCEPT !.status = "failed"]}) \cup
       Faulty("price", {[honest EXCEPT !.amount = a] : a \in Amounts}) \cup
       Faulty("seller", {[honest EXCEPT !.seller = s] : s \in Sellers}) \cup
       Faulty("service", {[honest EXCEPT !.service = s] : s \in Services}) \cup
       Faulty("duplicate", {[honest EXCEPT !.trade = trades[j].trade] :
                              j \in {x \in PurchaseKeys : arena[x] = "settled"}})

ArenaAnswers(k, what) ==
    /\ arena[k] = "in_flight"
    /\ arena' = [arena EXCEPT ![k] = what]
    /\ UNCHANGED <<clientVars, durableVars, journal, sends, published, countVars>>

ArenaSettles(k) ==
    /\ ArenaAnswers(k, "settled")
    /\ \E t \in TradesFor(k) : trades' = [trades EXCEPT ![k] = t]

ArenaRefuses(k) ==
    "refused" \in ArenaFaults /\ ArenaAnswers(k, "refused") /\ UNCHANGED trades

ArenaLoses(k) == ArenaAnswers(k, "lost") /\ UNCHANGED trades

-----------------------------------------------------------------------------
(* The process dies: what was not saved is gone.  ArenaRunner.resume goes on  *)
(* from the latest checkpoint; run_round on the same run_id applies its input *)
(* to that checkpoint and starts from START, keeping the violations, and the  *)
(* progress too unless the caller passes another one.                         *)

Stop ==
    /\ alive /\ ~(st.next = "complete" /\ unsaved = <<>>)
    /\ stops < MaxStops
    /\ stops' = stops + 1
    /\ alive' = FALSE /\ st' = saved /\ unsaved' = <<>> /\ local' = IdleNode
    /\ UNCHANGED <<saved, journal, arenaVars, published, reruns, losses>>

Resume ==
    /\ ~alive /\ unsaved = <<>>
    /\ alive' = TRUE /\ st' = saved /\ local' = IdleNode
    /\ UNCHANGED <<durableVars, journal, arenaVars, published, countVars>>

RunRoundAgain ==
    /\ ~alive \/ st.next = "complete"
    /\ unsaved = <<>>
    /\ reruns < MaxReruns
    /\ reruns' = reruns + 1
    /\ alive' = TRUE
    /\ st' \in Started(saved)
    /\ unsaved' = <<st'>>
    /\ local' = IdleNode
    /\ UNCHANGED <<saved, journal, arenaVars, published, stops, losses>>

Terminated ==
    /\ alive /\ st.next = "complete" /\ unsaved = <<>>
    /\ UNCHANGED vars

CritiqueStep ==
    EvaluateServices \/ PostCritique \/ FeedbackDone \/ Rank
PurchaseStep ==
    \/ PreparePurchase \/ PreparePurchaseRaises
    \/ ExecutePurchase \/ ExecuteAlreadySubmitted
    \/ BuyReturnsReceipt \/ BuyRefused \/ BuyTransportFails
    \/ ReconcilePurchase \/ ReconcileUnavailable
    \/ RecordPurchase
GraphStep ==
    \/ Prepare \/ Discover \/ DiscoverRaises \/ PlanMarket
    \/ CritiqueStep \/ PurchaseStep \/ Audit
ArenaStep == \E k \in PurchaseKeys : ArenaSettles(k) \/ ArenaRefuses(k) \/ ArenaLoses(k)

Next ==
    \/ GraphStep \/ SaveCheckpoint \/ ArenaStep
    \/ Stop \/ Resume \/ RunRoundAgain \/ Terminated

Spec == Init /\ [][Next]_vars

\* The event loop runs a ready node and the saver's task, an outstanding HTTP
\* call returns or times out, and the operator resumes a stopped run.  Nothing
\* is assumed of the Arena.
FairSpec ==
    /\ Spec
    /\ WF_vars(GraphStep)
    /\ WF_vars(SaveCheckpoint)
    /\ WF_vars(Resume)

-----------------------------------------------------------------------------
(* Properties.                                                               *)

Paid(k) == arena[k] = "settled" /\ trades[k].status = "paid"
Snapshots == {st, saved} \cup {unsaved[i] : i \in 1 .. Len(unsaved)}

\* The variables hold values of the program's types.
ClientTypeOK ==
    /\ st \in GraphState /\ saved \in GraphState /\ unsaved \in Seq(GraphState)
    /\ alive \in BOOLEAN
    /\ local \in [buying : BOOLEAN, posted : Nat, attempt : {1, 2},
                  failed : SUBSET Sellers]
ArenaTypeOK ==
    /\ arena \in [PurchaseKeys -> {"idle", "in_flight", "settled", "refused", "lost"}]
    /\ trades \in [PurchaseKeys -> TradeReceipt \cup {NoReceipt}]
    /\ sends \in [PurchaseKeys -> Nat]
PublishedTypeOK ==
    /\ published \subseteq
         ({"feedback"} \X Sellers \X Nat) \cup {<<"ranking", NoSubject, 0>>}
CountsTypeOK ==
    /\ stops \in 0 .. MaxStops /\ reruns \in 0 .. MaxReruns /\ losses \in 0 .. MaxLosses
TypeOK ==
    ClientTypeOK /\ Journal!TypeOK /\ ArenaTypeOK /\ PublishedTypeOK /\ CountsTypeOK

\* However often the process dies, resumes or is started over, and whatever is
\* lost from the checkpoints, buy is called at most once per idempotency key
\* (graph.py:301-339: only a freshly created PREPARED entry is sent).
AtMostOneSend == \A k \in PurchaseKeys : sends[k] =< 1

\* The node that runs next in the cycle finds its purchase in the journal, under
\* the key of its own position and with its own intent: the two RuntimeErrors
\* "operation disappeared" (graph.py:332, 447) are unreachable, and a receipt is
\* never compared with the intent of another purchase.
PendingIsJournalled ==
    \A s \in Snapshots :
      s.next \in {"execute_purchase", "reconcile_purchase", "record_purchase"} =>
        /\ s.index < Len(s.plan)
        /\ s.pending = Key(s, s.index)
        /\ journal[s.pending].intent = Intent(s, s.index)

\* A position is passed only with a verdict in the journal: no checkpoint from
\* which a run may resume has moved on from a purchase whose journal entry is
\* missing, PREPARED or still SUBMITTED (graph.py:440-493).
VerdictBeforeAdvance ==
    \A s \in Snapshots : \A i \in 0 .. s.index - 1 :
      i < Len(s.plan) => journal[Key(s, i)].status \in Journal!VerdictStatuses

\* Progress is exact in memory and in every checkpoint: spent_credits is the sum
\* of the recorded receipts, purchased_products their sellers, and no trade is
\* counted twice (graph.py:450-458), replays and carried progress included.
ProgressIsExact == \A s \in Snapshots : CountsItsReceipts(s)

\* Progress never counts money that did not move: each receipt this run records is
\* a paid trade of the Arena, for the seller, service and price the journal had
\* committed to before the request left (graph.py:359-372, 397-405, 450-458).
RecordedIsPaid ==
    \A s \in Snapshots : \A r \in s.receipts \ CarriedReceipts :
      \E k \in PurchaseKeys :
        /\ Paid(k) /\ trades[k] = r
        /\ journal[k].intent = [service |-> r.service, seller |-> r.seller,
                                price |-> r.amount]

\* A purchase the journal calls FAILED has not been charged and never will be:
\* nothing of it is in flight (graph.py:351-357 records it without reconciling).
FailedMeansUncharged ==
    \A k \in PurchaseKeys :
      journal[k].status = "failed" => ~Paid(k) /\ arena[k] # "in_flight"

\* A purchase that was charged before its call ended is not recorded as FAILED
\* (graph.py:351-357 takes every exception but two builtin ones for a failure).
ChargedIsNotRecordedFailed ==
    [][\A k \in PurchaseKeys :
         journal[k].status # "failed" /\ journal'[k].status = "failed" => ~Paid(k)]_vars

\* A report without violations means every planned purchase is SETTLED in the
\* journal and counted in progress, the 80-credit and three-seller floors
\* included (graph.py:459-478 and 500-534).
ValidReportSettlesPlan ==
    st.next = "complete" /\ st.report = "valid" /\ st.mode # "critique" =>
      /\ \A i \in 0 .. Len(st.plan) - 1 :
           LET op == journal[Key(st, i)] IN
           op.status = "settled" /\ op.receipt \in st.receipts
      /\ st.spent >= MinimumSpend
      /\ Cardinality(st.purchased) >= MinimumProducts

\* A valid report of a market round accounts for every credit: nothing requested
\* under this run_id, by earlier rounds in any mode included, was paid outside its
\* receipts, and nothing is still in flight that could be.
ValidReportAccountsForAll ==
    st.next = "complete" /\ st.report = "valid" /\ st.mode # "critique" =>
      \A k \in PurchaseKeys :
        /\ arena[k] # "in_flight"
        /\ Paid(k) => trades[k] \in st.receipts

\* A service is paid no more often than some plan orders it, whatever is lost and
\* resumed: "a resumed node cannot double-pay" (README.md:24-25).
NoDoublePay ==
    \A s \in Services : \E d \in Discoveries :
      Cardinality({i \in Positions : Paid(<<s, i>>)}) =<
        Cardinality({i \in DOMAIN d.plan : d.plan[i].service = s})

\* A round that publishes feedback is reported valid only if the Arena holds the
\* ranking and the critique of every product this run tried, also when the progress
\* carried in already called the critiques complete (graph.py:161-214, 511-515).
ValidCritiqueIsPublished ==
    st.next = "complete" /\ st.report = "valid" /\ st.mode # "market" =>
      /\ \A s \in Targets \cup (st.tried \ CarriedCritiques) :
           \E item \in published : item[1] = "feedback" /\ item[2] = s
      /\ <<"ranking", NoSubject, 0>> \in published

\* One lost exchange is absorbed by the retry under the same key: it alone never
\* costs a critique or the ranking (graph.py:72-78; README.md:26-27).
OneLossIsRetried ==
    losses =< 1 => \A s \in Snapshots : \A v \in s.violations :
                     v[1] \notin {"feedback", "ranking"}

\* No step takes back a SETTLED verdict or makes an entry sendable again, replays
\* that reconcile a settled purchase anew included (operation_journal.py:145).
SettledIsFinal ==
    [][\A k \in PurchaseKeys :
         /\ journal[k].status = "settled" =>
              journal'[k].status = "settled" /\ journal'[k].receipt = journal[k].receipt
         /\ journal[k].status \notin {"absent", "prepared"} =>
              journal'[k].status \notin {"absent", "prepared"}]_vars

\* run_round has replaced the progress of s by one its caller passed.
Replaced(s) == s.next = "prepare" /\ \E p \in Carried : WithProgress(s, p) = s

\* The checkpoint on disk never forgets a violation, so neither a resume nor a second
\* run_round can turn an invalid run into a valid one; and it forgets a receipt only
\* where the caller of run_round replaces the whole progress (arena.py:109-110), never
\* through crashes, lost checkpoints, resumes or a second run_round without one.
CheckpointNeverForgets ==
    [][/\ saved.violations \subseteq saved'.violations
       /\ saved.receipts \subseteq saved'.receipts \/ Replaced(saved')]_vars

\* The workflow, its journal, its checkpoints and the Arena together implement
\* PurchaseContract: `paid` are the trades that moved credits and `booked` those of
\* this run that the checkpoint on disk counts, each under the purchase it was
\* issued for.
Contract == INSTANCE PurchaseContract
              WITH Keys <- PurchaseKeys, asked <- sends,
                   paid <- {trades[k].trade : k \in {x \in PurchaseKeys : Paid(x)}},
                   booked <- {r.trade : r \in saved.receipts} \ OtherTrades
ImplementsContract == Contract!ContractSpec

\* Every run reaches its report once the process stops dying.
RunCompletes == <>(st.next = "complete" /\ unsaved = <<>>)

=============================================================================
