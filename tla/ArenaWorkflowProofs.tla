------------------------ MODULE ArenaWorkflowProofs ------------------------
(***************************************************************************)
(* ArenaWorkflow keeps its inductive invariant, for every value of the     *)
(* constants.                                                              *)
(*                                                                         *)
(* The argument: the journal and the Arena's trades only grow (Grows), so  *)
(* what a state of the graph or a checkpoint relies on (Sound) stays true  *)
(* of it whatever happens later; hence a step need only show Sound of the  *)
(* one state it commits, and a restart from any checkpoint is sound.       *)
(***************************************************************************)
EXTENDS ArenaWorkflowInvariant, TLAPS

-----------------------------------------------------------------------------
(* Type correctness.                                                       *)

\* What a node may keep in its local variables.
LocalType ==
  [buying : BOOLEAN, posted : Nat, attempt : {1, 2}, failed : SUBSET Sellers]

\* The state of a run that has not started is well typed.
LEMMA FreshTyped == FreshState \in GraphState
  BY ConstantsAssumption DEF FreshState, GraphState, Nodes, RunModes, Discovery, Plan

\* So are the local variables of a node that has not started.
LEMMA IdleTyped == IdleNode \in LocalType
  BY DEF IdleNode, LocalType

\* Whatever state a node commits, the client's variables stay typed.
LEMMA CommitTyped ==
  ASSUME ClientTypeOK, NEW s \in GraphState, Commit(s)
  PROVE  ClientTypeOK'
  BY IdleTyped DEF ClientTypeOK, Commit, LocalType

\* The violations the workflow writes are typed.
LEMMA ViolationTyped ==
  ASSUME NEW kind \in ViolationKinds,
         NEW subject \in Services \cup Sellers \cup PurchaseKeys \cup {NoSubject}
  PROVE  <<kind, subject>> \in Violation
  BY DEF Violation

\* prepare keeps the types.
LEMMA PrepareTyped == ASSUME ClientTypeOK, Prepare PROVE ClientTypeOK'
  <1>1. [st EXCEPT !.next = "discover"] \in GraphState
    BY DEF ClientTypeOK, GraphState, Nodes
  <1>. QED BY <1>1, CommitTyped DEF Prepare

\* discover keeps the types.
LEMMA DiscoverTyped == ASSUME ClientTypeOK, Discover PROVE ClientTypeOK'
  <1>. DEFINE Found(d) == [d EXCEPT !.targets = IF st.mode = "market" THEN <<>> ELSE @]
              Short(d) == st.mode # "market" /\ d.targets = <<>>
              s(d) == [st EXCEPT
                !.found = Found(d),
                !.violations = IF Short(d) THEN @ \cup {<<"targets", NoSubject>>} ELSE @,
                !.next = CASE st.mode = "market" -> "plan_market"
                           [] Short(d) -> "audit"
                           [] OTHER -> "evaluate_services"]
  <1>1. PICK d \in Discoveries : Commit(s(d))
    BY DEF Discover
  <1>2. Found(d) \in Discovery
    <2>1. d \in Discovery
      BY ConstantsAssumption
    <2>2. <<>> \in Seq(Sellers)
      OBVIOUS
    <2>. QED BY <2>1, <2>2 DEF Discovery
  <1>3. <<"targets", NoSubject>> \in Violation
    BY ViolationTyped DEF ViolationKinds
  <1>4. s(d) \in GraphState
    BY <1>2, <1>3 DEF ClientTypeOK, GraphState, Nodes
  <1>. QED BY <1>1, <1>4, CommitTyped

\* The targets of a critique are sellers.
LEMMA TargetsTyped == ASSUME ClientTypeOK PROVE Targets \subseteq Sellers
  <1>1. st.found.targets \in Seq(Sellers)
    BY DEF ClientTypeOK, GraphState, Discovery
  <1>. QED BY <1>1 DEF Targets

\* evaluate_services keeps the types.
LEMMA EvaluateTyped == ASSUME ClientTypeOK, EvaluateServices PROVE ClientTypeOK'
  <1>1. [st EXCEPT !.tried = @ \cup Targets,
                   !.next = "publish_required_feedback"] \in GraphState
    BY TargetsTyped DEF ClientTypeOK, GraphState, Nodes
  <1>. QED BY <1>1, CommitTyped DEF EvaluateServices

\* post_critique keeps the types.
LEMMA PostCritiqueTyped == ASSUME ClientTypeOK, PostCritique PROVE ClientTypeOK'
  <1>. DEFINE seller == st.found.targets[local.posted + 1]
  <1>1. seller \in Sellers
    BY DEF PostCritique, ClientTypeOK, GraphState, Discovery
  <1>2. PICK outcome \in Outcomes :
          local' = IF Retries(outcome)
                   THEN [local EXCEPT !.attempt = 2]
                   ELSE [local EXCEPT
                           !.posted = @ + 1, !.attempt = 1,
                           !.failed = IF outcome = "ok" THEN @ ELSE @ \cup {seller}]
    BY DEF PostCritique
  <1>. HIDE DEF seller
  <1>. DEFINE next == [local EXCEPT
                         !.posted = @ + 1, !.attempt = 1,
                         !.failed = IF outcome = "ok" THEN @ ELSE @ \cup {seller}]
  <1>3. local' \in LocalType
    <2>1. local \in LocalType
      BY DEF ClientTypeOK, LocalType
    <2>2. [local EXCEPT !.attempt = 2] \in LocalType
      BY <2>1 DEF LocalType
    <2>3. next \in LocalType
      <3>. DEFINE missed == IF outcome = "ok" THEN local.failed
                            ELSE local.failed \cup {seller}
      <3>1. missed \in SUBSET Sellers
        BY <1>1, <2>1 DEF LocalType
      <3>2. next = [local EXCEPT !.posted = @ + 1, !.attempt = 1, !.failed = missed]
        OBVIOUS
      <3>. HIDE DEF missed, next
      <3>3. local.posted + 1 \in Nat
        BY <2>1 DEF LocalType
      <3>. QED BY <2>1, <3>1, <3>2, <3>3 DEF LocalType
    <2>. QED BY <1>2, <2>2, <2>3
  <1>. QED BY <1>3 DEF PostCritique, ClientTypeOK, LocalType, durableVars

\* An acknowledged feedback keeps the types.
LEMMA FeedbackDoneTyped == ASSUME ClientTypeOK, FeedbackDone PROVE ClientTypeOK'
  <1>. DEFINE new == {<<"feedback", x>> : x \in local.failed}
              s == [st EXCEPT !.critiqued = @ \cup Targets,
                              !.violations = @ \cup new, !.next = "rank"]
  <1>1. new \subseteq Violation
    BY ViolationTyped DEF ClientTypeOK, ViolationKinds
  <1>. HIDE DEF new
  <1>2. s \in GraphState
    BY <1>1, TargetsTyped DEF ClientTypeOK, GraphState, Nodes
  <1>3. Commit(s)
    BY DEF FeedbackDone, new
  <1>. QED BY <1>2, <1>3, CommitTyped

\* rank keeps the types.
LEMMA RankTyped == ASSUME ClientTypeOK, Rank PROVE ClientTypeOK'
  <1>. DEFINE s(outcome) == [st EXCEPT
                !.ranked = IF outcome = "ok" THEN st.found.targets # <<>> ELSE @,
                !.violations = IF outcome = "ok" THEN @
                               ELSE @ \cup {<<"ranking", NoSubject>>},
                !.next = IF st.mode = "critique" THEN "audit" ELSE "plan_market"]
  <1>1. PICK outcome \in Outcomes :
          IF Retries(outcome)
          THEN /\ local' = [local EXCEPT !.attempt = 2]
               /\ UNCHANGED <<st, alive, durableVars>>
          ELSE Commit(s(outcome))
    BY DEF Rank
  <1>2. CASE Retries(outcome)
    BY <1>1, <1>2 DEF ClientTypeOK, durableVars
  <1>3. CASE ~Retries(outcome)
    <2>1. <<"ranking", NoSubject>> \in Violation
      BY ViolationTyped DEF ViolationKinds
    <2>2. s(outcome) \in GraphState
      BY <2>1 DEF ClientTypeOK, GraphState, Nodes
    <2>. QED BY <1>1, <1>3, <2>2, CommitTyped
  <1>. QED BY <1>2, <1>3

\* plan_market keeps the types.
LEMMA PlanMarketTyped == ASSUME ClientTypeOK, PlanMarket PROVE ClientTypeOK'
  <1>1. <<"plan", NoSubject>> \in Violation
    BY ViolationTyped DEF ViolationKinds
  <1>2. <<>> \in Plan /\ st.found.plan \in Plan
    BY ConstantsAssumption DEF Plan, ClientTypeOK, GraphState, Discovery
  <1>3. [st EXCEPT !.plan = <<>>, !.next = "audit",
                   !.violations = @ \cup {<<"plan", NoSubject>>}] \in GraphState
    BY <1>1, <1>2 DEF ClientTypeOK, GraphState, Nodes
  <1>4. [st EXCEPT !.plan = st.found.plan, !.index = 0,
                   !.next = "prepare_purchase"] \in GraphState
    BY <1>2 DEF ClientTypeOK, GraphState, Nodes
  <1>. QED BY <1>3, <1>4, CommitTyped DEF PlanMarket

\* audit keeps the types.
LEMMA AuditTyped == ASSUME ClientTypeOK, Audit PROVE ClientTypeOK'
  <1>. DEFINE added ==
                {v \in {<<"critique_floor", NoSubject>>} :
                    st.mode # "market" /\ ~CritiqueCompliant} \cup
                {v \in {<<"market_floor", NoSubject>>} :
                    st.mode # "critique" /\ ~MarketCompliant}
              all == st.violations \cup added
              s == [st EXCEPT !.violations = all, !.next = "complete",
                              !.report = IF all = {} THEN "valid" ELSE "invalid"]
  <1>1. /\ <<"critique_floor", NoSubject>> \in Violation
        /\ <<"market_floor", NoSubject>> \in Violation
    BY ViolationTyped DEF ViolationKinds
  <1>2. all \subseteq Violation
    BY <1>1 DEF ClientTypeOK, GraphState
  <1>3. Commit(s)
    BY DEF Audit
  <1>. HIDE DEF all
  <1>4. s \in GraphState
    BY <1>2 DEF ClientTypeOK, GraphState, Nodes
  <1>. QED BY <1>3, <1>4, CommitTyped

-----------------------------------------------------------------------------
(* The purchase cycle.                                                       *)

\* The intent and the key of a position of the plan are typed.
LEMMA PositionTyped ==
  ASSUME NEW s \in GraphState, NEW i \in Nat, i < Len(s.plan)
  PROVE  /\ Intent(s, i) \in PurchaseIntent
         /\ Key(s, i) \in PurchaseKeys
  <1>1. s.plan \in Seq(PurchaseIntent) /\ Len(s.plan) =< MaxPlan
    BY DEF GraphState, Plan
  <1>2. Intent(s, i) \in PurchaseIntent
    BY <1>1 DEF Intent
  <1>3. i \in Positions
    BY <1>1, ConstantsAssumption DEF Positions
  <1>. QED BY <1>2, <1>3 DEF Key, PurchaseKeys, PurchaseIntent

\* prepare_purchase keeps the types.
LEMMA PreparePurchaseTyped ==
  ASSUME ClientTypeOK, Journal!TypeOK, PreparePurchase
  PROVE  ClientTypeOK' /\ Journal!TypeOK'
  <1>1. st \in GraphState /\ st.index \in Nat /\ Len(st.plan) \in Nat
    BY DEF ClientTypeOK, GraphState, Plan
  <1>2. CASE st.index >= Len(st.plan)
    <2>1. [st EXCEPT !.next = "audit"] \in GraphState
      BY DEF ClientTypeOK, GraphState, Nodes
    <2>2. Commit([st EXCEPT !.next = "audit"]) /\ UNCHANGED journal
      BY <1>2 DEF PreparePurchase
    <2>. QED BY <2>1, <2>2, CommitTyped DEF Journal!TypeOK
  <1>3. CASE st.index < Len(st.plan)
    <2>. DEFINE k == Key(st, st.index)
                intent == Intent(st, st.index)
                s == [st EXCEPT !.next = AfterPreparation(k), !.pending = k]
    <2>1. k \in PurchaseKeys /\ intent \in PurchaseIntent
      BY <1>1, <1>3, PositionTyped
    <2>2. AfterPreparation(k) \in Nodes
      BY DEF AfterPreparation, Nodes
    <2>3. Commit(s) /\ Journal!Prepare(k, intent)
      BY <1>1, <1>3 DEF PreparePurchase
    <2>. HIDE DEF k, intent
    <2>4. s \in GraphState
      BY <2>1, <2>2 DEF ClientTypeOK, GraphState
    <2>5. Journal!TypeOK'
      BY <2>1, <2>3 DEF Journal!TypeOK, Journal!Prepare, Journal!OutboundOperation,
        Journal!OperationStatus
    <2>. QED BY <2>3, <2>4, <2>5, CommitTyped
  <1>. QED BY <1>1, <1>2, <1>3

\* A transition keeps the journal typed.
LEMMA TransitionTyped ==
  ASSUME Journal!TypeOK, NEW k, NEW status \in Journal!TransitionStatuses,
         NEW receipt \in TradeReceipt \cup {NoReceipt},
         Journal!Transition(k, status, receipt)
  PROVE  Journal!TypeOK'
  <1>1. \A op \in Journal!OutboundOperation :
          Journal!Updated(op, status, receipt) \in Journal!OutboundOperation
    BY DEF Journal!Updated, Journal!OutboundOperation, Journal!OperationStatus
  <1>. QED BY <1>1 DEF Journal!TypeOK, Journal!Transition

\* The send of execute_purchase keeps the types.
LEMMA ExecuteTyped ==
  ASSUME TypeOK, ExecutePurchase
  PROVE  ClientTypeOK' /\ Journal!TypeOK' /\ ArenaTypeOK'
  <1>1. Journal!TypeOK'
    <2>1. "submitted" \in Journal!TransitionStatuses
      BY DEF Journal!TransitionStatuses
    <2>. QED BY <2>1, TransitionTyped DEF TypeOK, ExecutePurchase
  <1>2. ClientTypeOK'
    BY DEF TypeOK, ClientTypeOK, ExecutePurchase, durableVars
  <1>3. sends' \in [PurchaseKeys -> Nat]
    <2>1. \A n \in Nat : n + 1 \in Nat
      OBVIOUS
    <2>. QED BY <2>1 DEF TypeOK, ArenaTypeOK, ExecutePurchase
  <1>4. arena' \in [PurchaseKeys -> {"idle", "in_flight", "settled", "refused", "lost"}]
    BY DEF TypeOK, ArenaTypeOK, ExecutePurchase
  <1>5. trades' \in [PurchaseKeys -> TradeReceipt \cup {NoReceipt}]
    BY DEF TypeOK, ArenaTypeOK, ExecutePurchase
  <1>. QED BY <1>1, <1>2, <1>3, <1>4, <1>5 DEF ArenaTypeOK

\* execute_purchase of a purchase already sent keeps the types.
LEMMA AlreadySubmittedTyped ==
  ASSUME ClientTypeOK, ExecuteAlreadySubmitted PROVE ClientTypeOK'
  <1>1. [st EXCEPT !.next = "reconcile_purchase"] \in GraphState
    BY DEF ClientTypeOK, GraphState, Nodes
  <1>. QED BY <1>1, CommitTyped DEF ExecuteAlreadySubmitted

\* A verdict that is journalled keeps the types.
LEMMA ConcludeTyped ==
  ASSUME TypeOK, NEW verdict \in Journal!VerdictStatuses \X (TradeReceipt \cup {NoReceipt}),
         NEW next \in Nodes, Conclude(verdict, next)
  PROVE  ClientTypeOK' /\ Journal!TypeOK'
  <1>1. [st EXCEPT !.next = next] \in GraphState
    BY DEF TypeOK, ClientTypeOK, GraphState
  <1>2. /\ verdict[1] \in Journal!TransitionStatuses
        /\ verdict[2] \in TradeReceipt \cup {NoReceipt}
    BY DEF Journal!TransitionStatuses
  <1>3. ClientTypeOK'
    BY <1>1, CommitTyped DEF Conclude, TypeOK
  <1>4. Journal!TypeOK'
    BY <1>2, TransitionTyped DEF Conclude, TypeOK
  <1>. QED BY <1>3, <1>4

-----------------------------------------------------------------------------
(* Verdicts: what Conclude is called with, and what record_purchase reads.   *)

\* What a node may conclude about a purchase.
Verdict == Journal!VerdictStatuses \X (TradeReceipt \cup {NoReceipt})

\* In the cycle the pending key is a key, and the intent beside it an intent.
LEMMA PendingTyped ==
  ASSUME InductiveInvariant, st.next \in CycleNodes
  PROVE  /\ st \in GraphState /\ st.index \in Nat /\ st.index < Len(st.plan)
         /\ st.pending \in PurchaseKeys /\ st.pending = Key(st, st.index)
         /\ Intent(st, st.index) \in PurchaseIntent
         /\ journal[st.pending].intent = Intent(st, st.index)
  <1>1. Sound(st, journal, trades)
    BY DEF InductiveInvariant, Snapshots
  <1>2. st \in GraphState /\ st.index \in Nat
    BY DEF InductiveInvariant, TypeOK, ClientTypeOK, GraphState
  <1>3. /\ st.index < Len(st.plan)
        /\ st.pending = Key(st, st.index)
        /\ journal[st.pending].intent = Intent(st, st.index)
    BY <1>1 DEF Sound
  <1>. QED BY <1>2, <1>3, PositionTyped

\* While buy is awaited the running node is execute_purchase.
LEMMA BuyingTyped ==
  ASSUME InductiveInvariant, local.buying
  PROVE  st.next = "execute_purchase" /\ st.next \in CycleNodes
  BY DEF InductiveInvariant, CycleNodes

\* A settled trade of the Arena is a receipt.
LEMMA TradeTyped ==
  ASSUME InductiveInvariant, NEW k \in PurchaseKeys, arena[k] = "settled"
  PROVE  trades[k] \in TradeReceipt
  BY DEF InductiveInvariant, TypeOK, ArenaTypeOK, RemoteSound

\* A settled journal entry holds the receipt of its own trade.
LEMMA SettledTyped ==
  ASSUME InductiveInvariant, NEW k \in PurchaseKeys, journal[k].status = "settled"
  PROVE  /\ journal[k].receipt \in TradeReceipt
         /\ journal[k].receipt = trades[k]
         /\ ReceiptMatches(trades[k], journal[k].intent)
  <1>1. /\ arena[k] = "settled"
        /\ journal[k].receipt = trades[k]
        /\ ReceiptMatches(trades[k], journal[k].intent)
    BY DEF InductiveInvariant, RemoteSound
  <1>. QED BY <1>1, TradeTyped

\* Both ways of judging a receipt give a verdict.
LEMMA ReceiptVerdictTyped ==
  ASSUME NEW receipt \in TradeReceipt, NEW intent
  PROVE  ReceiptVerdict(receipt, intent) \in Verdict
  BY DEF ReceiptVerdict, Verdict, Journal!VerdictStatuses

\* Whatever evidence the Arena shows of its trade, the outcome is a verdict.
LEMMA EvidenceVerdictTyped ==
  ASSUME InductiveInvariant, NEW k \in PurchaseKeys, NEW evidence \in EvidenceOf(k),
         NEW intent
  PROVE  EvidenceVerdict(k, evidence, intent) \in Verdict
  <1>1. CASE evidence.platform # NoReceipt
    <2>1. arena[k] = "settled" /\ evidence.platform = trades[k]
      BY <1>1 DEF EvidenceOf
    <2>2. evidence.platform \in TradeReceipt
      BY <2>1, TradeTyped
    <2>3. EvidenceVerdict(k, evidence, intent) = ReceiptVerdict(evidence.platform, intent)
      BY <1>1 DEF EvidenceVerdict
    <2>. QED BY <2>2, <2>3, ReceiptVerdictTyped
  <1>2. CASE evidence.platform = NoReceipt
    BY <1>2 DEF EvidenceVerdict, Verdict, Journal!VerdictStatuses
  <1>. QED BY <1>1, <1>2

\* record_purchase keeps the types.
LEMMA RecordTyped ==
  ASSUME InductiveInvariant, RecordPurchase PROVE ClientTypeOK'
  <1>1. st.next \in CycleNodes
    BY DEF RecordPurchase, Runs, CycleNodes
  <1>. DEFINE op == journal[st.pending]
              intent == Intent(st, st.index)
              r == Recorded(op, intent)
  <1>2. st \in GraphState /\ st.index \in Nat /\ intent \in PurchaseIntent
        /\ st.pending \in PurchaseKeys
    BY <1>1, PendingTyped
  <1>3. op.status = "settled" => op.receipt \in TradeReceipt
    BY <1>2, SettledTyped
  <1>4. Commit([r EXCEPT !.index = @ + 1, !.pending = NoKey,
                         !.next = IF st.index + 1 < Len(st.plan)
                                  THEN "prepare_purchase" ELSE "audit"])
    BY DEF RecordPurchase
  <1>. HIDE DEF op, intent
  <1>5. r \in GraphState
    <2>1. CASE op.status # "settled"
      <3>1. /\ ViolationOf(op.status) \in ViolationKinds
            /\ intent.service \in Services
        BY <1>2 DEF ViolationOf, ViolationKinds, PurchaseIntent
      <3>2. <<ViolationOf(op.status), intent.service>> \in Violation
        BY <3>1, ViolationTyped
      <3>. HIDE DEF r
      <3>3. r = [st EXCEPT !.violations =
                   @ \cup {<<ViolationOf(op.status), intent.service>>}]
        BY <2>1 DEF r, Recorded
      <3>. QED BY <1>2, <3>2, <3>3 DEF GraphState
    <2>2. CASE op.status = "settled" /\ op.receipt.trade \in {x.trade : x \in st.receipts}
      <3>1. op.receipt.trade \in PurchaseKeys
        BY <1>3, <2>2 DEF TradeReceipt
      <3>2. <<"duplicate", op.receipt.trade>> \in Violation
        BY <3>1, ViolationTyped DEF ViolationKinds
      <3>. HIDE DEF r
      <3>3. r = [st EXCEPT !.violations = @ \cup {<<"duplicate", op.receipt.trade>>}]
        BY <2>2 DEF r, Recorded
      <3>. QED BY <1>2, <3>2, <3>3 DEF GraphState
    <2>3. CASE op.status = "settled" /\ op.receipt.trade \notin {x.trade : x \in st.receipts}
      <3>1. /\ op.receipt \in TradeReceipt /\ op.receipt.amount \in Nat
            /\ op.receipt.seller \in Sellers
        BY <1>3, <2>3, ConstantsAssumption DEF TradeReceipt
      <3>. HIDE DEF r
      <3>2. r = [st EXCEPT !.receipts = @ \cup {op.receipt},
                           !.spent = @ + op.receipt.amount,
                           !.purchased = @ \cup {op.receipt.seller}]
        BY <2>3 DEF r, Recorded
      <3>3. /\ st.receipts \cup {op.receipt} \in SUBSET (TradeReceipt \cup EarlierReceipt)
            /\ st.spent + op.receipt.amount \in Nat
            /\ st.purchased \cup {op.receipt.seller} \in SUBSET Sellers
        BY <1>2, <3>1 DEF GraphState
      <3>. QED BY <1>2, <3>2, <3>3 DEF GraphState
    <2>. QED BY <2>1, <2>2, <2>3
  <1>6. r.index = st.index
    BY <1>2 DEF Recorded, GraphState
  <1>. HIDE DEF r
  <1>7. [r EXCEPT !.index = @ + 1, !.pending = NoKey,
                  !.next = IF st.index + 1 < Len(st.plan)
                           THEN "prepare_purchase" ELSE "audit"] \in GraphState
    <2>. DEFINE next == IF st.index + 1 < Len(st.plan) THEN "prepare_purchase" ELSE "audit"
    <2>1. next \in Nodes
      BY DEF Nodes
    <2>. HIDE DEF next
    <2>2. r.index + 1 \in Nat
      BY <1>2, <1>6
    <2>3. [r EXCEPT !.index = @ + 1, !.pending = NoKey, !.next = next] \in GraphState
      BY <1>5, <2>1, <2>2 DEF GraphState
    <2>. QED BY <2>3 DEF next
  <1>. QED BY <1>4, <1>7, CommitTyped DEF InductiveInvariant, TypeOK

-----------------------------------------------------------------------------
(* The journal and the trades.                                             *)

\* What no step takes back: an intent, a verdict, a settled entry, a trade.
Grows(j, t, j2, t2) ==
  \A k \in PurchaseKeys :
    /\ j[k].intent # NoIntent => j2[k].intent = j[k].intent
    /\ j[k].status \in Journal!VerdictStatuses
         => j2[k].status \in Journal!VerdictStatuses
    /\ j[k].status = "settled"
         => j2[k].status = "settled" /\ j2[k].receipt = j[k].receipt
    /\ t[k] # NoReceipt => t2[k] = t[k]

\* What a state relies on survives the growth of the journal and the trades.
LEMMA SoundGrows ==
  ASSUME NEW s \in GraphState, NEW j, NEW t, NEW j2, NEW t2,
         Sound(s, j, t), Grows(j, t, j2, t2)
  PROVE  Sound(s, j2, t2)
  <1>1. \A i \in Nat : i < Len(s.plan) =>
          /\ Key(s, i) \in PurchaseKeys
          /\ Intent(s, i) \in PurchaseIntent
    BY PositionTyped
  <1>2. s.index \in Nat /\ s.receipts \subseteq TradeReceipt \cup EarlierReceipt
    BY DEF GraphState
  <1>3. \A i \in 0 .. s.index - 1 : i \in Nat
    OBVIOUS
  <1>. HIDE DEF GraphState
  <1>4. s.next \in CycleNodes =>
          /\ s.index < Len(s.plan)
          /\ s.pending = Key(s, s.index)
          /\ j2[s.pending].intent = Intent(s, s.index)
          /\ s.pending \in PurchaseKeys
    <2>. HAVE s.next \in CycleNodes
    <2>1. /\ s.index < Len(s.plan)
          /\ s.pending = Key(s, s.index)
          /\ j[s.pending].intent = Intent(s, s.index)
      BY DEF Sound
    <2>2. s.pending \in PurchaseKeys /\ Intent(s, s.index) \in PurchaseIntent
      BY <1>1, <1>2, <2>1
    <2>3. j[s.pending].intent # NoIntent
      BY <2>1, <2>2, ConstantsAssumption
    <2>. QED BY <2>1, <2>2, <2>3 DEF Grows
  <1>5. s.next = "record_purchase" => j2[s.pending].status \in Journal!VerdictStatuses
    BY <1>4 DEF Sound, CycleNodes, Grows
  <1>6. \A i \in 0 .. s.index - 1 :
          i < Len(s.plan) => j2[Key(s, i)].status \in Journal!VerdictStatuses
    BY <1>1, <1>3 DEF Sound, Grows
  <1>7. \A r \in s.receipts : r \in CarriedReceipts \/ Backed(r, j2, t2)
    <2>. SUFFICES ASSUME NEW r \in s.receipts, r \notin CarriedReceipts
                  PROVE  Backed(r, j2, t2)
      OBVIOUS
    <2>1. Backed(r, j, t)
      BY DEF Sound
    <2>2. PICK k \in PurchaseKeys :
            /\ t[k] = r
            /\ j[k].intent = [service |-> r.service, seller |-> r.seller,
                              price |-> r.amount]
      BY <2>1 DEF Backed
    <2>3. r \in TradeReceipt \cup EarlierReceipt
      BY <1>2
    <2>4. j[k].intent \in PurchaseIntent
      BY <2>2, <2>3 DEF TradeReceipt, EarlierReceipt, PurchaseIntent
    <2>5. t[k] # NoReceipt /\ j[k].intent # NoIntent
      BY <2>2, <2>3, <2>4, ConstantsAssumption
    <2>6. t2[k] = t[k] /\ j2[k].intent = j[k].intent
      BY <2>5 DEF Grows
    <2>. QED BY <2>1, <2>2, <2>6 DEF Backed
  <1>8. s.next \in BuyingNodes \cup {"audit", "complete"} /\ s.mode # "critique"
        /\ s.violations = {} =>
          \A i \in 0 .. s.index - 1 :
            i < Len(s.plan) => /\ j2[Key(s, i)].status = "settled"
                               /\ j2[Key(s, i)].receipt \in s.receipts
    BY <1>1, <1>3 DEF Sound, Grows
  <1>. QED BY <1>4, <1>5, <1>6, <1>7, <1>8 DEF Sound

\* The states that matter after a commit: those that mattered before, and the
\* committed one.
LEMMA CommitSnapshots ==
  ASSUME ClientTypeOK, NEW s, Commit(s), NEW x \in Snapshots'
  PROVE  x \in Snapshots \/ x = s
  <1>1. unsaved \in Seq(GraphState) /\ unsaved' = Append(unsaved, s)
        /\ st' = s /\ saved' = saved
    BY DEF ClientTypeOK, Commit
  <1>2. CASE x \in {st', saved'}
    BY <1>1, <1>2 DEF Snapshots
  <1>3. CASE \E i \in 1 .. Len(unsaved') : x = unsaved'[i]
    <2>1. PICK i \in 1 .. Len(unsaved') : x = unsaved'[i]
      BY <1>3
    <2>. QED BY <1>1, <2>1 DEF Snapshots
  <1>. QED BY <1>2, <1>3 DEF Snapshots

\* Every state that matters is typed.
LEMMA SnapshotsTyped == ASSUME ClientTypeOK PROVE Snapshots \subseteq GraphState
  BY DEF ClientTypeOK, Snapshots

\* Every state a run may go on from is sound.
SnapshotsSound == \A s \in Snapshots : Sound(s, journal, trades)

\* A commit keeps every snapshot sound if the new state is and nothing shrinks.
LEMMA CommitSound ==
  ASSUME ClientTypeOK, SnapshotsSound, NEW s, Commit(s),
         Sound(s, journal', trades'), Grows(journal, trades, journal', trades')
  PROVE  SnapshotsSound' /\ ~local'.buying
  <1>1. \A x \in Snapshots : Sound(x, journal', trades')
    BY SnapshotsTyped, SoundGrows DEF SnapshotsSound
  <1>2. SnapshotsSound'
    BY <1>1, CommitSnapshots DEF SnapshotsSound
  <1>3. ~local'.buying
    BY DEF Commit, IdleNode
  <1>. QED BY <1>2, <1>3

\* Steps that commit nothing keep every snapshot.
LEMMA NoCommitSound ==
  ASSUME ClientTypeOK, SnapshotsSound, Snapshots' \subseteq Snapshots,
         Grows(journal, trades, journal', trades')
  PROVE  SnapshotsSound'
  BY SnapshotsTyped, SoundGrows DEF SnapshotsSound

\* Standing still is growth.
LEMMA StillGrows ==
  ASSUME UNCHANGED <<journal, trades>>
  PROVE  Grows(journal, trades, journal', trades')
  BY DEF Grows

\* A state that moves on outside the purchase cycle relies on nothing new.
LEMMA Harmless ==
  ASSUME NEW s, NEW x \in GraphState, Sound(x, journal, trades),
         s.plan = x.plan, s.index = x.index,
         s.receipts \subseteq x.receipts \cup CarriedReceipts,
         x.violations \subseteq s.violations,
         s.next \notin BuyingNodes, s.next # "complete",
         s.next = "audit" => s.violations # {} \/ s.mode = "critique"
  PROVE  Sound(s, journal, trades)
  <1>1. \A i : Key(s, i) = Key(x, i)
    BY DEF Key, Intent
  <1>2. s.next # "record_purchase" /\ s.next \notin CycleNodes
    BY DEF BuyingNodes, CycleNodes
  <1>3. s.violations = {} => x.violations = {}
    OBVIOUS
  <1>. QED BY <1>1, <1>2, <1>3 DEF Sound

-----------------------------------------------------------------------------
(* Steps that touch neither the journal nor the Arena.                       *)

\* What the journal and the Arena agree on, when neither changes.
LEMMA RemoteStill ==
  ASSUME InductiveInvariant, UNCHANGED <<journal, arenaVars>>
  PROVE  Journal!TypeOK' /\ ArenaTypeOK' /\ RemoteSound'
  <1>1. Journal!TypeOK'
    BY DEF InductiveInvariant, TypeOK, Journal!TypeOK
  <1>2. ArenaTypeOK'
    BY DEF InductiveInvariant, TypeOK, ArenaTypeOK, arenaVars
  <1>3. RemoteSound'
    BY DEF InductiveInvariant, RemoteSound, arenaVars, ReceiptMatches
  <1>. QED BY <1>1, <1>2, <1>3

\* A node that commits a sound state and leaves the journal alone.
LEMMA QuietCommit ==
  ASSUME InductiveInvariant, ClientTypeOK', PublishedTypeOK', CountsTypeOK',
         UNCHANGED <<journal, arenaVars>>,
         NEW s, Commit(s), Sound(s, journal, trades)
  PROVE  InductiveInvariant'
  <1>1. Sound(s, journal', trades') /\ Grows(journal, trades, journal', trades')
    BY StillGrows DEF arenaVars
  <1>2. ClientTypeOK /\ SnapshotsSound
    BY DEF InductiveInvariant, TypeOK, SnapshotsSound
  <1>3. SnapshotsSound' /\ ~local'.buying
    BY <1>1, <1>2, CommitSound
  <1>. QED BY <1>3, RemoteStill DEF InductiveInvariant, TypeOK, SnapshotsSound

\* The feedback, ranking and event counters, when they do not change.
LEMMA AsideStill ==
  ASSUME InductiveInvariant, UNCHANGED <<published, countVars>>
  PROVE  PublishedTypeOK' /\ CountsTypeOK'
  BY DEF InductiveInvariant, TypeOK, PublishedTypeOK, CountsTypeOK, countVars

\* What the running state is worth.
LEMMA RunningSound ==
  ASSUME InductiveInvariant
  PROVE  st \in GraphState /\ ClientTypeOK /\ Sound(st, journal, trades)
  BY DEF InductiveInvariant, TypeOK, ClientTypeOK, Snapshots

\* prepare makes a fresh state: nothing sent or recorded is touched.
LEMMA PrepareSafe == ASSUME InductiveInvariant, Prepare PROVE InductiveInvariant'
  <1>. DEFINE s == [st EXCEPT !.next = "discover"]
  <1>1. Sound(s, journal, trades)
    BY RunningSound, Harmless DEF GraphState, BuyingNodes, CycleNodes
  <1>2. ClientTypeOK'
    BY RunningSound, PrepareTyped
  <1>. QED BY <1>1, <1>2, QuietCommit, AsideStill DEF Prepare

\* discover records the listings and keeps every part about purchases.
LEMMA DiscoverSafe == ASSUME InductiveInvariant, Discover PROVE InductiveInvariant'
  <1>. DEFINE Found(d) == [d EXCEPT !.targets = IF st.mode = "market" THEN <<>> ELSE @]
              Short(d) == st.mode # "market" /\ d.targets = <<>>
              s(d) == [st EXCEPT
                !.found = Found(d),
                !.violations = IF Short(d) THEN @ \cup {<<"targets", NoSubject>>} ELSE @,
                !.next = CASE st.mode = "market" -> "plan_market"
                           [] Short(d) -> "audit"
                           [] OTHER -> "evaluate_services"]
  <1>1. PICK d \in Discoveries : Commit(s(d))
    BY DEF Discover
  <1>2. Sound(s(d), journal, trades)
    <2>. DEFINE x == s(d)
    <2>1. /\ x.plan = st.plan /\ x.index = st.index /\ x.receipts = st.receipts
          /\ st.violations \subseteq x.violations
      BY RunningSound DEF GraphState
    <2>2. /\ x.next \in {"plan_market", "audit", "evaluate_services"}
          /\ x.next = "audit" => x.violations # {}
      BY RunningSound DEF GraphState
    <2>. HIDE DEF x
    <2>3. Sound(x, journal, trades)
      BY <2>1, <2>2, RunningSound, Harmless DEF BuyingNodes, CycleNodes
    <2>. QED BY <2>3 DEF x
  <1>3. ClientTypeOK'
    BY RunningSound, DiscoverTyped
  <1>. HIDE DEF s
  <1>. QED BY <1>1, <1>2, <1>3, QuietCommit, AsideStill DEF Discover

\* Probing the targets sends no purchase.
LEMMA EvaluateSafe ==
  ASSUME InductiveInvariant, EvaluateServices PROVE InductiveInvariant'
  <1>. DEFINE s == [st EXCEPT !.tried = @ \cup Targets,
                              !.next = "publish_required_feedback"]
  <1>1. Sound(s, journal, trades)
    BY RunningSound, Harmless DEF GraphState, BuyingNodes, CycleNodes
  <1>2. ClientTypeOK'
    BY RunningSound, EvaluateTyped
  <1>. QED BY <1>1, <1>2, QuietCommit, AsideStill DEF EvaluateServices

\* An acknowledged critique or ranking moves no credits.
LEMMA FeedbackDoneSafe ==
  ASSUME InductiveInvariant, FeedbackDone PROVE InductiveInvariant'
  <1>. DEFINE s == [st EXCEPT !.critiqued = @ \cup Targets,
                              !.violations = @ \cup {<<"feedback", x>> : x \in local.failed},
                              !.next = "rank"]
  <1>1. Sound(s, journal, trades)
    BY RunningSound, Harmless DEF GraphState, BuyingNodes, CycleNodes
  <1>2. ClientTypeOK'
    BY RunningSound, FeedbackDoneTyped
  <1>. QED BY <1>1, <1>2, QuietCommit, AsideStill DEF FeedbackDone

\* An attempt keeps the published items and the loss counter typed.
LEMMA AttemptTyped ==
  ASSUME InductiveInvariant, NEW item, NEW outcome \in Outcomes, Attempt(item, outcome),
         item \in ({"feedback"} \X Sellers \X Nat) \cup {<<"ranking", NoSubject, 0>>},
         UNCHANGED <<stops, reruns>>
  PROVE  PublishedTypeOK' /\ CountsTypeOK'
  <1>1. losses' = losses \/ (losses < MaxLosses /\ losses' = losses + 1)
    BY DEF Attempt, Outcomes
  <1>2. published' \subseteq published \cup {item}
    BY DEF Attempt, Outcomes
  <1>3. CountsTypeOK'
    BY <1>1, ConstantsAssumption DEF InductiveInvariant, TypeOK, CountsTypeOK
  <1>4. PublishedTypeOK'
    BY <1>2 DEF InductiveInvariant, TypeOK, PublishedTypeOK
  <1>. QED BY <1>3, <1>4

\* A step of the client that leaves every state of the graph as it is.
LEMMA LocalStep ==
  ASSUME InductiveInvariant, ClientTypeOK', PublishedTypeOK', CountsTypeOK',
         UNCHANGED <<st, durableVars, journal, arenaVars>>,
         local'.buying => st.next = "execute_purchase"
  PROVE  InductiveInvariant'
  <1>1. Snapshots' = Snapshots
    BY DEF Snapshots, durableVars
  <1>2. SnapshotsSound'
    BY <1>1, NoCommitSound, StillGrows
      DEF InductiveInvariant, TypeOK, SnapshotsSound, arenaVars
  <1>. QED BY <1>2, RemoteStill DEF InductiveInvariant, TypeOK, SnapshotsSound

\* A failing node before the market ends the attempt and changes nothing else.
LEMMA DiscoverRaisesSafe ==
  ASSUME InductiveInvariant, DiscoverRaises PROVE InductiveInvariant'
  <1>1. ClientTypeOK'
    BY RunningSound DEF DiscoverRaises, ClientTypeOK, durableVars
  <1>2. PublishedTypeOK' /\ CountsTypeOK'
    BY ConstantsAssumption
      DEF DiscoverRaises, InductiveInvariant, TypeOK, PublishedTypeOK, CountsTypeOK
  <1>3. local'.buying => st.next = "execute_purchase"
    BY DEF DiscoverRaises, InductiveInvariant
  <1>. QED BY <1>1, <1>2, <1>3, LocalStep DEF DiscoverRaises

\* Sending a critique puts only a feedback entry in the Arena.
LEMMA PostCritiqueSafe ==
  ASSUME InductiveInvariant, PostCritique PROVE InductiveInvariant'
  <1>. DEFINE seller == st.found.targets[local.posted + 1]
  <1>1. seller \in Sellers /\ local.posted \in Nat
    BY RunningSound DEF PostCritique, ClientTypeOK, GraphState, Discovery
  <1>. HIDE DEF seller
  <1>2. PICK outcome \in Outcomes :
          /\ Attempt(<<"feedback", seller, local.posted>>, outcome)
          /\ local' = IF Retries(outcome)
                      THEN [local EXCEPT !.attempt = 2]
                      ELSE [local EXCEPT
                              !.posted = @ + 1, !.attempt = 1,
                              !.failed = IF outcome = "ok" THEN @ ELSE @ \cup {seller}]
    BY DEF PostCritique, seller
  <1>3. <<"feedback", seller, local.posted>> \in {"feedback"} \X Sellers \X Nat
    BY <1>1
  <1>4. PublishedTypeOK' /\ CountsTypeOK'
    BY <1>2, <1>3, AttemptTyped DEF PostCritique
  <1>5. local'.buying = local.buying
    BY <1>2, RunningSound DEF ClientTypeOK
  <1>6. ClientTypeOK'
    BY RunningSound, PostCritiqueTyped
  <1>. QED BY <1>4, <1>5, <1>6, LocalStep DEF PostCritique, Runs

\* Ranking sends only a feedback entry.
LEMMA RankSafe == ASSUME InductiveInvariant, Rank PROVE InductiveInvariant'
  <1>. DEFINE s(outcome) == [st EXCEPT
                !.ranked = IF outcome = "ok" THEN st.found.targets # <<>> ELSE @,
                !.violations = IF outcome = "ok" THEN @
                               ELSE @ \cup {<<"ranking", NoSubject>>},
                !.next = IF st.mode = "critique" THEN "audit" ELSE "plan_market"]
  <1>1. PICK outcome \in Outcomes :
          /\ Attempt(<<"ranking", NoSubject, 0>>, outcome)
          /\ IF Retries(outcome)
             THEN /\ local' = [local EXCEPT !.attempt = 2]
                  /\ UNCHANGED <<st, alive, durableVars>>
             ELSE Commit(s(outcome))
    BY DEF Rank
  <1>2. PublishedTypeOK' /\ CountsTypeOK'
    BY <1>1, AttemptTyped DEF Rank
  <1>3. ClientTypeOK'
    BY RunningSound, RankTyped
  <1>4. CASE Retries(outcome)
    <2>1. local'.buying = local.buying
      BY <1>1, <1>4, RunningSound DEF ClientTypeOK
    <2>. QED BY <1>1, <1>2, <1>3, <1>4, <2>1, LocalStep DEF Rank, Runs
  <1>5. CASE ~Retries(outcome)
    <2>. DEFINE x == s(outcome)
    <2>1. /\ x.plan = st.plan /\ x.index = st.index /\ x.receipts = st.receipts
          /\ st.violations \subseteq x.violations
      BY RunningSound DEF GraphState
    <2>2. /\ x.next \in {"plan_market", "audit"}
          /\ x.next = "audit" => x.mode = "critique"
      BY RunningSound DEF GraphState
    <2>3. Commit(x)
      BY <1>1, <1>5
    <2>. HIDE DEF x
    <2>4. Sound(x, journal, trades)
      BY <2>1, <2>2, RunningSound, Harmless DEF BuyingNodes, CycleNodes
    <2>. QED BY <1>2, <1>3, <2>3, <2>4, QuietCommit DEF Rank
  <1>. QED BY <1>4, <1>5

\* A plan is made before anything is bought in this state.
LEMMA PlanMarketSafe == ASSUME InductiveInvariant, PlanMarket PROVE InductiveInvariant'
  <1>. DEFINE none == [st EXCEPT !.plan = <<>>, !.next = "audit",
                                 !.violations = @ \cup {<<"plan", NoSubject>>}]
              some == [st EXCEPT !.plan = st.found.plan, !.index = 0,
                                 !.next = "prepare_purchase"]
  <1>1. \A r \in st.receipts : r \in CarriedReceipts \/ Backed(r, journal, trades)
    BY RunningSound DEF Sound
  <1>2. Sound(none, journal, trades)
    <2>1. /\ none.next = "audit" /\ none.violations # {}
          /\ Len(none.plan) = 0 /\ none.receipts = st.receipts /\ none.index \in Nat
      BY RunningSound DEF GraphState
    <2>. HIDE DEF none
    <2>2. \A i \in 0 .. none.index - 1 : ~(i < Len(none.plan))
      BY <2>1
    <2>. QED BY <1>1, <2>1, <2>2 DEF Sound, CycleNodes
  <1>3. Sound(some, journal, trades)
    <2>1. /\ some.next = "prepare_purchase" /\ some.index = 0
          /\ some.receipts = st.receipts
      BY RunningSound DEF GraphState
    <2>. HIDE DEF some
    <2>2. 0 .. some.index - 1 = {}
      BY <2>1
    <2>. QED BY <1>1, <2>1, <2>2 DEF Sound, CycleNodes
  <1>4. ClientTypeOK'
    BY RunningSound, PlanMarketTyped
  <1>5. Commit(none) \/ Commit(some)
    BY DEF PlanMarket
  <1>. HIDE DEF none, some
  <1>. QED BY <1>2, <1>3, <1>4, <1>5, QuietCommit, AsideStill DEF PlanMarket

\* The report is valid only when the receipts settle the plan.
LEMMA AuditSafe == ASSUME InductiveInvariant, Audit PROVE InductiveInvariant'
  <1>. DEFINE added ==
                {v \in {<<"critique_floor", NoSubject>>} :
                    st.mode # "market" /\ ~CritiqueCompliant} \cup
                {v \in {<<"market_floor", NoSubject>>} :
                    st.mode # "critique" /\ ~MarketCompliant}
              all == st.violations \cup added
              s == [st EXCEPT !.violations = all, !.next = "complete",
                              !.report = IF all = {} THEN "valid" ELSE "invalid"]
  <1>1. Commit(s)
    BY DEF Audit
  <1>2. st.next = "audit"
    BY DEF Audit, Runs
  <1>3. all = {} => st.violations = {} /\ (st.mode # "critique" => MarketCompliant)
    OBVIOUS
  <1>4. st.violations \subseteq all
    OBVIOUS
  <1>. HIDE DEF all
  <1>5. /\ s.next = "complete" /\ s.violations = all
        /\ s.report = "valid" => all = {}
        /\ s.plan = st.plan /\ s.index = st.index /\ s.receipts = st.receipts
        /\ s.spent = st.spent /\ s.purchased = st.purchased /\ s.mode = st.mode
    BY RunningSound DEF GraphState
  <1>. HIDE DEF s
  <1>6. Sound(s, journal, trades)
    <2>1. \A i : Key(s, i) = Key(st, i)
      BY <1>5 DEF Key, Intent
    <2>2. Sound(st, journal, trades)
      BY RunningSound
    <2>3. s.violations = {} => st.violations = {}
      BY <1>4, <1>5
    <2>4. s.report = "valid" =>
            /\ s.violations = {}
            /\ s.mode # "critique" => /\ s.index >= Len(s.plan)
                                      /\ s.spent >= MinimumSpend
                                      /\ Cardinality(s.purchased) >= MinimumProducts
      BY <1>2, <1>3, <1>5, <2>2 DEF Sound, MarketCompliant
    <2>. QED BY <1>2, <1>5, <2>1, <2>2, <2>3, <2>4 DEF Sound, CycleNodes
  <1>7. ClientTypeOK'
    BY RunningSound, AuditTyped
  <1>. QED BY <1>1, <1>6, <1>7, QuietCommit, AsideStill DEF Audit

-----------------------------------------------------------------------------
(* The purchase cycle.                                                       *)

\* A verdict written to a key that was prepared, SETTLED only for a trade that
\* settles what the key was prepared for.
LEMMA TransitionRemote ==
  ASSUME InductiveInvariant, NEW k \in PurchaseKeys,
         NEW status \in Journal!VerdictStatuses, NEW receipt \in TradeReceipt \cup {NoReceipt},
         status = "settled" => /\ arena[k] = "settled" /\ receipt = trades[k]
                               /\ ReceiptMatches(trades[k], journal[k].intent),
         Journal!Transition(k, status, receipt), UNCHANGED arenaVars
  PROVE  /\ RemoteSound'
         /\ Grows(journal, trades, journal', trades')
         /\ journal'[k].status \in Journal!VerdictStatuses
  <1>. DEFINE op == journal[k]
              new == Journal!Updated(op, status, receipt)
  <1>1. journal' = [journal EXCEPT ![k] = new] /\ op.status # "absent"
    BY DEF Journal!Transition, Journal!Created
  <1>2. journal \in [PurchaseKeys -> Journal!OutboundOperation]
    BY DEF InductiveInvariant, TypeOK, Journal!TypeOK
  <1>3. op \in Journal!OutboundOperation
    BY <1>2
  <1>4. receipt # NoReceipt \/ status # "settled"
    BY TradeTyped, ConstantsAssumption
  <1>5. /\ new.intent = op.intent
        /\ new.status = status \/ (op.status = "settled" /\ new = op)
        /\ op.status = "settled" => new.status = "settled"
        /\ new.status = "settled" /\ op.status # "settled" =>
             status = "settled" /\ new.receipt = receipt
        /\ op.status = "settled" => new.receipt = op.receipt \/ new.receipt = receipt
        /\ op.status = "settled" /\ status # "settled" => new.receipt = op.receipt
        /\ status = "settled" => new.receipt = receipt
    BY <1>3, <1>4 DEF Journal!Updated, Journal!OutboundOperation
  <1>6. /\ op.status = "settled" => /\ arena[k] = "settled" /\ op.receipt = trades[k]
                                    /\ ReceiptMatches(trades[k], op.intent)
        /\ op.status = "absent" <=> op.intent = NoIntent
        /\ arena[k] = "settled" <=> trades[k] # NoReceipt
    BY DEF InductiveInvariant, RemoteSound
  <1>7. /\ journal'[k] = new
        /\ \A x \in PurchaseKeys : x # k => journal'[x] = journal[x]
    BY <1>1, <1>2
  <1>. HIDE DEF new
  <1>8. new.status \in Journal!VerdictStatuses
    BY <1>5 DEF Journal!VerdictStatuses
  <1>9. Grows(journal, trades, journal', trades')
    <2>. SUFFICES ASSUME NEW x \in PurchaseKeys
                  PROVE  /\ journal[x].intent # NoIntent => journal'[x].intent = journal[x].intent
                         /\ journal[x].status \in Journal!VerdictStatuses
                              => journal'[x].status \in Journal!VerdictStatuses
                         /\ journal[x].status = "settled"
                              => /\ journal'[x].status = "settled"
                                 /\ journal'[x].receipt = journal[x].receipt
                         /\ trades[x] # NoReceipt => trades'[x] = trades[x]
      BY DEF Grows
    <2>1. CASE x = k
      BY <1>5, <1>6, <1>7, <1>8, <2>1 DEF arenaVars
    <2>2. CASE x # k
      BY <1>7, <2>2 DEF arenaVars
    <2>. QED BY <2>1, <2>2
  <1>10. RemoteSound'
    <2>. SUFFICES ASSUME NEW x \in PurchaseKeys
                  PROVE (/\ journal[x].status = "absent" <=> journal[x].intent = NoIntent
                         /\ journal[x].status \in {"absent", "prepared"} => sends[x] = 0
                         /\ sends[x] =< 1
                         /\ arena[x] # "idle" => sends[x] = 1
                         /\ arena[x] = "settled" <=> trades[x] # NoReceipt
                         /\ journal[x].status = "settled" =>
                              /\ arena[x] = "settled"
                              /\ journal[x].receipt = trades[x]
                              /\ ReceiptMatches(trades[x], journal[x].intent))'
      BY DEF RemoteSound
    <2>1. CASE x = k
      <3>1. new.status \notin {"absent", "prepared"} /\ op.intent # NoIntent
        BY <1>1, <1>6, <1>8 DEF Journal!VerdictStatuses
      <3>2. new.status = "settled" =>
              /\ arena[k] = "settled" /\ new.receipt = trades[k]
              /\ ReceiptMatches(trades[k], new.intent)
        BY <1>5, <1>6
      <3>3. sends[k] =< 1 /\ (arena[k] # "idle" => sends[k] = 1)
        BY DEF InductiveInvariant, RemoteSound
      <3>. QED BY <1>5, <1>6, <1>7, <2>1, <3>1, <3>2, <3>3 DEF arenaVars, ReceiptMatches
    <2>2. CASE x # k
      BY <1>7, <2>2 DEF InductiveInvariant, RemoteSound, arenaVars, ReceiptMatches
    <2>. QED BY <2>1, <2>2
  <1>. QED BY <1>7, <1>8, <1>9, <1>10

\* Concluding a purchase with a verdict that the Arena backs.
LEMMA ConcludeSafe ==
  ASSUME InductiveInvariant, st.next \in CycleNodes, NEW verdict \in Verdict,
         NEW next \in {"record_purchase", "reconcile_purchase"},
         verdict[1] = "settled" =>
           /\ arena[st.pending] = "settled" /\ verdict[2] = trades[st.pending]
           /\ ReceiptMatches(trades[st.pending], Intent(st, st.index)),
         Conclude(verdict, next)
  PROVE  InductiveInvariant'
  <1>. DEFINE s == [st EXCEPT !.next = next]
              k == st.pending
  <1>1. /\ st \in GraphState /\ k \in PurchaseKeys /\ k = Key(st, st.index)
        /\ st.index < Len(st.plan)
        /\ journal[k].intent = Intent(st, st.index)
    BY PendingTyped
  <1>2. /\ verdict[1] \in Journal!VerdictStatuses
        /\ verdict[2] \in TradeReceipt \cup {NoReceipt}
    BY DEF Verdict
  <1>3. /\ Journal!Transition(k, verdict[1], verdict[2]) /\ Commit(s)
        /\ UNCHANGED <<arenaVars, published, countVars>>
    BY DEF Conclude
  <1>4. /\ RemoteSound'
        /\ Grows(journal, trades, journal', trades')
        /\ journal'[k].status \in Journal!VerdictStatuses
    BY <1>1, <1>2, <1>3, TransitionRemote
  <1>5. Sound(st, journal', trades')
    BY <1>4, RunningSound, SoundGrows
  <1>6. Sound(s, journal', trades')
    <2>1. /\ s.next = next /\ s.pending = st.pending
          /\ s.plan = st.plan /\ s.index = st.index /\ s.receipts = st.receipts
          /\ s.violations = st.violations /\ s.mode = st.mode
      BY <1>1 DEF GraphState
    <2>. HIDE DEF s
    <2>2. \A i : Key(s, i) = Key(st, i) /\ Intent(s, i) = Intent(st, i)
      BY <2>1 DEF Key, Intent
    <2>3. /\ s.index < Len(s.plan) /\ s.pending = Key(s, s.index)
          /\ journal'[s.pending].intent = Intent(s, s.index)
      BY <1>5, <2>1, <2>2 DEF Sound
    <2>. QED BY <1>4, <1>5, <2>1, <2>2, <2>3 DEF Sound, BuyingNodes
  <1>7. ClientTypeOK' /\ Journal!TypeOK'
    BY ConcludeTyped DEF InductiveInvariant, Verdict, Nodes
  <1>8. ArenaTypeOK'
    BY <1>3 DEF InductiveInvariant, TypeOK, ArenaTypeOK, arenaVars
  <1>9. SnapshotsSound' /\ ~local'.buying
    BY <1>3, <1>4, <1>6, RunningSound, CommitSound DEF InductiveInvariant, SnapshotsSound
  <1>. QED BY <1>3, <1>4, <1>7, <1>8, <1>9, AsideStill
         DEF InductiveInvariant, TypeOK, SnapshotsSound

\* The intent is journalled, with its verdict kept, before the next node.
LEMMA PreparePurchaseSafe ==
  ASSUME InductiveInvariant, PreparePurchase PROVE InductiveInvariant'
  <1>1. /\ ClientTypeOK' /\ Journal!TypeOK'
        /\ st \in GraphState /\ st.index \in Nat /\ Len(st.plan) \in Nat
        /\ Sound(st, journal, trades) /\ st.next = "prepare_purchase"
    BY RunningSound, PreparePurchaseTyped
      DEF InductiveInvariant, TypeOK, GraphState, Plan, PreparePurchase, Runs
  <1>2. PublishedTypeOK' /\ CountsTypeOK' /\ UNCHANGED arenaVars
    BY AsideStill DEF PreparePurchase
  <1>3. CASE st.index >= Len(st.plan)
    <2>. DEFINE s == [st EXCEPT !.next = "audit"]
    <2>1. Commit(s) /\ UNCHANGED journal
      BY <1>3 DEF PreparePurchase
    <2>2. /\ s.next = "audit" /\ s.plan = st.plan /\ s.index = st.index
          /\ s.receipts = st.receipts /\ s.violations = st.violations /\ s.mode = st.mode
      BY <1>1 DEF GraphState
    <2>. HIDE DEF s
    <2>3. \A i : Key(s, i) = Key(st, i)
      BY <2>2 DEF Key, Intent
    <2>4. Sound(s, journal, trades)
      BY <1>1, <1>3, <2>2, <2>3 DEF Sound, BuyingNodes, CycleNodes
    <2>. QED BY <1>1, <1>2, <2>1, <2>4, QuietCommit
  <1>4. CASE st.index < Len(st.plan)
    <2>. DEFINE k == Key(st, st.index)
                intent == Intent(st, st.index)
                s == [st EXCEPT !.next = AfterPreparation(k), !.pending = k]
    <2>1. k \in PurchaseKeys /\ intent \in PurchaseIntent /\ intent # NoIntent
      BY <1>1, <1>4, PositionTyped, ConstantsAssumption
    <2>2. Journal!Prepare(k, intent) /\ Commit(s)
      BY <1>1, <1>4 DEF PreparePurchase
    <2>3. /\ s.next = AfterPreparation(k) /\ s.pending = k
          /\ s.plan = st.plan /\ s.index = st.index /\ s.receipts = st.receipts
          /\ s.violations = st.violations /\ s.mode = st.mode
      BY <1>1 DEF GraphState
    <2>4. \A i : Key(s, i) = Key(st, i) /\ Intent(s, i) = Intent(st, i)
      BY <2>3 DEF Key, Intent
    <2>5. s.pending = Key(s, s.index) /\ intent = Intent(s, s.index)
      BY <2>3, <2>4
    <2>. HIDE DEF k, intent, s
    <2>6. journal \in [PurchaseKeys -> Journal!OutboundOperation] /\ RemoteSound
      BY DEF InductiveInvariant, TypeOK, Journal!TypeOK
    <2>7. journal'[k].intent = intent
      BY <2>1, <2>2, <2>6 DEF Journal!Prepare, Journal!SameIntent, Journal!Created
    <2>8. Journal!Created(k) =>
            /\ journal' = [journal EXCEPT ![k] = [status |-> "prepared", intent |-> intent,
                                                  receipt |-> NoReceipt]]
            /\ journal[k].intent = NoIntent /\ sends[k] = 0
      BY <2>1, <2>2, <2>6 DEF Journal!Prepare, Journal!Created, RemoteSound
    <2>9. ~Journal!Created(k) => journal' = journal
      BY <2>2 DEF Journal!Prepare
    <2>10. Grows(journal, trades, journal', trades')
      <3>1. CASE ~Journal!Created(k)
        BY <1>2, <2>9, <3>1, StillGrows DEF arenaVars
      <3>2. CASE Journal!Created(k)
        <4>1. journal[k].status \notin Journal!VerdictStatuses
          BY <3>2 DEF Journal!Created, Journal!VerdictStatuses
        <4>. QED BY <1>2, <2>6, <2>8, <3>2, <4>1 DEF Grows, arenaVars, Journal!VerdictStatuses
      <3>. QED BY <3>1, <3>2
    <2>11. RemoteSound'
      <3>1. CASE ~Journal!Created(k)
        BY <1>2, <2>9, <3>1, RemoteStill
      <3>2. CASE Journal!Created(k)
        BY <1>2, <2>1, <2>6, <2>8, <3>2 DEF RemoteSound, arenaVars, ReceiptMatches
      <3>. QED BY <3>1, <3>2
    <2>12. s.next = "record_purchase" => journal'[k].status \in Journal!VerdictStatuses
      <3>. HAVE s.next = "record_purchase"
      <3>1. ~Journal!Created(k) /\ journal[k].status \notin {"prepared", "submitted", "unknown"}
        BY <2>3 DEF AfterPreparation
      <3>2. journal[k].status \in Journal!OperationStatus
        BY <2>1, <2>6 DEF Journal!OutboundOperation
      <3>. QED BY <2>9, <3>1, <3>2
             DEF Journal!OperationStatus, Journal!TransitionStatuses,
               Journal!VerdictStatuses, Journal!Created
    <2>13. Sound(st, journal', trades')
      BY <1>1, <2>10, SoundGrows
    <2>14. s.next \in CycleNodes
      BY <2>3 DEF AfterPreparation, CycleNodes
    <2>15. Sound(s, journal', trades')
      <3>1. /\ s.index < Len(s.plan) /\ s.pending = Key(s, s.index)
            /\ journal'[s.pending].intent = Intent(s, s.index)
        BY <1>4, <2>3, <2>5, <2>7
      <3>. QED BY <1>1, <2>3, <2>4, <2>12, <2>13, <2>14, <3>1
             DEF Sound, BuyingNodes, CycleNodes
    <2>16. SnapshotsSound' /\ ~local'.buying
      BY <2>2, <2>10, <2>15, RunningSound, CommitSound DEF InductiveInvariant, SnapshotsSound
    <2>17. ArenaTypeOK'
      BY <1>2 DEF InductiveInvariant, TypeOK, ArenaTypeOK, arenaVars
    <2>. QED BY <1>1, <1>2, <2>11, <2>16, <2>17 DEF InductiveInvariant, TypeOK, SnapshotsSound
  <1>. QED BY <1>1, <1>3, <1>4

\* A journal that refuses an intent leaves everything as it was.
LEMMA PreparePurchaseRaisesSafe ==
  ASSUME InductiveInvariant, PreparePurchaseRaises PROVE InductiveInvariant'
  <1>1. ClientTypeOK'
    BY RunningSound DEF PreparePurchaseRaises, ClientTypeOK, durableVars
  <1>2. local'.buying => st.next = "execute_purchase"
    BY DEF PreparePurchaseRaises, InductiveInvariant
  <1>. QED BY <1>1, <1>2, LocalStep, AsideStill DEF PreparePurchaseRaises

\* A purchase is sent at most once: only from PREPARED, with SUBMITTED saved first.
LEMMA ExecuteSafe ==
  ASSUME InductiveInvariant, ExecutePurchase PROVE InductiveInvariant'
  <1>. DEFINE k == st.pending
  <1>1. /\ st.next = "execute_purchase" /\ st.next \in CycleNodes
        /\ journal[k].status = "prepared"
    BY DEF ExecutePurchase, Runs, CycleNodes
  <1>2. k \in PurchaseKeys
    BY <1>1, PendingTyped
  <1>3. /\ journal \in [PurchaseKeys -> Journal!OutboundOperation]
        /\ sends \in [PurchaseKeys -> Nat] /\ RemoteSound
        /\ DOMAIN arena = PurchaseKeys
    BY DEF InductiveInvariant, TypeOK, Journal!TypeOK, ArenaTypeOK
  <1>4. /\ journal' = [journal EXCEPT ![k] = Journal!Updated(@, "submitted", NoReceipt)]
        /\ sends' = [sends EXCEPT ![k] = @ + 1]
        /\ arena' = [arena EXCEPT ![k] = IF @ = "idle" THEN "in_flight" ELSE @]
        /\ UNCHANGED <<st, durableVars, trades, published, countVars>>
    BY DEF ExecutePurchase, Journal!Transition
  <1>. HIDE DEF k
  <1>5. sends[k] = 0 /\ arena[k] = "idle" /\ trades[k] = NoReceipt
        /\ journal[k].intent # NoIntent
    BY <1>1, <1>2, <1>3 DEF RemoteSound
  <1>6. /\ journal'[k].status = "submitted"
        /\ journal'[k].intent = journal[k].intent
        /\ \A x \in PurchaseKeys : x # k => journal'[x] = journal[x]
    BY <1>1, <1>2, <1>3, <1>4 DEF Journal!Updated, Journal!OutboundOperation
  <1>7. /\ sends'[k] = 1 /\ arena'[k] = "in_flight" /\ trades'[k] = NoReceipt
        /\ \A x \in PurchaseKeys : x # k =>
             sends'[x] = sends[x] /\ arena'[x] = arena[x] /\ trades'[x] = trades[x]
    BY <1>2, <1>3, <1>4, <1>5
  <1>8. RemoteSound'
    BY <1>2, <1>3, <1>5, <1>6, <1>7 DEF RemoteSound, ReceiptMatches
  <1>9. Grows(journal, trades, journal', trades')
    BY <1>1, <1>2, <1>4, <1>6 DEF Grows, Journal!VerdictStatuses
  <1>10. Snapshots' = Snapshots
    BY <1>4 DEF Snapshots, durableVars
  <1>11. SnapshotsSound'
    BY <1>9, <1>10, NoCommitSound DEF InductiveInvariant, TypeOK, SnapshotsSound
  <1>12. ClientTypeOK' /\ Journal!TypeOK' /\ ArenaTypeOK'
    BY ExecuteTyped DEF InductiveInvariant
  <1>13. PublishedTypeOK' /\ CountsTypeOK'
    BY <1>4, AsideStill
  <1>. QED BY <1>1, <1>4, <1>8, <1>11, <1>12, <1>13
         DEF InductiveInvariant, TypeOK, SnapshotsSound

\* What is found SUBMITTED or beyond goes to reconciliation unsent.
LEMMA AlreadySubmittedSafe ==
  ASSUME InductiveInvariant, ExecuteAlreadySubmitted PROVE InductiveInvariant'
  <1>. DEFINE s == [st EXCEPT !.next = "reconcile_purchase"]
  <1>1. st.next \in CycleNodes /\ Sound(st, journal, trades)
    BY RunningSound DEF ExecuteAlreadySubmitted, Runs, CycleNodes
  <1>2. /\ s.next = "reconcile_purchase" /\ s.pending = st.pending
        /\ s.plan = st.plan /\ s.index = st.index /\ s.receipts = st.receipts
        /\ s.violations = st.violations /\ s.mode = st.mode
    BY RunningSound DEF GraphState
  <1>3. Commit(s)
    BY DEF ExecuteAlreadySubmitted
  <1>. HIDE DEF s
  <1>4. \A i : Key(s, i) = Key(st, i) /\ Intent(s, i) = Intent(st, i)
    BY <1>2 DEF Key, Intent
  <1>5. Sound(s, journal, trades)
    BY <1>1, <1>2, <1>4 DEF Sound, BuyingNodes, CycleNodes
  <1>6. ClientTypeOK'
    BY RunningSound, AlreadySubmittedTyped
  <1>. QED BY <1>3, <1>5, <1>6, QuietCommit, AsideStill DEF ExecuteAlreadySubmitted

\* A receipt that matches settles; the others are disputed.
LEMMA ReceiptVerdictSafe ==
  ASSUME InductiveInvariant, NEW k \in PurchaseKeys, arena[k] = "settled", NEW intent
  PROVE  /\ ReceiptVerdict(trades[k], intent) \in Verdict
         /\ ReceiptVerdict(trades[k], intent)[2] = trades[k]
         /\ ReceiptVerdict(trades[k], intent)[1] = "settled" =>
              ReceiptMatches(trades[k], intent)
  <1>1. ReceiptVerdict(trades[k], intent) \in Verdict
    BY TradeTyped, ReceiptVerdictTyped
  <1>. QED BY <1>1 DEF ReceiptVerdict

\* A receipt that matches was issued by the Arena for this very purchase.
LEMMA BuyReturnsReceiptSafe ==
  ASSUME InductiveInvariant, BuyReturnsReceipt PROVE InductiveInvariant'
  <1>. DEFINE verdict == ReceiptVerdict(trades[st.pending], Intent(st, st.index))
  <1>1. st.next \in CycleNodes /\ st.pending \in PurchaseKeys
    BY BuyingTyped, PendingTyped DEF BuyReturnsReceipt
  <1>2. arena[st.pending] = "settled" /\ Conclude(verdict, "record_purchase")
    BY DEF BuyReturnsReceipt
  <1>3. /\ verdict \in Verdict /\ verdict[2] = trades[st.pending]
        /\ verdict[1] = "settled" => ReceiptMatches(trades[st.pending], Intent(st, st.index))
    BY <1>1, <1>2, ReceiptVerdictSafe
  <1>. HIDE DEF verdict
  <1>. QED BY <1>1, <1>2, <1>3, ConcludeSafe

\* A verdict that carries no receipt and is not SETTLED.
LEMMA PlainVerdictSafe ==
  ASSUME InductiveInvariant, st.next \in CycleNodes,
         NEW status \in Journal!VerdictStatuses \ {"settled"},
         NEW next \in {"record_purchase", "reconcile_purchase"},
         Conclude(<<status, NoReceipt>>, next)
  PROVE  InductiveInvariant'
  <1>. DEFINE verdict == <<status, NoReceipt>>
  <1>1. verdict \in Verdict /\ verdict[1] # "settled"
    BY DEF Verdict
  <1>2. Conclude(verdict, next)
    OBVIOUS
  <1>. HIDE DEF verdict
  <1>. QED BY <1>1, <1>2, ConcludeSafe

\* A failed call leaves a verdict that promises no settlement.
LEMMA BuyFailsSafe ==
  ASSUME InductiveInvariant, BuyRefused \/ BuyTransportFails PROVE InductiveInvariant'
  <1>1. st.next \in CycleNodes
    BY BuyingTyped DEF BuyRefused, BuyTransportFails
  <1>2. \/ Conclude(<<"failed", NoReceipt>>, "record_purchase")
        \/ Conclude(<<"unknown", NoReceipt>>, "reconcile_purchase")
    BY DEF BuyRefused, BuyTransportFails
  <1>. QED BY <1>1, <1>2, PlainVerdictSafe DEF Journal!VerdictStatuses

\* Only two matching ledger entries and a receipt make a purchase settled.
LEMMA ReconcileSafe ==
  ASSUME InductiveInvariant, ReconcilePurchase PROVE InductiveInvariant'
  <1>1. st.next \in CycleNodes
    BY DEF ReconcilePurchase, Runs, CycleNodes
  <1>2. st.pending \in PurchaseKeys
    BY <1>1, PendingTyped
  <1>3. PICK evidence \in EvidenceOf(st.pending) :
          Conclude(EvidenceVerdict(st.pending, evidence, Intent(st, st.index)),
                   "record_purchase")
    BY DEF ReconcilePurchase
  <1>. DEFINE verdict == EvidenceVerdict(st.pending, evidence, Intent(st, st.index))
  <1>4. verdict \in Verdict
    BY <1>2, EvidenceVerdictTyped
  <1>5. verdict[1] = "settled" =>
          /\ arena[st.pending] = "settled" /\ verdict[2] = trades[st.pending]
          /\ ReceiptMatches(trades[st.pending], Intent(st, st.index))
    <2>1. CASE evidence.platform = NoReceipt
      BY <2>1 DEF EvidenceVerdict
    <2>2. CASE evidence.platform # NoReceipt
      <3>1. arena[st.pending] = "settled" /\ evidence.platform = trades[st.pending]
        BY <2>2 DEF EvidenceOf
      <3>2. verdict = ReceiptVerdict(trades[st.pending], Intent(st, st.index))
        BY <2>2, <3>1 DEF EvidenceVerdict
      <3>. QED BY <1>2, <3>1, <3>2, ReceiptVerdictSafe
    <2>. QED BY <2>1, <2>2
  <1>6. Conclude(verdict, "record_purchase")
    BY <1>3
  <1>. HIDE DEF verdict
  <1>. QED BY <1>1, <1>4, <1>5, <1>6, ConcludeSafe

\* No answer from the Arena leaves the verdict unknown.
LEMMA ReconcileUnavailableSafe ==
  ASSUME InductiveInvariant, ReconcileUnavailable PROVE InductiveInvariant'
  <1>1. st.next \in CycleNodes /\ Conclude(<<"unknown", NoReceipt>>, "record_purchase")
    BY DEF ReconcileUnavailable, Runs, CycleNodes
  <1>. QED BY <1>1, PlainVerdictSafe DEF Journal!VerdictStatuses

\* record_purchase counts a position once, and only if it is paid.
LEMMA RecordSafe ==
  ASSUME InductiveInvariant, RecordPurchase PROVE InductiveInvariant'
  <1>. DEFINE op == journal[st.pending]
              intent == Intent(st, st.index)
              r == Recorded(op, intent)
              next == IF st.index + 1 < Len(st.plan) THEN "prepare_purchase" ELSE "audit"
              s == [r EXCEPT !.index = @ + 1, !.pending = NoKey, !.next = next]
  <1>1. st.next = "record_purchase" /\ st.next \in CycleNodes
    BY DEF RecordPurchase, Runs, CycleNodes
  <1>2. /\ st \in GraphState /\ st.index \in Nat /\ st.index < Len(st.plan)
        /\ st.pending \in PurchaseKeys /\ st.pending = Key(st, st.index)
        /\ op.intent = intent /\ intent \in PurchaseIntent
        /\ Len(st.plan) \in Nat
    BY <1>1, PendingTyped DEF GraphState, Plan
  <1>3. Sound(st, journal, trades)
    BY RunningSound
  <1>4. op.status \in Journal!VerdictStatuses
    BY <1>1, <1>3 DEF Sound
  <1>5. op.status = "settled" =>
          op.receipt \in TradeReceipt /\ Backed(op.receipt, journal, trades)
    <2>. HAVE op.status = "settled"
    <2>1. /\ op.receipt \in TradeReceipt /\ op.receipt = trades[st.pending]
          /\ ReceiptMatches(trades[st.pending], op.intent)
      BY <1>2, SettledTyped
    <2>2. op.intent = [service |-> op.receipt.service, seller |-> op.receipt.seller,
                       price |-> op.receipt.amount]
      BY <1>2, <2>1 DEF ReceiptMatches, PurchaseIntent
    <2>. QED BY <1>2, <2>1, <2>2 DEF Backed, ReceiptMatches
  <1>6. Commit(s)
    BY DEF RecordPurchase
  <1>7. ClientTypeOK'
    BY RecordTyped
  <1>. HIDE DEF op, intent
  <1>8. /\ r.plan = st.plan /\ r.index = st.index /\ r.mode = st.mode
        /\ \A x \in r.receipts : x \in st.receipts \/ (op.status = "settled" /\ x = op.receipt)
        /\ st.receipts \subseteq r.receipts
        /\ r.violations = {} =>
             /\ st.violations = {} /\ op.status = "settled" /\ op.receipt \in r.receipts
        /\ DOMAIN r = DOMAIN st
    BY <1>2 DEF Recorded, GraphState
  <1>9. DOMAIN st = {"next", "mode", "found", "plan", "index", "pending", "tried", "critiqued",
                     "ranked", "receipts", "spent", "purchased", "violations", "report"}
    BY <1>2 DEF GraphState
  <1>. HIDE DEF r, next
  <1>10. /\ s.plan = st.plan /\ s.index = st.index + 1 /\ s.receipts = r.receipts
         /\ s.violations = r.violations /\ s.next = next /\ s.mode = st.mode
    BY <1>8, <1>9
  <1>. HIDE DEF s
  <1>11. next \in {"prepare_purchase", "audit"} /\ (next = "audit" => s.index >= Len(s.plan))
    BY <1>2, <1>10 DEF next
  <1>12. \A i : Key(s, i) = Key(st, i)
    BY <1>10 DEF Key, Intent
  <1>13. \A i \in 0 .. s.index - 1 : i \in 0 .. st.index - 1 \/ i = st.index
    BY <1>2, <1>10
  <1>14. Sound(s, journal, trades)
    <2>1. \A i \in 0 .. s.index - 1 :
            i < Len(s.plan) => journal[Key(s, i)].status \in Journal!VerdictStatuses
      BY <1>2, <1>3, <1>4, <1>10, <1>12, <1>13 DEF Sound, op
    <2>2. \A x \in s.receipts : x \in CarriedReceipts \/ Backed(x, journal, trades)
      BY <1>3, <1>5, <1>8, <1>10 DEF Sound
    <2>3. s.mode # "critique" /\ s.violations = {} =>
            \A i \in 0 .. s.index - 1 :
              i < Len(s.plan) => /\ journal[Key(s, i)].status = "settled"
                                 /\ journal[Key(s, i)].receipt \in s.receipts
      BY <1>1, <1>2, <1>3, <1>8, <1>10, <1>12, <1>13 DEF Sound, BuyingNodes, op
    <2>. QED BY <1>10, <1>11, <2>1, <2>2, <2>3 DEF Sound, CycleNodes
  <1>. QED BY <1>6, <1>7, <1>14, QuietCommit, AsideStill DEF RecordPurchase

-----------------------------------------------------------------------------
(* The Arena, the checkpoints and the restarts.                              *)

\* The Arena's answer changes one key that is in flight.
LEMMA ArenaAnswersSafe ==
  ASSUME InductiveInvariant, NEW k \in PurchaseKeys,
         NEW what \in {"settled", "refused", "lost"}, ArenaAnswers(k, what),
         trades' \in [PurchaseKeys -> TradeReceipt \cup {NoReceipt}],
         \A x \in PurchaseKeys : x # k => trades'[x] = trades[x],
         trades'[k] # NoReceipt <=> what = "settled"
  PROVE  InductiveInvariant'
  <1>1. /\ arena[k] = "in_flight" /\ arena' = [arena EXCEPT ![k] = what]
        /\ UNCHANGED <<clientVars, durableVars, journal, sends, published, countVars>>
    BY DEF ArenaAnswers
  <1>2. /\ arena \in [PurchaseKeys -> {"idle", "in_flight", "settled", "refused", "lost"}]
        /\ sends \in [PurchaseKeys -> Nat] /\ RemoteSound
    BY DEF InductiveInvariant, TypeOK, ArenaTypeOK
  <1>3. /\ arena'[k] = what
        /\ \A x \in PurchaseKeys : x # k => arena'[x] = arena[x]
    BY <1>1, <1>2
  <1>4. /\ trades[k] = NoReceipt /\ sends[k] = 1 /\ journal[k].status # "settled"
    BY <1>1, <1>2 DEF RemoteSound
  <1>5. RemoteSound'
    BY <1>1, <1>2, <1>3, <1>4 DEF RemoteSound, ReceiptMatches
  <1>6. Grows(journal, trades, journal', trades')
    BY <1>1, <1>4 DEF Grows
  <1>7. Snapshots' = Snapshots
    BY <1>1 DEF Snapshots, clientVars, durableVars
  <1>8. SnapshotsSound'
    BY <1>6, <1>7, NoCommitSound DEF InductiveInvariant, TypeOK, SnapshotsSound
  <1>9. ClientTypeOK' /\ Journal!TypeOK' /\ (local'.buying => st'.next = "execute_purchase")
    BY <1>1 DEF InductiveInvariant, TypeOK, ClientTypeOK, Journal!TypeOK, clientVars,
      durableVars
  <1>10. ArenaTypeOK'
    BY <1>1, <1>2 DEF ArenaTypeOK
  <1>11. PublishedTypeOK' /\ CountsTypeOK'
    BY <1>1, AsideStill
  <1>. QED BY <1>5, <1>8, <1>9, <1>10, <1>11 DEF InductiveInvariant, TypeOK, SnapshotsSound

\* Whatever the Arena settles a request for, it is a receipt.
LEMMA TradesForTyped ==
  ASSUME InductiveInvariant, NEW k \in PurchaseKeys, arena[k] = "in_flight"
  PROVE  TradesFor(k) \subseteq TradeReceipt
  <1>. DEFINE intent == journal[k].intent
              honest == [trade |-> k, service |-> intent.service, seller |-> intent.seller,
                         amount |-> intent.price, status |-> "paid"]
  <1>1. intent \in PurchaseIntent
    <2>1. intent # NoIntent
      BY DEF InductiveInvariant, RemoteSound
    <2>2. intent \in PurchaseIntent \cup {NoIntent}
      BY DEF InductiveInvariant, TypeOK, Journal!TypeOK, Journal!OutboundOperation
    <2>. QED BY <2>1, <2>2
  <1>2. honest \in TradeReceipt
    BY <1>1 DEF TradeReceipt, PurchaseIntent
  <1>3. \A j \in PurchaseKeys : arena[j] = "settled" => trades[j].trade \in PurchaseKeys
    BY TradeTyped DEF TradeReceipt
  <1>. DEFINE Faulty(fault, S) == IF fault \in ArenaFaults THEN S ELSE {}
              failed == {[honest EXCEPT !.status = "failed"]}
              price == {[honest EXCEPT !.amount = a] : a \in Amounts}
              seller == {[honest EXCEPT !.seller = s] : s \in Sellers}
              service == {[honest EXCEPT !.service = s] : s \in Services}
              duplicate == {[honest EXCEPT !.trade = trades[j].trade] :
                              j \in {x \in PurchaseKeys : arena[x] = "settled"}}
  <1>4. TradesFor(k) = {honest} \cup Faulty("failed", failed) \cup Faulty("price", price)
          \cup Faulty("seller", seller) \cup Faulty("service", service)
          \cup Faulty("duplicate", duplicate)
    BY DEF TradesFor
  <1>. HIDE DEF honest
  <1>5. /\ failed \subseteq TradeReceipt /\ price \subseteq TradeReceipt
        /\ seller \subseteq TradeReceipt /\ service \subseteq TradeReceipt
        /\ duplicate \subseteq TradeReceipt
    BY <1>2, <1>3 DEF TradeReceipt
  <1>. HIDE DEF failed, price, seller, service, duplicate
  <1>. QED BY <1>2, <1>4, <1>5

\* The platform acts on purchases that were sent, once each.
LEMMA ArenaStepSafe == ASSUME InductiveInvariant, ArenaStep PROVE InductiveInvariant'
  <1>1. PICK k \in PurchaseKeys : ArenaSettles(k) \/ ArenaRefuses(k) \/ ArenaLoses(k)
    BY DEF ArenaStep
  <1>2. trades \in [PurchaseKeys -> TradeReceipt \cup {NoReceipt}]
    BY DEF InductiveInvariant, TypeOK, ArenaTypeOK
  <1>3. CASE ArenaSettles(k)
    <2>1. ArenaAnswers(k, "settled") /\ arena[k] = "in_flight"
      BY <1>3 DEF ArenaSettles, ArenaAnswers
    <2>2. PICK t \in TradesFor(k) : trades' = [trades EXCEPT ![k] = t]
      BY <1>3 DEF ArenaSettles
    <2>3. t \in TradeReceipt /\ t # NoReceipt
      BY <2>1, <2>2, TradesForTyped, ConstantsAssumption
    <2>4. /\ trades' \in [PurchaseKeys -> TradeReceipt \cup {NoReceipt}]
          /\ \A x \in PurchaseKeys : x # k => trades'[x] = trades[x]
          /\ trades'[k] # NoReceipt
      BY <1>2, <2>2, <2>3
    <2>. QED BY <2>1, <2>4, ArenaAnswersSafe
  <1>4. CASE ArenaRefuses(k) \/ ArenaLoses(k)
    <2>1. PICK what \in {"refused", "lost"} : ArenaAnswers(k, what)
      BY <1>4 DEF ArenaRefuses, ArenaLoses
    <2>2. trades' = trades
      BY <1>4 DEF ArenaRefuses, ArenaLoses
    <2>3. trades[k] = NoReceipt
      BY <2>1 DEF ArenaAnswers, InductiveInvariant, RemoteSound
    <2>. QED BY <1>2, <2>1, <2>2, <2>3, ArenaAnswersSafe
  <1>. QED BY <1>1, <1>3, <1>4

\* A saved checkpoint is a state the run was in.
LEMMA SaveSafe == ASSUME InductiveInvariant, SaveCheckpoint PROVE InductiveInvariant'
  <1>1. /\ unsaved \in Seq(GraphState) /\ unsaved # <<>>
        /\ saved' = Head(unsaved) /\ unsaved' = Tail(unsaved)
        /\ UNCHANGED <<clientVars, journal, arenaVars, published, countVars>>
    BY RunningSound DEF SaveCheckpoint, ClientTypeOK
  <1>2. ClientTypeOK'
    BY <1>1, RunningSound DEF ClientTypeOK, clientVars
  <1>3. Snapshots' \subseteq Snapshots
    <2>1. saved' = unsaved[1] /\ 1 \in 1 .. Len(unsaved)
      BY <1>1
    <2>2. \A i \in 1 .. Len(unsaved') :
            unsaved'[i] = unsaved[i + 1] /\ i + 1 \in 1 .. Len(unsaved)
      BY <1>1
    <2>. QED BY <1>1, <2>1, <2>2 DEF Snapshots, clientVars
  <1>4. SnapshotsSound'
    BY <1>1, <1>3, NoCommitSound, StillGrows
      DEF InductiveInvariant, TypeOK, SnapshotsSound, arenaVars
  <1>5. local'.buying => st'.next = "execute_purchase"
    BY <1>1 DEF InductiveInvariant, clientVars
  <1>. QED BY <1>1, <1>2, <1>4, <1>5, RemoteStill, AsideStill
         DEF InductiveInvariant, TypeOK, SnapshotsSound

\* What run_round makes of the channels: START, a mode, and possibly another progress.
LEMMA StartedFields ==
  ASSUME NEW x \in GraphState, NEW s \in Started(x)
  PROVE  /\ s \in GraphState
         /\ s.next = "prepare" /\ s.found = x.found /\ s.plan = x.plan
         /\ s.index = x.index /\ s.violations = x.violations
         /\ \/ /\ s.critiqued = x.critiqued /\ s.receipts = x.receipts
               /\ s.spent = x.spent /\ s.purchased = x.purchased
            \/ \E p \in Carried :
                 /\ s.critiqued = p.critiqued /\ s.receipts = p.receipts
                 /\ s.spent = p.spent /\ s.purchased = p.purchased
                 /\ WithProgress(s, p) = s
  <1>. DEFINE Xs == {x} \cup {WithProgress(x, p) : p \in Carried}
  <1>0. PICK y \in Xs : s \in AtStart(y)
    BY DEF Started
  <1>1. PICK m \in Modes : s = [y EXCEPT !.next = "prepare", !.mode = m]
    BY <1>0 DEF AtStart
  <1>2. m \in RunModes /\ "prepare" \in Nodes
    BY ConstantsAssumption DEF Nodes
  <1>3. CASE y = x
    BY <1>1, <1>2, <1>3 DEF GraphState
  <1>4. CASE \E p \in Carried : y = WithProgress(x, p)
    <2>1. PICK p \in Carried : y = WithProgress(x, p)
      BY <1>4
    <2>2. p \in ArenaProgress
      BY CarriedAssumption
    <2>3. /\ p.tried \in SUBSET Sellers /\ p.critiqued \in SUBSET Sellers
          /\ p.ranked \in BOOLEAN
          /\ p.receipts \in SUBSET (TradeReceipt \cup EarlierReceipt)
          /\ p.spent \in Nat /\ p.purchased \in SUBSET Sellers
      BY <2>2 DEF ArenaProgress
    <2>4. y \in GraphState
      BY <2>1, <2>3 DEF WithProgress, GraphState
    <2>5. /\ y.found = x.found /\ y.plan = x.plan
          /\ y.index = x.index /\ y.violations = x.violations
          /\ y.tried = p.tried /\ y.ranked = p.ranked
          /\ y.critiqued = p.critiqued /\ y.receipts = p.receipts
          /\ y.spent = p.spent /\ y.purchased = p.purchased
      BY <2>1 DEF WithProgress, GraphState
    <2>6. s \in GraphState
      BY <1>1, <1>2, <2>4 DEF GraphState
    <2>7. /\ s.next = "prepare" /\ s.found = y.found /\ s.plan = y.plan
          /\ s.index = y.index /\ s.violations = y.violations
          /\ s.tried = y.tried /\ s.ranked = y.ranked
          /\ s.critiqued = y.critiqued /\ s.receipts = y.receipts
          /\ s.spent = y.spent /\ s.purchased = y.purchased
      BY <1>1, <2>4 DEF GraphState
    <2>8. WithProgress(s, p) = s
      BY <2>5, <2>6, <2>7 DEF WithProgress, GraphState
    <2>. QED BY <2>5, <2>6, <2>7, <2>8
  <1>. QED BY <1>0, <1>3, <1>4

\* Starting over relies on nothing the state it starts from does not.
LEMMA StartedSound ==
  ASSUME NEW x \in GraphState, Sound(x, journal, trades), NEW s \in Started(x)
  PROVE  s \in GraphState /\ Sound(s, journal, trades)
  <1>1. s.receipts \subseteq x.receipts \cup CarriedReceipts
    BY StartedFields DEF CarriedReceipts
  <1>2. s.next \notin BuyingNodes /\ s.next \notin {"audit", "complete"}
    BY StartedFields DEF BuyingNodes, CycleNodes
  <1>. HIDE DEF GraphState
  <1>. QED BY <1>1, <1>2, StartedFields, Harmless

\* A restart from the checkpoint on disk.
LEMMA RestartSafe ==
  ASSUME InductiveInvariant, UNCHANGED <<saved, journal, arenaVars>>,
         local' = IdleNode, alive' \in BOOLEAN, PublishedTypeOK', CountsTypeOK',
         NEW s \in {saved} \cup Started(saved), st' = s,
         unsaved' \in {<<>>, <<s>>}
  PROVE  InductiveInvariant'
  <1>1. saved \in GraphState /\ Sound(saved, journal, trades)
    BY DEF InductiveInvariant, TypeOK, ClientTypeOK, Snapshots
  <1>2. s \in GraphState /\ Sound(s, journal, trades)
    BY <1>1, StartedSound
  <1>4. \A x \in Snapshots' : x = s \/ x = saved
    BY DEF Snapshots
  <1>5. SnapshotsSound'
    BY <1>1, <1>2, <1>4 DEF SnapshotsSound, arenaVars
  <1>6. unsaved' \in Seq(GraphState)
    <2>. HIDE DEF GraphState
    <2>1. <<>> \in Seq(GraphState)
      OBVIOUS
    <2>2. <<s>> \in Seq(GraphState)
      BY <1>2
    <2>. QED BY <2>1, <2>2
  <1>7. ClientTypeOK'
    BY <1>1, <1>2, <1>6, IdleTyped DEF ClientTypeOK, LocalType
  <1>8. ~local'.buying
    BY DEF IdleNode
  <1>. QED BY <1>5, <1>7, <1>8, RemoteStill DEF InductiveInvariant, TypeOK, SnapshotsSound

\* A crash loses the state in memory and no file.
LEMMA StopSafe == ASSUME InductiveInvariant, Stop PROVE InductiveInvariant'
  <1>1. PublishedTypeOK' /\ CountsTypeOK'
    BY ConstantsAssumption
      DEF Stop, InductiveInvariant, TypeOK, PublishedTypeOK, CountsTypeOK
  <1>. QED BY <1>1, RestartSafe DEF Stop

\* A resumed run starts from a checkpoint, with the journal as it is.
LEMMA ResumeSafe == ASSUME InductiveInvariant, Resume PROVE InductiveInvariant'
  <1>1. /\ UNCHANGED <<saved, journal, arenaVars>> /\ local' = IdleNode
        /\ alive' = TRUE /\ st' = saved /\ unsaved' = <<>>
    BY DEF Resume, durableVars
  <1>2. PublishedTypeOK' /\ CountsTypeOK'
    BY AsideStill DEF Resume
  <1>. QED BY <1>1, <1>2, RestartSafe

\* A new run_round starts over on the journal and the Arena as they are.
LEMMA RunRoundAgainSafe ==
  ASSUME InductiveInvariant, RunRoundAgain PROVE InductiveInvariant'
  <1>1. PublishedTypeOK' /\ CountsTypeOK'
    BY ConstantsAssumption
      DEF RunRoundAgain, InductiveInvariant, TypeOK, PublishedTypeOK, CountsTypeOK
  <1>. QED BY <1>1, RestartSafe DEF RunRoundAgain

-----------------------------------------------------------------------------
(* The invariant.                                                            *)

\* The invariant holds before anything happened.
LEMMA InitSafe == Init => InductiveInvariant
  <1>. SUFFICES ASSUME Init PROVE InductiveInvariant
    OBVIOUS
  <1>0. st \in Started(FreshState) /\ saved = st /\ unsaved = <<>>
    BY DEF Init
  <1>1. ClientTypeOK
    BY <1>0, FreshTyped, StartedFields, IdleTyped DEF Init, ClientTypeOK, LocalType
  <1>2. Journal!TypeOK
    BY DEF Init, Journal!Init, Journal!TypeOK, Journal!Absent,
      Journal!OutboundOperation, Journal!OperationStatus
  <1>3. ArenaTypeOK /\ PublishedTypeOK
    BY DEF Init, ArenaTypeOK, PublishedTypeOK
  <1>4. CountsTypeOK
    BY ConstantsAssumption DEF Init, CountsTypeOK
  <1>5. RemoteSound
    BY DEF Init, Journal!Init, Journal!Absent, RemoteSound
  <1>6. Snapshots = {st}
    BY <1>0 DEF Snapshots
  <1>7. Sound(st, journal, trades)
    <2>1. Sound(FreshState, journal, trades)
      BY DEF FreshState, Sound, BuyingNodes, CycleNodes
    <2>. QED BY <1>0, <2>1, FreshTyped, StartedSound
  <1>. QED BY <1>1, <1>2, <1>3, <1>4, <1>5, <1>6, <1>7
         DEF InductiveInvariant, TypeOK, Init, IdleNode

\* Every step of the client, the platform and the process keeps the invariant.
LEMMA NextSafe == InductiveInvariant /\ [Next]_vars => InductiveInvariant'
  <1>. SUFFICES ASSUME InductiveInvariant, [Next]_vars PROVE InductiveInvariant'
    OBVIOUS
  <1>1. CASE Prepare \/ Discover \/ DiscoverRaises \/ PlanMarket \/ Audit
    BY <1>1, PrepareSafe, DiscoverSafe, DiscoverRaisesSafe, PlanMarketSafe, AuditSafe
  <1>2. CASE CritiqueStep
    BY <1>2, EvaluateSafe, PostCritiqueSafe, FeedbackDoneSafe, RankSafe DEF CritiqueStep
  <1>3. CASE PurchaseStep
    BY <1>3, PreparePurchaseSafe, PreparePurchaseRaisesSafe, ExecuteSafe,
      AlreadySubmittedSafe, BuyReturnsReceiptSafe, BuyFailsSafe, ReconcileSafe,
      ReconcileUnavailableSafe, RecordSafe DEF PurchaseStep
  <1>4. CASE SaveCheckpoint \/ ArenaStep \/ Stop \/ Resume \/ RunRoundAgain
    BY <1>4, SaveSafe, ArenaStepSafe, StopSafe, ResumeSafe, RunRoundAgainSafe
  <1>5. CASE UNCHANGED vars
    <2>1. /\ UNCHANGED <<st, saved, unsaved, local, alive, durableVars, journal, arenaVars>>
          /\ UNCHANGED <<published, countVars>>
      BY <1>5 DEF vars, clientVars, durableVars, arenaVars, countVars
    <2>2. ClientTypeOK'
      BY <2>1, RunningSound DEF ClientTypeOK
    <2>3. local'.buying => st.next = "execute_purchase"
      BY <2>1 DEF InductiveInvariant
    <2>. QED BY <2>1, <2>2, <2>3, LocalStep, AsideStill
  <1>. QED BY <1>1, <1>2, <1>3, <1>4, <1>5 DEF Next, GraphStep, Terminated

\* The invariant that carries every theorem below.
THEOREM Invariance == Spec => []InductiveInvariant
  BY InitSafe, NextSafe, PTL DEF Spec
=============================================================================
