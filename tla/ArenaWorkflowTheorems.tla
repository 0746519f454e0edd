----------------------- MODULE ArenaWorkflowTheorems -----------------------
(***************************************************************************)
(* What holds of every Arena run, whatever the listings, the plan, the     *)
(* faults of the Arena, the lag of the checkpoints and the number of       *)
(* crashes and restarts.                                                   *)
(***************************************************************************)
EXTENDS ArenaWorkflowProofs, FiniteSetTheorems

-----------------------------------------------------------------------------
(* Invariants that follow from InductiveInvariant.                           *)

\* Every variable of the workflow always holds a value of its type.
THEOREM TypeCorrect == Spec => []TypeOK
  <1>1. InductiveInvariant => TypeOK
    BY DEF InductiveInvariant
  <1>. QED BY <1>1, Invariance, PTL

\* buy is called at most once per idempotency key, through any number of
\* crashes, resumes and repeated rounds, with any listings and any fault.
THEOREM SentAtMostOnce == Spec => []AtMostOneSend
  <1>1. InductiveInvariant => AtMostOneSend
    BY DEF InductiveInvariant, RemoteSound, AtMostOneSend
  <1>. QED BY <1>1, Invariance, PTL

\* A node of the purchase cycle always finds its purchase in the journal, under
\* its own key and with its own intent.
THEOREM PendingAlwaysJournalled == Spec => []PendingIsJournalled
  <1>1. InductiveInvariant => PendingIsJournalled
    BY DEF InductiveInvariant, Sound, PendingIsJournalled, CycleNodes
  <1>. QED BY <1>1, Invariance, PTL

\* No state, in memory or on disk, has moved past a purchase without a verdict.
THEOREM AdvanceNeedsVerdict == Spec => []VerdictBeforeAdvance
  <1>1. InductiveInvariant => VerdictBeforeAdvance
    BY DEF InductiveInvariant, Sound, VerdictBeforeAdvance
  <1>. QED BY <1>1, Invariance, PTL

\* Every receipt that progress counts, other than those carried in from earlier runs,
\* is a paid trade of the Arena for what the journal had committed to.
THEOREM RecordedAlwaysPaid == Spec => []RecordedIsPaid
  <1>1. ASSUME InductiveInvariant PROVE RecordedIsPaid
    <2>. SUFFICES ASSUME NEW s \in Snapshots, NEW r \in s.receipts \ CarriedReceipts
                  PROVE  \E k \in PurchaseKeys :
                           /\ Paid(k) /\ trades[k] = r
                           /\ journal[k].intent = [service |-> r.service,
                                seller |-> r.seller, price |-> r.amount]
      BY DEF RecordedIsPaid
    <2>1. Backed(r, journal, trades)
      BY <1>1 DEF InductiveInvariant, Sound
    <2>2. PICK k \in PurchaseKeys :
            /\ trades[k] = r
            /\ journal[k].intent = [service |-> r.service, seller |-> r.seller,
                                    price |-> r.amount]
      BY <2>1 DEF Backed
    <2>3. r \in TradeReceipt \cup EarlierReceipt
      BY <1>1, RunningSound, SnapshotsTyped DEF GraphState
    <2>4. arena[k] = "settled"
      BY <1>1, <2>2, <2>3, ConstantsAssumption DEF InductiveInvariant, RemoteSound
    <2>5. r.status = "paid"
      BY <2>1 DEF Backed
    <2>. QED BY <2>2, <2>4, <2>5 DEF Paid
  <1>2. InductiveInvariant => RecordedIsPaid
    BY <1>1
  <1>. QED BY <1>2, Invariance, PTL

\* A report without violations means that every planned purchase is SETTLED,
\* that its receipt is counted, and that both floors are met.
THEOREM ValidReportMeansSettled == Spec => []ValidReportSettlesPlan
  <1>1. ASSUME InductiveInvariant, st.next = "complete", st.report = "valid",
               st.mode # "critique"
        PROVE  /\ \A i \in 0 .. Len(st.plan) - 1 :
                    /\ journal[Key(st, i)].status = "settled"
                    /\ journal[Key(st, i)].receipt \in st.receipts
               /\ st.spent >= MinimumSpend
               /\ Cardinality(st.purchased) >= MinimumProducts
    <2>1. Sound(st, journal, trades) /\ st.index \in Nat /\ Len(st.plan) \in Nat
      BY <1>1, RunningSound DEF GraphState, Plan
    <2>2. st.violations = {} /\ st.index >= Len(st.plan)
      BY <1>1, <2>1 DEF Sound
    <2>3. \A i \in 0 .. Len(st.plan) - 1 : i \in 0 .. st.index - 1 /\ i < Len(st.plan)
      BY <2>1, <2>2
    <2>4. st.next \in BuyingNodes \cup {"audit", "complete"}
      BY <1>1
    <2>. QED BY <1>1, <2>1, <2>2, <2>3, <2>4 DEF Sound
  <1>2. InductiveInvariant => ValidReportSettlesPlan
    BY <1>1 DEF ValidReportSettlesPlan
  <1>. QED BY <1>2, Invariance, PTL

-----------------------------------------------------------------------------
(* Verdicts are final.                                                       *)

\* The step keeps the verdict of k and does not make k sendable again.
EntryKept(k) ==
  /\ journal[k].status = "settled" =>
       journal'[k].status = "settled" /\ journal'[k].receipt = journal[k].receipt
  /\ journal[k].status \notin {"absent", "prepared"} =>
       journal'[k].status \notin {"absent", "prepared"}

\* A verdict that settles only what the Arena settled keeps every entry.
LEMMA ConcludeKeeps ==
  ASSUME InductiveInvariant, InductiveInvariant', st.next \in CycleNodes,
         NEW status \in Journal!VerdictStatuses, NEW receipt,
         Journal!Transition(st.pending, status, receipt), UNCHANGED trades,
         NEW k \in PurchaseKeys
  PROVE  EntryKept(k)
  <1>1. /\ journal \in [PurchaseKeys -> Journal!OutboundOperation]
        /\ st.pending \in PurchaseKeys
    BY PendingTyped DEF InductiveInvariant, TypeOK, Journal!TypeOK
  <1>2. journal' = [journal EXCEPT ![st.pending] =
                      Journal!Updated(@, status, receipt)]
    BY DEF Journal!Transition
  <1>3. CASE k # st.pending
    BY <1>1, <1>2, <1>3 DEF EntryKept
  <1>4. CASE k = st.pending
    <2>1. journal'[k] = Journal!Updated(journal[k], status, receipt)
      BY <1>1, <1>2, <1>4
    <2>2. /\ journal'[k].status \notin {"absent", "prepared"}
          /\ journal[k].status = "settled" => journal'[k].status = "settled"
      BY <1>1, <1>4, <2>1
        DEF Journal!Updated, Journal!OutboundOperation, Journal!VerdictStatuses
    <2>3. journal[k].status = "settled" => journal'[k].receipt = journal[k].receipt
      BY <2>2 DEF InductiveInvariant, RemoteSound
    <2>. QED BY <2>2, <2>3 DEF EntryKept
  <1>. QED BY <1>3, <1>4

\* No step takes back a SETTLED verdict or its receipt, and no step makes a
\* purchase that was sent sendable again.
THEOREM SettledStaysSettled == Spec => SettledIsFinal
  <1>1. ASSUME InductiveInvariant, InductiveInvariant', [Next]_vars,
               NEW k \in PurchaseKeys
        PROVE  EntryKept(k)
    <2>1. CASE UNCHANGED journal
      BY <2>1 DEF EntryKept
    <2>2. CASE PreparePurchase
      <3>1. \/ UNCHANGED journal
            \/ \E x, intent : Journal!Prepare(x, intent)
        BY <2>2 DEF PreparePurchase
      <3>2. journal \in [PurchaseKeys -> Journal!OutboundOperation]
        BY <1>1 DEF InductiveInvariant, TypeOK, Journal!TypeOK
      <3>. QED BY <3>1, <3>2 DEF EntryKept, Journal!Prepare, Journal!Created
    <2>3. CASE ExecutePurchase
      <3>1. /\ journal[st.pending].status = "prepared"
            /\ journal' = [journal EXCEPT ![st.pending] =
                             Journal!Updated(@, "submitted", NoReceipt)]
        BY <2>3 DEF ExecutePurchase, Journal!Transition
      <3>2. journal \in [PurchaseKeys -> Journal!OutboundOperation]
        BY <1>1 DEF InductiveInvariant, TypeOK, Journal!TypeOK
      <3>. QED BY <3>1, <3>2 DEF EntryKept
    <2>4. ASSUME NEW status \in Journal!VerdictStatuses, NEW receipt, NEW next,
                 st.next \in CycleNodes, Conclude(<<status, receipt>>, next)
          PROVE  EntryKept(k)
      <3>1. Journal!Transition(st.pending, status, receipt) /\ UNCHANGED trades
        BY <2>4 DEF Conclude, arenaVars
      <3>. QED BY <1>1, <2>4, <3>1, ConcludeKeeps
    <2>5. CASE BuyReturnsReceipt \/ BuyRefused \/ BuyTransportFails
      <3>1. st.next \in CycleNodes
        BY <1>1, <2>5, BuyingTyped DEF BuyReturnsReceipt, BuyRefused, BuyTransportFails
      <3>2. \E status \in Journal!VerdictStatuses : \E receipt, next :
              Conclude(<<status, receipt>>, next)
        BY <2>5 DEF BuyReturnsReceipt, BuyRefused, BuyTransportFails, ReceiptVerdict,
          Journal!VerdictStatuses
      <3>. QED BY <2>4, <3>1, <3>2
    <2>6. CASE ReconcilePurchase \/ ReconcileUnavailable
      <3>1. st.next \in CycleNodes
        BY <2>6 DEF ReconcilePurchase, ReconcileUnavailable, Runs, CycleNodes
      <3>2. \E status \in Journal!VerdictStatuses : \E receipt, next :
              Conclude(<<status, receipt>>, next)
        BY <2>6 DEF ReconcilePurchase, ReconcileUnavailable, EvidenceVerdict,
          ReceiptVerdict, Journal!VerdictStatuses
      <3>. QED BY <2>4, <3>1, <3>2
    <2>. QED BY <1>1, <2>1, <2>2, <2>3, <2>5, <2>6
           DEF Next, GraphStep, CritiqueStep, PurchaseStep, ArenaStep, ArenaSettles,
             ArenaRefuses, ArenaLoses, ArenaAnswers, Prepare, Discover, DiscoverRaises,
             PlanMarket, EvaluateServices, PostCritique, FeedbackDone, Rank, Audit,
             PreparePurchaseRaises, ExecuteAlreadySubmitted, RecordPurchase,
             SaveCheckpoint, Stop, Resume, RunRoundAgain, Terminated, vars
  <1>2. InductiveInvariant /\ InductiveInvariant' /\ [Next]_vars =>
          [\A k \in PurchaseKeys :
             /\ journal[k].status = "settled" =>
                  journal'[k].status = "settled" /\ journal'[k].receipt = journal[k].receipt
             /\ journal[k].status \notin {"absent", "prepared"} =>
                  journal'[k].status \notin {"absent", "prepared"}]_vars
    BY <1>1 DEF EntryKept
  <1>. QED BY <1>2, Invariance, PTL DEF Spec, SettledIsFinal

-----------------------------------------------------------------------------
(* What a step writes and what it leaves alone.                              *)

\* A node of the graph commits the state it computes, or none.
LEMMA NodeCommits ==
  ASSUME InductiveInvariant, GraphStep
  PROVE  Commit(st') \/ UNCHANGED <<st, durableVars>>
  <1>1. CASE Prepare \/ Discover \/ PlanMarket \/ EvaluateServices \/ FeedbackDone
             \/ Rank \/ Audit
    BY <1>1 DEF Prepare, Discover, PlanMarket, EvaluateServices, FeedbackDone, Rank,
      Audit, Commit
  <1>2. CASE PreparePurchase \/ ExecuteAlreadySubmitted \/ RecordPurchase
    BY <1>2 DEF PreparePurchase, ExecuteAlreadySubmitted, RecordPurchase, Commit
  <1>3. CASE BuyReturnsReceipt \/ BuyRefused \/ BuyTransportFails
             \/ ReconcilePurchase \/ ReconcileUnavailable
    BY <1>3 DEF BuyReturnsReceipt, BuyRefused, BuyTransportFails, ReconcilePurchase,
      ReconcileUnavailable, Conclude, Commit
  <1>4. CASE DiscoverRaises \/ PostCritique \/ PreparePurchaseRaises \/ ExecutePurchase
    BY <1>4 DEF DiscoverRaises, PostCritique, PreparePurchaseRaises, ExecutePurchase
  <1>. QED BY <1>1, <1>2, <1>3, <1>4 DEF GraphStep, CritiqueStep, PurchaseStep

\* Each field of the graph's state is written by the nodes it belongs to.
LEMMA FieldsKept ==
  ASSUME InductiveInvariant, GraphStep
  PROVE  /\ ~RecordPurchase => /\ st'.receipts = st.receipts /\ st'.spent = st.spent
                               /\ st'.purchased = st.purchased
         /\ ~FeedbackDone => st'.critiqued = st.critiqued
         /\ ~EvaluateServices => st'.tried = st.tried
         /\ ~Rank => st'.ranked = st.ranked
         /\ ~PlanMarket => st'.plan = st.plan
         /\ ~Discover => st'.found = st.found
         /\ st'.mode = st.mode
         /\ ~Audit => UNCHANGED st \/ (st'.report = st.report /\ st'.next # "complete")
         /\ st.violations \subseteq st'.violations
         /\ ~(FeedbackDone \/ Rank) =>
              \A v \in st'.violations :
                v \in st.violations \/ v[1] \notin {"feedback", "ranking"}
  <1>1. st \in GraphState
    BY RunningSound
  <1>2. CASE Prepare
    BY <1>1, <1>2 DEF Prepare, Commit, GraphState
  <1>3. CASE Discover
    <2>1. PICK d \in Discoveries :
            LET short == st.mode # "market" /\ d.targets = <<>> IN
            st' = [st EXCEPT
              !.found = [d EXCEPT !.targets = IF st.mode = "market" THEN <<>> ELSE @],
              !.violations = IF short THEN @ \cup {<<"targets", NoSubject>>} ELSE @,
              !.next = CASE st.mode = "market" -> "plan_market"
                         [] short -> "audit"
                         [] OTHER -> "evaluate_services"]
      BY <1>3 DEF Discover, Commit
    <2>2. /\ st'.receipts = st.receipts /\ st'.spent = st.spent
          /\ st'.purchased = st.purchased /\ st'.critiqued = st.critiqued
          /\ st'.tried = st.tried /\ st'.ranked = st.ranked /\ st'.plan = st.plan
          /\ st'.report = st.report /\ st'.mode = st.mode
      BY <1>1, <2>1 DEF GraphState
    <2>3. st'.next # "complete"
      BY <1>1, <2>1 DEF GraphState
    <2>4. st'.violations \in {st.violations, st.violations \cup {<<"targets", NoSubject>>}}
      BY <1>1, <2>1 DEF GraphState
    <2>. QED BY <1>3, <2>2, <2>3, <2>4
  <1>4. CASE PlanMarket
    BY <1>1, <1>4 DEF PlanMarket, Commit, GraphState
  <1>5. CASE EvaluateServices
    BY <1>1, <1>5 DEF EvaluateServices, Commit, GraphState
  <1>6. CASE FeedbackDone
    BY <1>1, <1>6 DEF FeedbackDone, Commit, GraphState
  <1>7. CASE Rank
    <2>1. PICK outcome \in Outcomes :
            \/ UNCHANGED st
            \/ st' = [st EXCEPT
                  !.ranked = IF outcome = "ok" THEN st.found.targets # <<>> ELSE @,
                  !.violations = IF outcome = "ok" THEN @
                                 ELSE @ \cup {<<"ranking", NoSubject>>},
                  !.next = IF st.mode = "critique" THEN "audit" ELSE "plan_market"]
      BY <1>7 DEF Rank, Commit
    <2>2. /\ st'.receipts = st.receipts /\ st'.spent = st.spent
          /\ st'.purchased = st.purchased /\ st'.critiqued = st.critiqued
          /\ st'.tried = st.tried /\ st'.plan = st.plan /\ st'.found = st.found
          /\ st'.report = st.report /\ st'.mode = st.mode
      BY <1>1, <2>1 DEF GraphState
    <2>3. UNCHANGED st \/ st'.next # "complete"
      BY <1>1, <2>1 DEF GraphState
    <2>4. st'.violations \in {st.violations, st.violations \cup {<<"ranking", NoSubject>>}}
      BY <1>1, <2>1 DEF GraphState
    <2>. QED BY <1>7, <2>2, <2>3, <2>4
  <1>8. CASE Audit
    BY <1>1, <1>8 DEF Audit, Commit, GraphState
  <1>9. CASE PreparePurchase
    BY <1>1, <1>9 DEF PreparePurchase, Commit, GraphState, AfterPreparation
  <1>10. CASE ExecuteAlreadySubmitted
    BY <1>1, <1>10 DEF ExecuteAlreadySubmitted, Commit, GraphState
  <1>11. CASE BuyReturnsReceipt \/ BuyRefused \/ BuyTransportFails
             \/ ReconcilePurchase \/ ReconcileUnavailable
    BY <1>1, <1>11 DEF BuyReturnsReceipt, BuyRefused, BuyTransportFails,
      ReconcilePurchase, ReconcileUnavailable, Conclude, Commit, GraphState
  <1>12. CASE RecordPurchase
    BY <1>1, <1>12 DEF RecordPurchase, Recorded, ViolationOf, Commit, GraphState
  <1>13. CASE DiscoverRaises \/ PostCritique \/ PreparePurchaseRaises \/ ExecutePurchase
    BY <1>13 DEF DiscoverRaises, PostCritique, PreparePurchaseRaises, ExecutePurchase
  <1>. QED BY <1>2, <1>3, <1>4, <1>5, <1>6, <1>7, <1>8, <1>9, <1>10, <1>11, <1>12, <1>13
         DEF GraphStep, CritiqueStep, PurchaseStep

\* The states a run may go on from after a step: those before it, and the one the
\* process then holds.
LEMMA SnapshotsMove ==
  ASSUME InductiveInvariant, [Next]_vars, NEW x \in Snapshots'
  PROVE  x \in Snapshots \/ x = st'
  <1>1. CASE UNCHANGED <<st, durableVars>>
    BY <1>1 DEF Snapshots, durableVars
  <1>2. CASE GraphStep
    <2>1. CASE Commit(st')
      BY <2>1, RunningSound, CommitSnapshots
    <2>. QED BY <1>1, <1>2, <2>1, NodeCommits
  <1>3. CASE SaveCheckpoint
    <2>1. /\ unsaved \in Seq(GraphState) /\ unsaved # <<>>
          /\ saved' = Head(unsaved) /\ unsaved' = Tail(unsaved) /\ st' = st
      BY <1>3, RunningSound DEF SaveCheckpoint, ClientTypeOK, clientVars
    <2>2. saved' = unsaved[1] /\ 1 \in 1 .. Len(unsaved)
      BY <2>1
    <2>3. \A i \in 1 .. Len(unsaved') :
            unsaved'[i] = unsaved[i + 1] /\ i + 1 \in 1 .. Len(unsaved)
      BY <2>1
    <2>. QED BY <2>1, <2>2, <2>3 DEF Snapshots
  <1>4. CASE Stop \/ Resume \/ RunRoundAgain
    BY <1>4 DEF Stop, Resume, RunRoundAgain, Snapshots, durableVars
  <1>. QED BY <1>1, <1>2, <1>3, <1>4
         DEF Next, ArenaStep, ArenaSettles, ArenaRefuses, ArenaLoses, ArenaAnswers,
           Terminated, vars, clientVars

\* A step that is no node's leaves what the nodes write alone; the process goes on
\* from where it is, or from the checkpoint, or from START with that checkpoint.
LEMMA OtherSteps ==
  ASSUME [Next]_vars, ~GraphStep
  PROVE  /\ UNCHANGED <<journal, published, losses, sends>>
         /\ \/ UNCHANGED <<st, local>>
            \/ local' = IdleNode /\ st' = saved
            \/ local' = IdleNode /\ st' \in Started(saved)
  BY DEF Next, ArenaStep, ArenaSettles, ArenaRefuses, ArenaLoses, ArenaAnswers,
    Terminated, vars, clientVars, arenaVars, countVars, SaveCheckpoint, Stop, Resume,
    RunRoundAgain

\* What RecordPurchase makes of a state: at most one receipt more.
LEMMA RecordCounts ==
  ASSUME InductiveInvariant, RecordPurchase
  PROVE  \/ /\ st'.receipts = st.receipts /\ st'.spent = st.spent
            /\ st'.purchased = st.purchased
         \/ \E r \in TradeReceipt :
              /\ \A q \in st.receipts : q.trade # r.trade
              /\ st'.receipts = st.receipts \cup {r}
              /\ st'.spent = st.spent + r.amount
              /\ st'.purchased = st.purchased \cup {r.seller}
  <1>. DEFINE op == journal[st.pending]
              y == Recorded(op, Intent(st, st.index))
  <1>1. st \in GraphState /\ st.pending \in PurchaseKeys
    BY RunningSound, PendingTyped DEF RecordPurchase, Runs, CycleNodes
  <1>2. /\ st'.receipts = y.receipts /\ st'.spent = y.spent
        /\ st'.purchased = y.purchased
    BY <1>1 DEF RecordPurchase, Commit, Recorded, GraphState
  <1>3. CASE op.status # "settled" \/ op.receipt.trade \in {r.trade : r \in st.receipts}
    BY <1>1, <1>2, <1>3 DEF Recorded, GraphState
  <1>4. CASE op.status = "settled" /\ op.receipt.trade \notin {r.trade : r \in st.receipts}
    <2>1. op.receipt \in TradeReceipt
      BY <1>1, <1>4, SettledTyped
    <2>2. /\ y.receipts = st.receipts \cup {op.receipt}
          /\ y.spent = st.spent + op.receipt.amount
          /\ y.purchased = st.purchased \cup {op.receipt.seller}
      BY <1>1, <1>4 DEF Recorded, GraphState
    <2>. QED BY <1>2, <1>4, <2>1, <2>2
  <1>. QED BY <1>3, <1>4

-----------------------------------------------------------------------------
(* Credits is a sum.  The fold it is defined by is recursive over the subsets *)
(* of a set; each fact about it is proved from a smallest subset that would   *)
(* contradict it.                                                             *)

\* Of the subsets of a finite set that have a property, one has no part with it.
LEMMA SmallestSubset ==
  ASSUME NEW S, IsFiniteSet(S), NEW T, T \subseteq SUBSET S, T # {}
  PROVE  \E s \in T : IsFiniteSet(s) /\ \A t \in SUBSET s : t # s => t \notin T
  <1>. DEFINE R == StrictSubsetOrdering(S)
  <1>1. IsWellFoundedOn(R, SUBSET S)
    BY FS_StrictSubsetOrderingWellFounded, FS_FiniteSubsetsOfFinite
  <1>. HIDE DEF R
  <1>2. PICK s \in T : \A t \in T : <<t, s>> \notin R
    BY <1>1, WFMin
  <1>3. ASSUME NEW t \in SUBSET s, t # s, t \in T PROVE FALSE
    BY <1>2, <1>3 DEF R, StrictSubsetOrdering
  <1>. QED BY <1>2, <1>3, FS_Subset

\* The element the fold takes next, its value of a set given those of the parts,
\* and a function that gives every part of S its value.
Taken(s) == CHOOSE r \in s : TRUE
SumOf(g, s) == IF s = {} THEN 0 ELSE Taken(s).amount + g[s \ {Taken(s)}]
IsSum(g, S) == g = [s \in SUBSET S |-> SumOf(g, s)]

\* Credits is defined by such a function.
LEMMA CreditsDef == ASSUME NEW S PROVE Credits(S) = (CHOOSE g : IsSum(g, S))[S]
  BY DEF Credits, MapThenSumSet, MapThenFoldSet, IsSum, SumOf, Taken

\* The element taken is one of the set.
LEMMA TakenIn == ASSUME NEW s, s # {} PROVE Taken(s) \in s
  BY DEF Taken

\* There is at most one such function.
LEMMA SumUnique ==
  ASSUME NEW S, IsFiniteSet(S), NEW g, IsSum(g, S), NEW h, IsSum(h, S)
  PROVE  g = h
  <1>. DEFINE T == {s \in SUBSET S : g[s] # h[s]}
  <1>1. T = {}
    <2>. SUFFICES ASSUME T # {} PROVE FALSE
      OBVIOUS
    <2>. T \subseteq SUBSET S
      OBVIOUS
    <2>. HIDE DEF T
    <2>1. PICK s \in T : \A t \in SUBSET s : t # s => t \notin T
      BY SmallestSubset
    <2>2. s \in SUBSET S /\ g[s] # h[s]
      BY <2>1 DEF T
    <2>3. g[s] = SumOf(g, s) /\ h[s] = SumOf(h, s)
      BY <2>2 DEF IsSum
    <2>4. s # {}
      BY <2>2, <2>3 DEF SumOf
    <2>5. /\ s \ {Taken(s)} \in SUBSET s /\ s \ {Taken(s)} # s
          /\ s \ {Taken(s)} \in SUBSET S
      BY <2>2, <2>4, TakenIn
    <2>6. g[s \ {Taken(s)}] = h[s \ {Taken(s)}]
      BY <2>1, <2>5 DEF T
    <2>. QED BY <2>2, <2>3, <2>6 DEF SumOf
  <1>2. \A s \in SUBSET S : g[s] = h[s]
    BY <1>1
  <1>3. g = [s \in SUBSET S |-> g[s]] /\ h = [s \in SUBSET S |-> h[s]]
    BY DEF IsSum
  <1>. QED BY <1>2, <1>3

\* It gives the parts of a part their values, too.
LEMMA SumRestricted ==
  ASSUME NEW S, NEW g, IsSum(g, S), NEW U \in SUBSET S
  PROVE  IsSum([s \in SUBSET U |-> g[s]], U)
  <1>. DEFINE h == [s \in SUBSET U |-> g[s]]
  <1>1. ASSUME NEW s \in SUBSET U PROVE h[s] = SumOf(h, s)
    <2>1. h[s] = SumOf(g, s)
      BY DEF IsSum
    <2>2. s \ {Taken(s)} \in SUBSET U
      OBVIOUS
    <2>. QED BY <2>1, <2>2 DEF SumOf
  <1>. QED BY <1>1 DEF IsSum

\* It exists.
LEMMA SumExists ==
  ASSUME NEW S, IsFiniteSet(S)
  PROVE  \E g : IsSum(g, S)
  <1>. DEFINE T == {s \in SUBSET S : ~ \E g : IsSum(g, s)}
  <1>1. SUFFICES ASSUME T # {} PROVE FALSE
    BY DEF T
  <1>. T \subseteq SUBSET S
    OBVIOUS
  <1>. HIDE DEF T
  <1>2. PICK s \in T : IsFiniteSet(s) /\ \A t \in SUBSET s : t # s => t \notin T
    BY <1>1, SmallestSubset
  <1>. DEFINE G(t) == CHOOSE g : IsSum(g, t)
              h == [t \in SUBSET s |-> SumOf([u \in SUBSET s |-> G(u)[u]], t)]
  <1>3. \A t \in SUBSET s : t # s => IsSum(G(t), t)
    BY <1>2 DEF T
  <1>4. ASSUME NEW t \in SUBSET s, t # s PROVE h[t] = G(t)[t]
    <2>1. G(t)[t] = SumOf(G(t), t)
      BY <1>3, <1>4 DEF IsSum
    <2>2. CASE t = {}
      BY <2>1, <2>2 DEF SumOf
    <2>3. CASE t # {}
      <3>. DEFINE u == t \ {Taken(t)}
      <3>1. u \in SUBSET t /\ u \in SUBSET s /\ u # s /\ IsFiniteSet(u)
        BY <1>2, <1>4, FS_Subset
      <3>. HIDE DEF u, G
      <3>2. IsSum([v \in SUBSET u |-> G(t)[v]], u)
        BY <1>3, <1>4, <3>1, SumRestricted
      <3>3. IsSum(G(u), u)
        BY <1>3, <3>1
      <3>4. G(u) = [v \in SUBSET u |-> G(t)[v]]
        BY <3>1, <3>2, <3>3, SumUnique
      <3>5. G(u)[u] = G(t)[u]
        BY <3>4
      <3>6. h[t] = Taken(t).amount + G(u)[u]
        BY <2>3, <3>1 DEF SumOf, u
      <3>7. G(t)[t] = Taken(t).amount + G(t)[u]
        BY <2>1, <2>3 DEF SumOf, u
      <3>. QED BY <3>5, <3>6, <3>7
    <2>. QED BY <2>2, <2>3
  <1>5. ASSUME NEW t \in SUBSET s PROVE h[t] = SumOf(h, t)
    <2>1. CASE t = {}
      BY <2>1 DEF SumOf
    <2>2. CASE t # {}
      <3>. DEFINE u == t \ {Taken(t)}
      <3>1. u \in SUBSET s /\ u # s
        BY <2>2, TakenIn
      <3>2. h[u] = G(u)[u]
        BY <1>4, <3>1
      <3>. HIDE DEF G
      <3>3. h[t] = Taken(t).amount + G(u)[u]
        BY <2>2, <3>1 DEF SumOf
      <3>. HIDE DEF h
      <3>. QED BY <2>2, <3>2, <3>3 DEF SumOf
    <2>. QED BY <2>1, <2>2
  <1>6. IsSum(h, s)
    <2>1. h = [t \in SUBSET s |-> h[t]]
      OBVIOUS
    <2>. HIDE DEF h
    <2>. QED BY <1>5, <2>1 DEF IsSum
  <1>. HIDE DEF h
  <1>. QED BY <1>2, <1>6 DEF T

\* Nothing costs nothing.
LEMMA CreditsEmpty == Credits({}) = 0
  <1>1. IsSum(CHOOSE g : IsSum(g, {}), {})
    BY SumExists, FS_EmptySet
  <1>. QED BY <1>1, CreditsDef DEF IsSum, SumOf

\* Taking out the element the fold takes.
LEMMA CreditsTaken ==
  ASSUME NEW S, IsFiniteSet(S), S # {}
  PROVE  Credits(S) = Taken(S).amount + Credits(S \ {Taken(S)})
  <1>. DEFINE U == S \ {Taken(S)}
              G(t) == CHOOSE g : IsSum(g, t)
  <1>1. U \in SUBSET S /\ IsFiniteSet(U)
    BY FS_Subset
  <1>2. IsSum(G(S), S) /\ IsSum(G(U), U)
    BY <1>1, SumExists
  <1>. HIDE DEF U, G
  <1>3. IsSum([v \in SUBSET U |-> G(S)[v]], U)
    BY <1>1, <1>2, SumRestricted
  <1>4. G(U) = [v \in SUBSET U |-> G(S)[v]]
    BY <1>1, <1>2, <1>3, SumUnique
  <1>5. G(U)[U] = G(S)[U]
    BY <1>4
  <1>6. G(S)[S] = Taken(S).amount + G(S)[U]
    <2>1. G(S)[S] = SumOf(G(S), S)
      BY <1>2 DEF IsSum
    <2>. QED BY <2>1 DEF SumOf, U
  <1>7. Credits(S) = G(S)[S] /\ Credits(U) = G(U)[U]
    BY CreditsDef DEF G
  <1>. QED BY <1>5, <1>6, <1>7 DEF U

\* Credits are counted in whole numbers.
LEMMA CreditsTyped ==
  ASSUME NEW S \in SUBSET (TradeReceipt \cup EarlierReceipt), IsFiniteSet(S)
  PROVE  Credits(S) \in Nat
  <1>. DEFINE T == {s \in SUBSET S : Credits(s) \notin Nat}
  <1>1. SUFFICES ASSUME T # {} PROVE FALSE
    OBVIOUS
  <1>. T \subseteq SUBSET S
    OBVIOUS
  <1>. HIDE DEF T
  <1>2. PICK s \in T : IsFiniteSet(s) /\ \A t \in SUBSET s : t # s => t \notin T
    BY <1>1, SmallestSubset
  <1>3. s # {}
    <2>1. Credits(s) \notin Nat
      BY <1>2 DEF T
    <2>2. 0 \in Nat
      OBVIOUS
    <2>3. Credits({}) \in Nat
      BY <2>2, CreditsEmpty
    <2>. QED BY <2>1, <2>3
  <1>4. s \ {Taken(s)} \in SUBSET s /\ s \ {Taken(s)} # s /\ Taken(s) \in s
    BY <1>3, TakenIn
  <1>5. Credits(s \ {Taken(s)}) \in Nat
    BY <1>2, <1>4 DEF T
  <1>6. Taken(s).amount \in Nat
    BY <1>2, <1>4, ConstantsAssumption DEF TradeReceipt, EarlierReceipt
  <1>7. Credits(s) = Taken(s).amount + Credits(s \ {Taken(s)})
    BY <1>2, <1>3, CreditsTaken
  <1>8. Credits(s) \in Nat
    BY <1>5, <1>6, <1>7
  <1>. QED BY <1>2, <1>8 DEF T

\* Taking out any element: the order in which the fold takes them is immaterial.
LEMMA CreditsSplit ==
  ASSUME NEW S \in SUBSET (TradeReceipt \cup EarlierReceipt), IsFiniteSet(S), NEW r \in S
  PROVE  Credits(S) = r.amount + Credits(S \ {r})
  <1>. DEFINE T == {s \in SUBSET S : \E x \in s : Credits(s) # x.amount + Credits(s \ {x})}
  <1>1. SUFFICES ASSUME T # {} PROVE FALSE
    BY DEF T
  <1>. T \subseteq SUBSET S
    OBVIOUS
  <1>. HIDE DEF T
  <1>2. PICK s \in T : IsFiniteSet(s) /\ \A t \in SUBSET s : t # s => t \notin T
    BY <1>1, SmallestSubset
  <1>3. PICK x \in s : Credits(s) # x.amount + Credits(s \ {x})
    BY <1>2 DEF T
  <1>. DEFINE y == Taken(s)
  <1>4. y \in s /\ Credits(s) = y.amount + Credits(s \ {y})
    BY <1>2, <1>3, TakenIn, CreditsTaken
  <1>. HIDE DEF y
  <1>5. x # y
    BY <1>3, <1>4
  <1>6. /\ s \ {x} \in SUBSET S /\ s \ {y} \in SUBSET S
        /\ s \ {x} \in SUBSET s /\ s \ {y} \in SUBSET s
        /\ s \ {x} # s /\ s \ {y} # s /\ y \in s \ {x} /\ x \in s \ {y}
    BY <1>2, <1>3, <1>4, <1>5
  <1>7. /\ Credits(s \ {y}) = x.amount + Credits((s \ {y}) \ {x})
        /\ Credits(s \ {x}) = y.amount + Credits((s \ {x}) \ {y})
    BY <1>2, <1>6 DEF T
  <1>8. (s \ {y}) \ {x} = (s \ {x}) \ {y}
    OBVIOUS
  <1>9. x.amount \in Nat /\ y.amount \in Nat
    <2>1. /\ x \in TradeReceipt \cup EarlierReceipt
          /\ y \in TradeReceipt \cup EarlierReceipt
      BY <1>2, <1>3, <1>4
    <2>. QED BY <2>1, ConstantsAssumption DEF TradeReceipt, EarlierReceipt
  <1>10. Credits((s \ {x}) \ {y}) \in Nat
    <2>. DEFINE u == (s \ {x}) \ {y}
    <2>1. u \in SUBSET s /\ u \in SUBSET (TradeReceipt \cup EarlierReceipt)
      BY <1>2
    <2>. HIDE DEF u
    <2>2. IsFiniteSet(u)
      BY <1>2, <2>1, FS_Subset
    <2>3. Credits(u) \in Nat
      BY <2>1, <2>2, CreditsTyped
    <2>. QED BY <2>3 DEF u
  <1>. QED
    <2>. DEFINE c == Credits((s \ {x}) \ {y})
    <2>1. /\ Credits(s) = y.amount + Credits(s \ {y}) /\ Credits(s \ {y}) = x.amount + c
          /\ Credits(s \ {x}) = y.amount + c
      BY <1>4, <1>7, <1>8
    <2>2. c \in Nat
      BY <1>10
    <2>. HIDE DEF c
    <2>3. Credits(s) = x.amount + Credits(s \ {x})
      BY <1>9, <2>1, <2>2
    <2>. QED BY <1>3, <2>3

\* A receipt more adds its amount.
LEMMA CreditsAdd ==
  ASSUME NEW R \in SUBSET (TradeReceipt \cup EarlierReceipt), IsFiniteSet(R),
         NEW r \in TradeReceipt, r \notin R
  PROVE  Credits(R \cup {r}) = Credits(R) + r.amount
  <1>1. /\ R \cup {r} \in SUBSET (TradeReceipt \cup EarlierReceipt)
        /\ IsFiniteSet(R \cup {r}) /\ r \in R \cup {r}
    BY FS_AddElement
  <1>2. (R \cup {r}) \ {r} = R
    OBVIOUS
  <1>3. Credits(R \cup {r}) = r.amount + Credits((R \cup {r}) \ {r})
    BY <1>1, CreditsSplit
  <1>4. Credits(R) \in Nat
    BY CreditsTyped
  <1>5. r.amount \in Nat
    BY ConstantsAssumption DEF TradeReceipt
  <1>6. Credits(R \cup {r}) = r.amount + Credits(R)
    BY <1>2, <1>3
  <1>. QED BY <1>4, <1>5, <1>6

-----------------------------------------------------------------------------
(* Progress is exact.                                                        *)

\* A run starts exact from an exact state: the progress it takes over, or the one the
\* caller passes.
LEMMA StartedExact ==
  ASSUME NEW x \in GraphState, Exact(x), NEW s \in Started(x)
  PROVE  Exact(s)
  <1>1. PICK p \in {x} \cup Carried :
          s.receipts = p.receipts /\ s.spent = p.spent /\ s.purchased = p.purchased
    BY StartedFields
  <1>2. IsFiniteSet(p.receipts) /\ CountsItsReceipts(p)
    BY CarriedAssumption DEF Exact
  <1>. QED BY <1>1, <1>2 DEF Exact, CountsItsReceipts

\* In memory and in every checkpoint, the credits spent are the sum of the receipts
\* counted, the products bought are their sellers, and no trade is counted twice.
THEOREM ProgressInvariance == Spec => []ProgressInvariant
  <1>1. Init => ProgressInvariant
    <2>. SUFFICES ASSUME Init PROVE ProgressInvariant
      OBVIOUS
    <2>1. Snapshots = {st}
      BY DEF Init, Snapshots
    <2>2. Exact(FreshState)
      BY CreditsEmpty, FS_EmptySet DEF Exact, CountsItsReceipts, FreshState
    <2>3. Exact(st)
      BY <2>2, FreshTyped, StartedExact DEF Init
    <2>. QED BY <2>1, <2>3 DEF ProgressInvariant
  <1>2. ASSUME InductiveInvariant, ProgressInvariant, [Next]_vars PROVE ProgressInvariant'
    <2>1. Exact(st) /\ Exact(saved) /\ st \in GraphState /\ saved \in GraphState
      BY <1>2, RunningSound
        DEF ProgressInvariant, Snapshots, InductiveInvariant, TypeOK, ClientTypeOK
    <2>2. ASSUME NEW x, Exact(x), NEW y, y.receipts = x.receipts, y.spent = x.spent,
                 y.purchased = x.purchased
          PROVE  Exact(y)
      BY <2>2 DEF Exact, CountsItsReceipts
    <2>3. Exact(st')
      <3>1. CASE ~GraphStep
        <4>1. CASE st' \in Started(saved)
          BY <2>1, <4>1, StartedExact
        <4>. QED BY <1>2, <2>1, <3>1, <4>1, OtherSteps
      <3>2. CASE GraphStep /\ st'.receipts = st.receipts /\ st'.spent = st.spent
                 /\ st'.purchased = st.purchased
        BY <2>1, <2>2, <3>2
      <3>3. ASSUME NEW r \in TradeReceipt,
                   \A q \in st.receipts : q.trade # r.trade,
                   st'.receipts = st.receipts \cup {r}, st'.spent = st.spent + r.amount,
                   st'.purchased = st.purchased \cup {r.seller}
            PROVE  Exact(st')
        <4>1. /\ st.receipts \in SUBSET (TradeReceipt \cup EarlierReceipt)
              /\ IsFiniteSet(st.receipts)
              /\ r \notin st.receipts
          BY <2>1, <3>3 DEF Exact, GraphState
        <4>2. Credits(st.receipts \cup {r}) = Credits(st.receipts) + r.amount
          BY <4>1, CreditsAdd
        <4>3. IsFiniteSet(st.receipts \cup {r})
          BY <4>1, FS_AddElement
        <4>. QED BY <2>1, <3>3, <4>2, <4>3 DEF Exact, CountsItsReceipts
      <3>. QED BY <1>2, <3>1, <3>2, <3>3, FieldsKept, RecordCounts
    <2>. QED BY <1>2, <2>3, SnapshotsMove DEF ProgressInvariant
  <1>3. InductiveInvariant /\ ProgressInvariant /\ [Next]_vars => ProgressInvariant'
    BY <1>2
  <1>. QED BY <1>1, <1>3, Invariance, PTL DEF Spec

\* Progress is exact in memory and in every checkpoint from which a run may resume.
THEOREM ProgressAlwaysExact == Spec => []ProgressIsExact
  <1>1. ProgressInvariant => ProgressIsExact
    BY DEF ProgressInvariant, Exact, ProgressIsExact
  <1>. QED BY <1>1, ProgressInvariance, PTL

-----------------------------------------------------------------------------
(* A purchase called FAILED.                                                 *)

\* The verdict of a reconciliation is never FAILED.
LEMMA ReconciledNotFailed ==
  ASSUME NEW k, NEW evidence, NEW intent
  PROVE  EvidenceVerdict(k, evidence, intent)[1] # "failed"
  BY DEF EvidenceVerdict, ReceiptVerdict

\* A verdict is written to the entry that is pending, and to no other.
LEMMA ConcludeWrites ==
  ASSUME InductiveInvariant, st.next \in CycleNodes, NEW verdict, NEW next,
         Conclude(verdict, next), NEW k \in PurchaseKeys
  PROVE  /\ UNCHANGED <<arena, trades, sends>>
         /\ \/ journal'[k].status = journal[k].status
            \/ k = st.pending /\ journal'[k].status = verdict[1]
  <1>1. /\ journal \in [PurchaseKeys -> Journal!OutboundOperation]
        /\ st.pending \in PurchaseKeys
    BY PendingTyped DEF InductiveInvariant, TypeOK, Journal!TypeOK
  <1>2. journal' = [journal EXCEPT ![st.pending] =
                      Journal!Updated(@, verdict[1], verdict[2])]
    BY DEF Conclude, Journal!Transition
  <1>3. CASE k # st.pending
    BY <1>1, <1>2, <1>3 DEF Conclude, arenaVars
  <1>4. CASE k = st.pending
    BY <1>1, <1>2, <1>4 DEF Conclude, arenaVars, Journal!Updated, Journal!OutboundOperation
  <1>. QED BY <1>3, <1>4

\* No answer of the Arena takes a refusal back.
LEMMA RefusedStays ==
  ASSUME InductiveInvariant, [Next]_vars, NEW k \in PurchaseKeys, arena[k] = "refused"
  PROVE  arena'[k] = "refused"
  <1>1. arena \in [PurchaseKeys -> {"idle", "in_flight", "settled", "refused", "lost"}]
    BY DEF InductiveInvariant, TypeOK, ArenaTypeOK
  <1>2. CASE UNCHANGED arena
    BY <1>2
  <1>3. CASE ExecutePurchase
    BY <1>1, <1>3 DEF ExecutePurchase
  <1>4. CASE ArenaStep
    BY <1>1, <1>4 DEF ArenaStep, ArenaSettles, ArenaRefuses, ArenaLoses, ArenaAnswers
  <1>. QED BY <1>2, <1>3, <1>4
         DEF Next, GraphStep, CritiqueStep, PurchaseStep, Prepare, Discover,
           DiscoverRaises, PlanMarket, EvaluateServices, PostCritique, FeedbackDone, Rank,
           Audit, PreparePurchase, PreparePurchaseRaises, ExecuteAlreadySubmitted,
           BuyReturnsReceipt, BuyRefused, BuyTransportFails, ReconcilePurchase,
           ReconcileUnavailable, Conclude, RecordPurchase, SaveCheckpoint, Stop, Resume,
           RunRoundAgain, Terminated, vars, arenaVars

\* A step that calls a purchase FAILED has an answer of the Arena that refuses it.
LEMMA FailedStep ==
  ASSUME BuiltinErrors, InductiveInvariant, [Next]_vars, NEW k \in PurchaseKeys,
         journal'[k].status = "failed", journal[k].status # "failed"
  PROVE  arena[k] = "refused"
  <1>1. journal \in [PurchaseKeys -> Journal!OutboundOperation]
    BY DEF InductiveInvariant, TypeOK, Journal!TypeOK
  <1>2. CASE UNCHANGED journal
    BY <1>2
  <1>3. CASE PreparePurchase
    BY <1>1, <1>3 DEF PreparePurchase, Journal!Prepare
  <1>4. CASE ExecutePurchase
    BY <1>1, <1>4 DEF ExecutePurchase, Journal!Transition, Journal!Updated
  <1>5. CASE BuyReturnsReceipt \/ BuyRefused \/ BuyTransportFails
    <2>1. st.next \in CycleNodes
      BY <1>5, BuyingTyped DEF BuyReturnsReceipt, BuyRefused, BuyTransportFails
    <2>2. CASE BuyReturnsReceipt
      BY <2>1, <2>2, ConcludeWrites DEF BuyReturnsReceipt, ReceiptVerdict
    <2>3. CASE BuyRefused
      BY <2>1, <2>3, ConcludeWrites DEF BuyRefused
    <2>4. CASE BuyTransportFails
      BY <2>1, <2>4, ConcludeWrites DEF BuyTransportFails
    <2>. QED BY <1>5, <2>2, <2>3, <2>4
  <1>6. CASE ReconcilePurchase \/ ReconcileUnavailable
    <2>1. st.next \in CycleNodes
      BY <1>6 DEF ReconcilePurchase, ReconcileUnavailable, Runs, CycleNodes
    <2>2. CASE ReconcilePurchase
      BY <2>1, <2>2, ConcludeWrites, ReconciledNotFailed DEF ReconcilePurchase
    <2>3. CASE ReconcileUnavailable
      BY <2>1, <2>3, ConcludeWrites DEF ReconcileUnavailable
    <2>. QED BY <1>6, <2>2, <2>3
  <1>. QED BY <1>2, <1>3, <1>4, <1>5, <1>6
         DEF Next, GraphStep, CritiqueStep, PurchaseStep, ArenaStep, ArenaSettles,
           ArenaRefuses, ArenaLoses, ArenaAnswers, Prepare, Discover, DiscoverRaises,
           PlanMarket, EvaluateServices, PostCritique, FeedbackDone, Rank, Audit,
           PreparePurchaseRaises, ExecuteAlreadySubmitted, RecordPurchase,
           SaveCheckpoint, Stop, Resume, RunRoundAgain, Terminated, vars

\* With a client whose timeouts the graph knows, a purchase that the journal calls
\* FAILED has not been charged and never will be.
THEOREM FailedNeverCharged ==
  ASSUME BuiltinErrors
  PROVE  Spec => []FailedMeansUncharged
  <1>1. Init => FailedIsRefused
    BY DEF Init, Journal!Init, Journal!Absent, FailedIsRefused
  <1>2. InductiveInvariant /\ FailedIsRefused /\ [Next]_vars => FailedIsRefused'
    BY FailedStep, RefusedStays DEF FailedIsRefused
  <1>3. FailedIsRefused => FailedMeansUncharged
    BY DEF FailedIsRefused, FailedMeansUncharged, Paid
  <1>. QED BY <1>1, <1>2, <1>3, Invariance, PTL DEF Spec

-----------------------------------------------------------------------------
(* Plans and the purchases they account for.                                 *)

\* A node commits a state whose plan was discovered.
LEMMA PlanSoundCommitted ==
  ASSUME InductiveInvariant, GraphStep, PlanSound(st)
  PROVE  PlanSound(st')
  <1>1. st \in GraphState /\ st'.mode = st.mode
    BY RunningSound, FieldsKept
  <1>2. CASE UNCHANGED st
    BY <1>2 DEF PlanSound
  <1>3. CASE Prepare
    BY <1>1, <1>3 DEF Prepare, Runs, Commit, GraphState, PlanSound, BuyingNodes, CycleNodes
  <1>4. CASE Discover
    <2>1. PICK d \in Discoveries :
            LET short == st.mode # "market" /\ d.targets = <<>> IN
            st' = [st EXCEPT
              !.found = [d EXCEPT !.targets = IF st.mode = "market" THEN <<>> ELSE @],
              !.violations = IF short THEN @ \cup {<<"targets", NoSubject>>} ELSE @,
              !.next = CASE st.mode = "market" -> "plan_market"
                         [] short -> "audit"
                         [] OTHER -> "evaluate_services"]
      BY <1>4 DEF Discover, Commit
    <2>2. st'.plan = st.plan /\ st'.found.plan = d.plan
      BY <1>1, <2>1, ConstantsAssumption DEF GraphState, Discovery
    <2>3. /\ st'.next \in {"plan_market", "audit", "evaluate_services"}
          /\ st'.next = "plan_market" => st.mode = "market"
          /\ st'.next = "audit" => st'.violations # {}
      BY <1>1, <2>1 DEF GraphState
    <2>. QED BY <1>1, <2>2, <2>3 DEF PlanSound, Discovered, BuyingNodes, CycleNodes
  <1>5. CASE PlanMarket
    <2>1. st.mode # "critique"
      BY <1>5 DEF PlanMarket, Runs, PlanSound
    <2>2. /\ st'.found = st.found
          /\ \/ st'.next = "audit" /\ st'.plan = <<>> /\ st'.violations # {}
             \/ /\ st'.next = "prepare_purchase" /\ st'.plan = st.found.plan
                /\ st'.plan # <<>>
      BY <1>1, <1>5 DEF PlanMarket, Commit, GraphState
    <2>. QED BY <1>1, <2>1, <2>2 DEF PlanSound, Discovered, BuyingNodes, CycleNodes
  <1>6. CASE EvaluateServices
    BY <1>1, <1>6 DEF EvaluateServices, Commit, GraphState, PlanSound, BuyingNodes, CycleNodes
  <1>7. CASE FeedbackDone
    BY <1>1, <1>7 DEF FeedbackDone, Commit, GraphState, PlanSound, BuyingNodes, CycleNodes
  <1>8. CASE Rank
    <2>1. /\ st'.found = st.found /\ st'.plan = st.plan
          /\ \/ UNCHANGED st
             \/ st'.next = IF st.mode = "critique" THEN "audit" ELSE "plan_market"
      <3>1. st'.found = st.found /\ st'.plan = st.plan
        BY <1>8, FieldsKept DEF Rank, Discover, PlanMarket, Runs
      <3>2. UNCHANGED st \/ st'.next = IF st.mode = "critique" THEN "audit" ELSE "plan_market"
        BY <1>1, <1>8 DEF Rank, Commit, GraphState
      <3>. QED BY <3>1, <3>2
    <2>. QED BY <1>1, <1>2, <2>1 DEF PlanSound, BuyingNodes, CycleNodes
  <1>9. CASE Audit
    <2>1. /\ st'.found = st.found /\ st'.plan = st.plan /\ st'.next = "complete"
          /\ st'.report = "valid" => st.violations = {}
      BY <1>1, <1>9 DEF Audit, Commit, GraphState
    <2>2. st.next = "audit"
      BY <1>9 DEF Audit, Runs
    <2>. QED BY <1>1, <2>1, <2>2 DEF PlanSound, BuyingNodes, CycleNodes
  <1>10. CASE PreparePurchase
    <2>1. /\ st.next = "prepare_purchase" /\ st'.found = st.found /\ st'.plan = st.plan
          /\ st'.next \in {"audit"} \cup CycleNodes
      BY <1>1, <1>10
        DEF PreparePurchase, Runs, Commit, GraphState, AfterPreparation, CycleNodes
    <2>. QED BY <1>1, <2>1 DEF PlanSound, BuyingNodes, CycleNodes
  <1>11. CASE ExecuteAlreadySubmitted
    BY <1>1, <1>11
      DEF ExecuteAlreadySubmitted, Runs, Commit, GraphState, PlanSound, BuyingNodes, CycleNodes
  <1>12. CASE BuyReturnsReceipt \/ BuyRefused \/ BuyTransportFails
             \/ ReconcilePurchase \/ ReconcileUnavailable
    <2>1. st.next \in CycleNodes
      BY <1>12, BuyingTyped DEF BuyReturnsReceipt, BuyRefused, BuyTransportFails,
        ReconcilePurchase, ReconcileUnavailable, Runs, CycleNodes
    <2>2. /\ st'.found = st.found /\ st'.plan = st.plan
          /\ st'.next \in CycleNodes
      BY <1>1, <1>12 DEF BuyReturnsReceipt, BuyRefused, BuyTransportFails,
        ReconcilePurchase, ReconcileUnavailable, Conclude, Commit, GraphState, CycleNodes
    <2>. QED BY <1>1, <2>1, <2>2 DEF PlanSound, BuyingNodes, CycleNodes
  <1>13. CASE RecordPurchase
    <2>1. st.next \in CycleNodes
      BY <1>13 DEF RecordPurchase, Runs, CycleNodes
    <2>2. /\ st'.found = st.found /\ st'.plan = st.plan
          /\ st'.next \in {"prepare_purchase", "audit"}
      BY <1>1, <1>13 DEF RecordPurchase, Recorded, Commit, GraphState
    <2>. QED BY <1>1, <2>1, <2>2 DEF PlanSound, BuyingNodes, CycleNodes
  <1>14. CASE DiscoverRaises \/ PostCritique \/ PreparePurchaseRaises \/ ExecutePurchase
    BY <1>2, <1>14 DEF DiscoverRaises, PostCritique, PreparePurchaseRaises, ExecutePurchase
  <1>. QED BY <1>3, <1>4, <1>5, <1>6, <1>7, <1>8, <1>9, <1>10, <1>11, <1>12, <1>13, <1>14
         DEF GraphStep, CritiqueStep, PurchaseStep

\* A purchase enters the journal only as one of the plan that is being bought.
LEMMA JournalledByPrepare ==
  ASSUME InductiveInvariant, [Next]_vars, NEW k \in PurchaseKeys,
         journal[k].status = "absent", journal'[k].status # "absent"
  PROVE  PreparePurchase /\ st.plan # <<>> /\ k \in KeysOf(st.plan)
  <1>1. journal \in [PurchaseKeys -> Journal!OutboundOperation]
    BY DEF InductiveInvariant, TypeOK, Journal!TypeOK
  <1>2. CASE UNCHANGED journal
    BY <1>2
  <1>3. ASSUME NEW x, NEW status, NEW receipt, Journal!Transition(x, status, receipt)
        PROVE  FALSE
    <2>1. /\ journal[x].status # "absent"
          /\ journal' = [journal EXCEPT ![x] = Journal!Updated(@, status, receipt)]
      BY <1>3 DEF Journal!Transition, Journal!Created
    <2>. QED BY <1>1, <2>1
  <1>4. CASE ExecutePurchase
    BY <1>3, <1>4 DEF ExecutePurchase
  <1>5. CASE BuyReturnsReceipt \/ BuyRefused \/ BuyTransportFails
             \/ ReconcilePurchase \/ ReconcileUnavailable
    BY <1>3, <1>5 DEF BuyReturnsReceipt, BuyRefused, BuyTransportFails, ReconcilePurchase,
      ReconcileUnavailable, Conclude
  <1>6. CASE PreparePurchase
    <2>1. /\ st.next = "prepare_purchase" /\ st.index \in Nat
          /\ st.index < Len(st.plan) /\ Len(st.plan) \in Nat
          /\ k = Key(st, st.index)
      <3>1. st.index \in Nat /\ Len(st.plan) \in Nat
        BY RunningSound DEF GraphState, Plan
      <3>2. ~(st.index >= Len(st.plan))
        BY <1>2, <1>6 DEF PreparePurchase
      <3>3. Journal!Prepare(Key(st, st.index), Intent(st, st.index))
        BY <1>6, <3>2 DEF PreparePurchase
      <3>4. k = Key(st, st.index)
        BY <1>1, <3>3 DEF Journal!Prepare
      <3>. QED BY <1>6, <3>1, <3>2, <3>4 DEF PreparePurchase, Runs
    <2>2. st.plan # <<>> /\ k \in KeysOf(st.plan)
      BY <2>1 DEF KeysOf, Key, Intent
    <2>. QED BY <1>6, <2>2
  <1>. QED BY <1>2, <1>4, <1>5, <1>6
         DEF Next, GraphStep, CritiqueStep, PurchaseStep, ArenaStep, ArenaSettles,
           ArenaRefuses, ArenaLoses, ArenaAnswers, Prepare, Discover, DiscoverRaises,
           PlanMarket, EvaluateServices, PostCritique, FeedbackDone, Rank, Audit,
           PreparePurchaseRaises, ExecuteAlreadySubmitted, RecordPurchase,
           SaveCheckpoint, Stop, Resume, RunRoundAgain, Terminated, vars

\* Such a plan was discovered.
LEMMA JournalledIsPlanned ==
  ASSUME InductiveInvariant, PlanSound(st), [Next]_vars, NEW k \in PurchaseKeys,
         journal[k].status = "absent", journal'[k].status # "absent"
  PROVE  \E d \in Discoveries : k \in KeysOf(d.plan)
  BY JournalledByPrepare DEF PlanSound, Discovered

\* Only purchases of a discovered plan are ever prepared.
THEOREM PlanInvariance == Spec => []PlanInvariant
  <1>1. Init => PlanInvariant
    <2>. SUFFICES ASSUME Init PROVE PlanInvariant
      OBVIOUS
    <2>1. Snapshots = {st} /\ \A k \in PurchaseKeys : journal[k].status = "absent"
      BY DEF Init, Snapshots, Journal!Init, Journal!Absent
    <2>2. PlanSound(st)
      <3>1. st \in Started(FreshState)
        BY DEF Init
      <3>2. /\ st.next = "prepare" /\ st.found = FreshState.found
            /\ st.plan = FreshState.plan
        BY <3>1, FreshTyped, StartedFields
      <3>. QED BY <3>2 DEF PlanSound, Discovered, FreshState, BuyingNodes, CycleNodes
    <2>. QED BY <2>1, <2>2 DEF PlanInvariant
  <1>2. ASSUME InductiveInvariant, PlanInvariant, [Next]_vars PROVE PlanInvariant'
    <2>1. PlanSound(st) /\ PlanSound(saved) /\ saved \in GraphState
      BY <1>2 DEF PlanInvariant, Snapshots, InductiveInvariant, TypeOK, ClientTypeOK
    <2>2. PlanSound(st')
      <3>1. CASE GraphStep
        BY <1>2, <2>1, <3>1, PlanSoundCommitted
      <3>2. CASE st' \in Started(saved)
        <4>1. st'.next = "prepare" /\ st'.found = saved.found /\ st'.plan = saved.plan
          BY <2>1, <3>2, StartedFields
        <4>. QED BY <2>1, <4>1 DEF PlanSound, BuyingNodes, CycleNodes
      <3>. QED BY <1>2, <2>1, <3>1, <3>2, OtherSteps
    <2>3. \A x \in Snapshots' : PlanSound(x)
      BY <1>2, <2>2, SnapshotsMove DEF PlanInvariant
    <2>4. \A k \in PurchaseKeys :
            journal'[k].status # "absent" =>
              \E d \in Discoveries : k \in KeysOf(d.plan)
      BY <1>2, <2>1, JournalledIsPlanned DEF PlanInvariant
    <2>. QED BY <2>3, <2>4 DEF PlanInvariant, PlanSound
  <1>3. InductiveInvariant /\ PlanInvariant /\ [Next]_vars => PlanInvariant'
    BY <1>2
  <1>. QED BY <1>1, <1>3, Invariance, PTL DEF Spec

\* Every purchase the Arena has heard of is in the journal, hence planned.
LEMMA HeardIsPlanned ==
  ASSUME InductiveInvariant, PlanInvariant, NEW k \in PurchaseKeys, arena[k] # "idle"
  PROVE  \E d \in Discoveries : k \in KeysOf(d.plan)
  BY DEF InductiveInvariant, RemoteSound, PlanInvariant

\* As long as every plan buys the same services in the same order, a valid report
\* accounts for every credit that moved, and nothing is left in flight.
THEOREM ValidReportIsComplete ==
  ASSUME SamePurchases
  PROVE  Spec => []ValidReportAccountsForAll
  <1>1. ASSUME InductiveInvariant, PlanInvariant, st.next = "complete",
               st.report = "valid", st.mode # "critique", NEW k \in PurchaseKeys, arena[k] # "idle"
        PROVE  arena[k] # "in_flight" /\ trades[k] \in st.receipts
    <2>1. PICK d \in Discoveries : k \in KeysOf(d.plan)
      BY <1>1, HeardIsPlanned
    <2>2. PlanSound(st) /\ st \in GraphState
      BY <1>1, RunningSound DEF PlanInvariant, Snapshots
    <2>3. PICK e \in Discoveries : e.plan = st.plan /\ st.plan # <<>>
      BY <1>1, <2>2 DEF PlanSound, Discovered
    <2>4. d.plan # <<>>
      BY <2>1 DEF KeysOf
    <2>5. k \in KeysOf(st.plan)
      BY <2>1, <2>3, <2>4 DEF SamePurchases
    <2>6. PICK i \in 0 .. Len(st.plan) - 1 : k = Key(st, i)
      BY <2>5 DEF KeysOf, Key, Intent
    <2>7. /\ Sound(st, journal, trades) /\ st.index \in Nat /\ Len(st.plan) \in Nat
      BY <1>1, <2>2, RunningSound DEF GraphState, Plan
    <2>8. st.violations = {} /\ i \in 0 .. st.index - 1 /\ i < Len(st.plan)
      BY <1>1, <2>2, <2>7 DEF Sound
    <2>9. journal[k].status = "settled" /\ journal[k].receipt \in st.receipts
      <3>1. st.next \in BuyingNodes \cup {"audit", "complete"}
        BY <1>1
      <3>. QED BY <1>1, <2>6, <2>7, <2>8, <3>1 DEF Sound
    <2>. QED BY <1>1, <2>9 DEF InductiveInvariant, RemoteSound
  <1>2. InductiveInvariant /\ PlanInvariant => ValidReportAccountsForAll
    BY <1>1 DEF ValidReportAccountsForAll, Paid
  <1>. QED BY <1>2, Invariance, PlanInvariance, PTL

-----------------------------------------------------------------------------
(* What is published.                                                        *)

\* What one attempt leaves behind.
LEMMA AttemptEffect ==
  ASSUME NEW item, NEW outcome \in Outcomes, Attempt(item, outcome), losses \in Nat
  PROVE  /\ published \subseteq published' /\ losses =< losses'
         /\ outcome = "ok" => item \in published'
         /\ outcome = "lost" => losses' = losses + 1
         /\ outcome = "refused" => "refused" \in ArenaFaults
  <1>1. /\ losses' = IF outcome = "lost" THEN losses + 1 ELSE losses
        /\ outcome = "refused" => "refused" \in ArenaFaults
    BY DEF Attempt
  <1>2. CASE outcome = "ok"
    BY <1>1, <1>2 DEF Attempt
  <1>3. CASE outcome = "lost"
    BY <1>1, <1>3 DEF Attempt
  <1>4. CASE outcome = "refused"
    BY <1>1, <1>4 DEF Attempt
  <1>. QED BY <1>2, <1>3, <1>4 DEF Outcomes

\* What was published stays published, and losses are only added up.
LEMMA ArenaRemembers ==
  ASSUME InductiveInvariant, [Next]_vars
  PROVE  published \subseteq published' /\ losses =< losses'
  <1>1. losses \in Nat
    BY ConstantsAssumption DEF InductiveInvariant, TypeOK, CountsTypeOK
  <1>2. CASE PostCritique
    BY <1>1, <1>2, AttemptEffect DEF PostCritique
  <1>3. CASE Rank
    BY <1>1, <1>3, AttemptEffect DEF Rank
  <1>4. CASE DiscoverRaises
    BY <1>1, <1>4 DEF DiscoverRaises
  <1>5. CASE UNCHANGED <<published, losses>>
    BY <1>1, <1>5
  <1>. QED BY <1>2, <1>3, <1>4, <1>5
         DEF Next, GraphStep, CritiqueStep, PurchaseStep, ArenaStep, ArenaSettles,
           ArenaRefuses, ArenaLoses, ArenaAnswers, Prepare, Discover, PlanMarket,
           EvaluateServices, FeedbackDone, Audit, PreparePurchase, PreparePurchaseRaises,
           ExecutePurchase, ExecuteAlreadySubmitted, BuyReturnsReceipt, BuyRefused,
           BuyTransportFails, ReconcilePurchase, ReconcileUnavailable, Conclude,
           RecordPurchase, SaveCheckpoint, Stop, Resume, RunRoundAgain, Terminated,
           vars, countVars

\* The running node's own variables change only while it posts or buys; a commit
\* or a restart sets them back.
LEMMA LocalMoves ==
  ASSUME InductiveInvariant, [Next]_vars
  PROVE  \/ local' = IdleNode
         \/ UNCHANGED <<st, local>>
         \/ UNCHANGED st /\ local' = [local EXCEPT !.buying = TRUE]
         \/ UNCHANGED st /\ Rank /\ local' = [local EXCEPT !.attempt = 2]
         \/ PostCritique
  <1>1. CASE Commit(st')
    BY <1>1 DEF Commit
  <1>2. CASE ~GraphStep
    BY <1>2, OtherSteps
  <1>3. CASE GraphStep /\ UNCHANGED <<st, durableVars>>
    <2>1. CASE ExecutePurchase
      BY <2>1 DEF ExecutePurchase
    <2>2. CASE Rank
      BY <2>2 DEF Rank, Commit
    <2>3. CASE DiscoverRaises \/ PreparePurchaseRaises
      BY <2>3 DEF DiscoverRaises, PreparePurchaseRaises
    <2>4. CASE PostCritique
      BY <2>4
    <2>5. CASE Prepare \/ Discover \/ PlanMarket \/ EvaluateServices \/ FeedbackDone
               \/ Audit \/ PreparePurchase \/ ExecuteAlreadySubmitted \/ RecordPurchase
      BY <2>5 DEF Prepare, Discover, PlanMarket, EvaluateServices, FeedbackDone, Audit,
        PreparePurchase, ExecuteAlreadySubmitted, RecordPurchase, Commit
    <2>6. CASE BuyReturnsReceipt \/ BuyRefused \/ BuyTransportFails
               \/ ReconcilePurchase \/ ReconcileUnavailable
      BY <2>6 DEF BuyReturnsReceipt, BuyRefused, BuyTransportFails, ReconcilePurchase,
        ReconcileUnavailable, Conclude, Commit
    <2>. QED BY <1>3, <2>1, <2>2, <2>3, <2>4, <2>5, <2>6
           DEF GraphStep, CritiqueStep, PurchaseStep
  <1>. QED BY <1>1, <1>2, <1>3, NodeCommits

\* One post: the seller it is for, and what the node then knows.
LEMMA PostEffect ==
  ASSUME InductiveInvariant, PostCritique
  PROVE  \E outcome \in Outcomes :
           /\ Attempt(<<"feedback", st.found.targets[local.posted + 1], local.posted>>,
                      outcome)
           /\ UNCHANGED st
           /\ local.posted + 1 \in 1 .. Len(st.found.targets)
           /\ IF Retries(outcome)
              THEN /\ local'.posted = local.posted /\ local'.attempt = 2
                   /\ local'.failed = local.failed
              ELSE /\ local'.posted = local.posted + 1 /\ local'.attempt = 1
                   /\ local'.failed =
                        IF outcome = "ok" THEN local.failed
                        ELSE local.failed \cup {st.found.targets[local.posted + 1]}
  <1>. DEFINE seller == st.found.targets[local.posted + 1]
  <1>1. local \in LocalType /\ st \in GraphState
    BY RunningSound DEF ClientTypeOK, LocalType
  <1>2. PICK outcome \in Outcomes :
          /\ Attempt(<<"feedback", seller, local.posted>>, outcome)
          /\ local' = IF Retries(outcome)
                      THEN [local EXCEPT !.attempt = 2]
                      ELSE [local EXCEPT
                              !.posted = @ + 1, !.attempt = 1,
                              !.failed = IF outcome = "ok" THEN @ ELSE @ \cup {seller}]
    BY DEF PostCritique
  <1>3. local.posted + 1 \in 1 .. Len(st.found.targets) /\ UNCHANGED st
    BY <1>1 DEF PostCritique, LocalType, GraphState, Discovery
  <1>. HIDE DEF seller
  <1>4. IF Retries(outcome)
        THEN /\ local'.posted = local.posted /\ local'.attempt = 2
             /\ local'.failed = local.failed
        ELSE /\ local'.posted = local.posted + 1 /\ local'.attempt = 1
             /\ local'.failed = IF outcome = "ok" THEN local.failed
                                ELSE local.failed \cup {seller}
    BY <1>1, <1>2 DEF LocalType
  <1>. QED BY <1>2, <1>3, <1>4 DEF seller

\* What the running node has posted stays posted; its next post joins them.
LEMMA PostsStay ==
  ASSUME InductiveInvariant, PostsSound, [Next]_vars
  PROVE  PostsSound'
  <1>1. /\ local \in LocalType /\ st.found.targets \in Seq(Sellers)
        /\ \A seller : Held(seller, published) => Held(seller, published')
    BY RunningSound, ArenaRemembers DEF ClientTypeOK, LocalType, GraphState, Discovery, Held
  <1>2. CASE local' = IdleNode
    <2>1. local'.posted = 0 /\ st' \in GraphState
      BY <1>2, NextSafe, RunningSound
        DEF IdleNode, InductiveInvariant, TypeOK, ClientTypeOK
    <2>2. Len(st'.found.targets) \in Nat
      BY <2>1 DEF GraphState, Discovery
    <2>. QED BY <2>1, <2>2 DEF PostsSound
  <1>3. CASE UNCHANGED <<st, local>>
    BY <1>1, <1>3 DEF PostsSound
  <1>4. CASE UNCHANGED st /\ local' = [local EXCEPT !.buying = TRUE]
    BY <1>1, <1>4 DEF PostsSound, LocalType
  <1>5. CASE UNCHANGED st /\ Rank /\ local' = [local EXCEPT !.attempt = 2]
    BY <1>1, <1>5 DEF PostsSound, LocalType
  <1>6. CASE PostCritique
    <2>. DEFINE seller == st.found.targets[local.posted + 1]
    <2>1. PICK outcome \in Outcomes :
            /\ Attempt(<<"feedback", seller, local.posted>>, outcome)
            /\ UNCHANGED st
            /\ local.posted + 1 \in 1 .. Len(st.found.targets)
            /\ IF Retries(outcome)
               THEN /\ local'.posted = local.posted /\ local'.attempt = 2
                    /\ local'.failed = local.failed
               ELSE /\ local'.posted = local.posted + 1 /\ local'.attempt = 1
                    /\ local'.failed = IF outcome = "ok" THEN local.failed
                                       ELSE local.failed \cup {seller}
      BY <1>6, PostEffect
    <2>2. losses \in Nat
      BY ConstantsAssumption DEF InductiveInvariant, TypeOK, CountsTypeOK
    <2>3. CASE Retries(outcome)
      BY <1>1, <2>1, <2>3 DEF PostsSound
    <2>4. CASE ~Retries(outcome)
      <3>1. Held(seller, published') \/ seller \in local'.failed
        <4>1. CASE outcome = "ok"
          <5>1. <<"feedback", seller, local.posted>> \in published'
            BY <2>1, <2>2, <4>1, AttemptEffect
          <5>. QED BY <5>1 DEF Held
        <4>2. CASE outcome # "ok"
          BY <2>1, <2>4, <4>2
        <4>. QED BY <4>1, <4>2
      <3>2. local.failed \subseteq local'.failed
        BY <2>1, <2>4
      <3>3. ASSUME NEW i \in 1 .. local'.posted
            PROVE  \/ Held(st'.found.targets[i], published')
                   \/ st'.found.targets[i] \in local'.failed
        <4>1. CASE i = local.posted + 1
          BY <2>1, <3>1, <4>1
        <4>2. CASE i # local.posted + 1
          <5>1. i \in 1 .. local.posted /\ local.posted \in Nat
            BY <1>1, <2>1, <2>4, <4>2 DEF LocalType
          <5>. QED BY <1>1, <2>1, <3>2, <5>1 DEF PostsSound
        <4>. QED BY <4>1, <4>2
      <3>4. local'.posted =< Len(st'.found.targets)
        BY <1>1, <2>1, <2>4 DEF LocalType
      <3>. QED BY <3>3, <3>4 DEF PostsSound
    <2>. QED BY <2>3, <2>4
  <1>. QED BY <1>2, <1>3, <1>4, <1>5, <1>6, LocalMoves

\* A state that is sound stays so while the Arena learns more.
LEMMA CritiqueSoundGrows ==
  ASSUME InductiveInvariant, [Next]_vars, NEW s, CritiqueSound(s, published)
  PROVE  CritiqueSound(s, published')
  BY ArenaRemembers DEF CritiqueSound, Held

\* Every node commits a state whose critiques are in the Arena or violations.
LEMMA CritiqueCommitted ==
  ASSUME InductiveInvariant, PostsSound, CritiqueSound(st, published), GraphStep
  PROVE  CritiqueSound(st', published')
  <1>. DEFINE Noted(seller, s) ==
                Held(seller, published') \/ <<"feedback", seller>> \in s.violations
              Counted(s) == \A seller \in s.critiqued \ CarriedCritiques : Noted(seller, s)
              Posted(s) == \A i \in DOMAIN s.found.targets : Noted(s.found.targets[i], s)
              Ranked == <<"ranking", NoSubject, 0>> \in published'
              Behind(s) == s.next \in AfterRanking /\ s.mode # "market"
  <1>1. /\ st \in GraphState /\ published \subseteq published' /\ losses \in Nat
        /\ st'.mode = st.mode /\ st.violations \subseteq st'.violations
    BY RunningSound, ArenaRemembers, ConstantsAssumption, FieldsKept
      DEF Next, InductiveInvariant, TypeOK, CountsTypeOK
  <1>2. CritiqueSound(st, published')
    BY <1>1, CritiqueSoundGrows DEF Next
  <1>3. ASSUME FeedbackDone
        PROVE  /\ Counted(st') /\ Posted(st') /\ st'.next = "rank"
    <2>1. /\ st'.critiqued = st.critiqued \cup Targets /\ st'.found = st.found
          /\ st'.violations = st.violations \cup {<<"feedback", s>> : s \in local.failed}
          /\ local.posted = Len(st.found.targets) /\ published' = published
          /\ st'.next = "rank"
      BY <1>1, <1>3 DEF FeedbackDone, Commit, GraphState
    <2>2. DOMAIN st.found.targets = 1 .. Len(st.found.targets)
      BY <1>1 DEF GraphState, Discovery
    <2>3. \A i \in DOMAIN st.found.targets : Noted(st.found.targets[i], st')
      BY <2>1, <2>2 DEF PostsSound, Held
    <2>4. \A seller \in Targets : Noted(seller, st')
      BY <2>2, <2>3 DEF Targets
    <2>. QED BY <1>1, <1>2, <2>1, <2>3, <2>4 DEF CritiqueSound
  <1>4. ASSUME Rank, ~UNCHANGED st
        PROVE  st.next = "rank" /\ (st'.violations = {} => Ranked)
    <2>1. PICK outcome \in Outcomes :
            /\ Attempt(<<"ranking", NoSubject, 0>>, outcome)
            /\ \/ UNCHANGED st
               \/ st' = [st EXCEPT
                    !.ranked = IF outcome = "ok" THEN st.found.targets # <<>> ELSE @,
                    !.violations = IF outcome = "ok" THEN @
                                   ELSE @ \cup {<<"ranking", NoSubject>>},
                    !.next = IF st.mode = "critique" THEN "audit" ELSE "plan_market"]
      BY <1>4 DEF Rank, Commit
    <2>2. outcome # "ok" => <<"ranking", NoSubject>> \in st'.violations
      <3>1. st' = [st EXCEPT
                    !.ranked = IF outcome = "ok" THEN st.found.targets # <<>> ELSE @,
                    !.violations = IF outcome = "ok" THEN @
                                   ELSE @ \cup {<<"ranking", NoSubject>>},
                    !.next = IF st.mode = "critique" THEN "audit" ELSE "plan_market"]
        BY <1>4, <2>1
      <3>2. outcome # "ok" => st'.violations = st.violations \cup {<<"ranking", NoSubject>>}
        BY <1>1, <3>1 DEF GraphState
      <3>. QED BY <3>2
    <2>3. outcome = "ok" => Ranked
      BY <1>1, <2>1, AttemptEffect
    <2>. QED BY <1>4, <2>2, <2>3 DEF Rank, Runs
  <1>5. ASSUME ~FeedbackDone, ~Rank, st'.next \in {"rank"} \cup AfterRanking,
               st'.mode # "market"
        PROVE  \/ UNCHANGED st
               \/ st.next \in AfterRanking /\ st'.next \in AfterRanking /\ ~Discover
               \/ st'.next = "audit" /\ st'.found.targets = <<>> /\ st'.violations # {}
    <2>1. CASE Discover
      <3>1. PICK d \in Discoveries :
              LET short == st.mode # "market" /\ d.targets = <<>> IN
              st' = [st EXCEPT
                !.found = [d EXCEPT !.targets = IF st.mode = "market" THEN <<>> ELSE @],
                !.violations = IF short THEN @ \cup {<<"targets", NoSubject>>} ELSE @,
                !.next = CASE st.mode = "market" -> "plan_market"
                           [] short -> "audit"
                           [] OTHER -> "evaluate_services"]
        BY <2>1 DEF Discover, Commit
      <3>2. st.mode # "market"
        BY <1>1, <1>5
      <3>3. CASE d.targets # <<>>
        <4>1. st'.next = "evaluate_services"
          BY <1>1, <3>1, <3>2, <3>3 DEF GraphState
        <4>. QED BY <1>5, <4>1 DEF AfterRanking, BuyingNodes, CycleNodes
      <3>4. CASE d.targets = <<>>
        <4>1. st'.next = "audit"
          BY <1>1, <3>1, <3>2, <3>4 DEF GraphState
        <4>2. st'.found = [d EXCEPT !.targets = d.targets]
          BY <1>1, <3>1, <3>2 DEF GraphState
        <4>3. st'.found.targets = <<>>
          BY <3>4, <4>2, ConstantsAssumption DEF Discovery
        <4>4. <<"targets", NoSubject>> \in st'.violations
          BY <1>1, <3>1, <3>2, <3>4 DEF GraphState
        <4>. QED BY <4>1, <4>3, <4>4
      <3>. QED BY <3>3, <3>4
    <2>2. CASE Prepare \/ EvaluateServices
      <3>1. st'.next \in {"discover", "publish_required_feedback"}
        BY <1>1, <2>2 DEF Prepare, EvaluateServices, Commit, GraphState
      <3>. QED BY <1>5, <3>1 DEF AfterRanking, BuyingNodes, CycleNodes
    <2>3. CASE PlanMarket \/ Audit
      <3>1. /\ st.next \in {"plan_market", "audit"}
            /\ st'.next \in {"prepare_purchase", "audit", "complete"}
        BY <1>1, <2>3 DEF PlanMarket, Audit, Runs, Commit, GraphState
      <3>2. ~Discover
        BY <3>1 DEF Discover, Runs
      <3>. QED BY <3>1, <3>2 DEF AfterRanking, BuyingNodes
    <2>4. CASE PreparePurchase \/ ExecuteAlreadySubmitted \/ RecordPurchase
      <3>1. st.next \in BuyingNodes
        BY <2>4 DEF PreparePurchase, ExecuteAlreadySubmitted, RecordPurchase, Runs,
          BuyingNodes, CycleNodes
      <3>2. st.next # "discover"
        BY <3>1 DEF BuyingNodes, CycleNodes
      <3>3. ~Discover
        BY <3>2 DEF Discover, Runs
      <3>4. st'.next \in {"audit"} \cup BuyingNodes
        BY <1>1, <2>4 DEF PreparePurchase, ExecuteAlreadySubmitted, RecordPurchase,
          Recorded, AfterPreparation, Commit, GraphState, BuyingNodes, CycleNodes
      <3>. QED BY <3>1, <3>3, <3>4 DEF AfterRanking
    <2>5. CASE BuyReturnsReceipt \/ BuyRefused \/ BuyTransportFails
               \/ ReconcilePurchase \/ ReconcileUnavailable
      <3>1. st.next \in CycleNodes
        BY <2>5, BuyingTyped DEF BuyReturnsReceipt, BuyRefused, BuyTransportFails,
          ReconcilePurchase, ReconcileUnavailable, Runs, CycleNodes
      <3>2. st.next # "discover"
        BY <3>1 DEF CycleNodes
      <3>3. ~Discover
        BY <3>2 DEF Discover, Runs
      <3>4. st'.next \in CycleNodes
        BY <1>1, <2>5 DEF BuyReturnsReceipt, BuyRefused, BuyTransportFails,
          ReconcilePurchase, ReconcileUnavailable, Conclude, Commit, GraphState, CycleNodes
      <3>. QED BY <3>1, <3>3, <3>4 DEF AfterRanking, BuyingNodes
    <2>6. CASE DiscoverRaises \/ PostCritique \/ PreparePurchaseRaises \/ ExecutePurchase
      BY <2>6 DEF DiscoverRaises, PostCritique, PreparePurchaseRaises, ExecutePurchase
    <2>. QED BY <1>5, <2>1, <2>2, <2>3, <2>4, <2>5, <2>6
           DEF GraphStep, CritiqueStep, PurchaseStep
  <1>6. Counted(st')
    <2>1. CASE ~FeedbackDone
      <3>1. st'.critiqued = st.critiqued
        BY <2>1, FieldsKept
      <3>. QED BY <1>1, <1>2, <3>1 DEF CritiqueSound
    <2>. QED BY <1>3, <2>1
  <1>7. st'.next \in {"rank"} \cup AfterRanking /\ st'.mode # "market" => Posted(st')
    <2>. SUFFICES ASSUME st'.next \in {"rank"} \cup AfterRanking, st'.mode # "market"
                  PROVE  Posted(st')
      OBVIOUS
    <2>1. CASE st.next \in {"rank"} \cup AfterRanking /\ st'.found = st.found
      BY <1>1, <1>2, <2>1 DEF CritiqueSound
    <2>2. CASE Rank
      <3>1. st.next = "rank" /\ ~Discover
        BY <2>2 DEF Rank, Discover, Runs
      <3>. QED BY <2>1, <3>1, FieldsKept
    <2>3. CASE st'.found.targets = <<>>
      BY <2>3
    <2>. QED BY <1>3, <1>5, <2>1, <2>2, <2>3, FieldsKept
  <1>8. Behind(st') /\ st'.violations = {} => Ranked
    <2>. SUFFICES ASSUME Behind(st'), st'.violations = {} PROVE Ranked
      OBVIOUS
    <2>1. CASE st.next \in AfterRanking
      BY <1>1, <1>2, <2>1 DEF CritiqueSound
    <2>2. "rank" \notin AfterRanking
      BY DEF AfterRanking, BuyingNodes, CycleNodes
    <2>. QED BY <1>3, <1>4, <1>5, <2>1, <2>2
  <1>9. st'.next = "complete" /\ st'.report = "valid" /\ st'.mode # "market" =>
          st'.tried \subseteq st'.critiqued
    <2>1. CASE Audit
      <3>1. /\ st'.tried = st.tried /\ st'.critiqued = st.critiqued
            /\ st'.report = "valid" =>
                 {v \in {<<"critique_floor", NoSubject>>} :
                    st.mode # "market" /\ ~CritiqueCompliant} = {}
        BY <1>1, <2>1 DEF Audit, Commit, GraphState
      <3>. QED BY <1>1, <3>1 DEF CritiqueCompliant
    <2>2. CASE UNCHANGED st
      BY <1>2, <2>2 DEF CritiqueSound
    <2>. QED BY <2>1, <2>2, FieldsKept
  <1>. QED BY <1>6, <1>7, <1>8, <1>9 DEF CritiqueSound

\* Wherever a run starts, what it counts was sound before or carried in.
LEMMA CritiqueStarted ==
  ASSUME NEW x \in GraphState, NEW items, CritiqueSound(x, items), NEW s \in Started(x)
  PROVE  CritiqueSound(s, items)
  <1>1. /\ s.next = "prepare" /\ s.violations = x.violations
        /\ s.critiqued = x.critiqued \/ s.critiqued \subseteq CarriedCritiques
    BY StartedFields DEF CarriedCritiques
  <1>2. s.next \notin {"rank"} \cup AfterRanking
    BY <1>1 DEF AfterRanking, BuyingNodes, CycleNodes
  <1>3. s.next \notin AfterRanking /\ s.next # "complete"
    BY <1>1, <1>2
  <1>. QED BY <1>1, <1>2, <1>3 DEF CritiqueSound

\* Every critique that a state counts is carried in, in the Arena or a violation.
THEOREM CritiqueInvariance == Spec => []CritiqueInvariant
  <1>1. Init => CritiqueInvariant
    <2>. SUFFICES ASSUME Init PROVE CritiqueInvariant
      OBVIOUS
    <2>1. Snapshots = {st} /\ st \in Started(FreshState) /\ local = IdleNode
      BY DEF Init, Snapshots
    <2>2. CritiqueSound(FreshState, published)
      BY DEF CritiqueSound, FreshState, AfterRanking, BuyingNodes, CycleNodes
    <2>3. CritiqueSound(st, published)
      BY <2>1, <2>2, FreshTyped, CritiqueStarted
    <2>4. st.found = FreshState.found
      BY <2>1, FreshTyped, StartedFields
    <2>5. PostsSound
      BY <2>1, <2>4 DEF PostsSound, IdleNode, FreshState
    <2>. QED BY <2>1, <2>3, <2>5 DEF CritiqueInvariant
  <1>2. ASSUME InductiveInvariant, CritiqueInvariant, [Next]_vars PROVE CritiqueInvariant'
    <2>1. /\ PostsSound /\ CritiqueSound(st, published) /\ CritiqueSound(saved, published)
          /\ saved \in GraphState
      BY <1>2 DEF CritiqueInvariant, Snapshots, InductiveInvariant, TypeOK, ClientTypeOK
    <2>2. CritiqueSound(st, published') /\ CritiqueSound(saved, published')
      BY <1>2, <2>1, CritiqueSoundGrows
    <2>3. CritiqueSound(st', published')
      <3>1. CASE GraphStep
        BY <1>2, <2>1, <3>1, CritiqueCommitted
      <3>2. CASE st' \in Started(saved)
        BY <2>1, <2>2, <3>2, CritiqueStarted
      <3>. QED BY <1>2, <2>2, <3>1, <3>2, OtherSteps
    <2>4. \A x \in Snapshots : CritiqueSound(x, published')
      BY <1>2, CritiqueSoundGrows DEF CritiqueInvariant
    <2>5. PostsSound'
      BY <1>2, <2>1, PostsStay
    <2>. QED BY <1>2, <2>3, <2>4, <2>5, SnapshotsMove DEF CritiqueInvariant
  <1>3. InductiveInvariant /\ CritiqueInvariant /\ [Next]_vars => CritiqueInvariant'
    BY <1>2
  <1>. QED BY <1>1, <1>3, Invariance, PTL DEF Spec

\* A run that publishes feedback is reported valid only if the Arena holds the ranking
\* and the critique of every target, and of every other product tried unless the
\* progress carried in had counted it.
THEOREM ValidCritiqueAlwaysPublished == Spec => []ValidCritiqueIsPublished
  <1>1. ASSUME InductiveInvariant, CritiqueInvariant, st.next = "complete",
               st.report = "valid", st.mode # "market"
        PROVE  /\ \A s \in Targets \cup (st.tried \ CarriedCritiques) :
                    \E item \in published : item[1] = "feedback" /\ item[2] = s
               /\ <<"ranking", NoSubject, 0>> \in published
    <2>1. st.violations = {} /\ CritiqueSound(st, published) /\ st \in GraphState
      BY <1>1, RunningSound DEF Sound, CritiqueInvariant, Snapshots
    <2>2. st.next \in AfterRanking
      BY <1>1 DEF AfterRanking
    <2>3. \A s \in Targets : Held(s, published)
      <3>1. DOMAIN st.found.targets = 1 .. Len(st.found.targets)
        BY <2>1 DEF GraphState, Discovery
      <3>2. \A i \in DOMAIN st.found.targets : Held(st.found.targets[i], published)
        BY <1>1, <2>1, <2>2 DEF CritiqueSound
      <3>. QED BY <3>1, <3>2 DEF Targets
    <2>4. \A s \in st.tried \ CarriedCritiques : Held(s, published)
      BY <1>1, <2>1 DEF CritiqueSound
    <2>5. <<"ranking", NoSubject, 0>> \in published
      BY <1>1, <2>1, <2>2 DEF CritiqueSound
    <2>. QED BY <2>3, <2>4, <2>5 DEF Held
  <1>2. InductiveInvariant /\ CritiqueInvariant => ValidCritiqueIsPublished
    BY <1>1 DEF ValidCritiqueIsPublished
  <1>. QED BY <1>2, Invariance, CritiqueInvariance, PTL

-----------------------------------------------------------------------------
(* One lost exchange.                                                        *)

\* The state counts no lost exchange as a violation.
NoLossCounted(s) == \A v \in s.violations : v[1] \notin {"feedback", "ranking"}

\* A node of the graph keeps it so: its only lost attempt is a first one.
LEMMA LossStep ==
  ASSUME BuiltinErrors, "refused" \notin ArenaFaults,
         InductiveInvariant, LossInvariant, GraphStep, losses' =< 1
  PROVE  NoLossCounted(st')
  <1>1. st \in GraphState /\ losses \in Nat /\ local \in LocalType
    BY RunningSound, ConstantsAssumption
      DEF InductiveInvariant, TypeOK, ClientTypeOK, CountsTypeOK, LocalType
  <1>2. losses =< losses'
    BY ArenaRemembers DEF Next
  <1>3. losses =< 1
    <2>1. losses' \in Nat
      BY NextSafe, ConstantsAssumption DEF Next, InductiveInvariant, TypeOK, CountsTypeOK
    <2>. QED BY <1>1, <1>2, <2>1
  <1>4. local.failed = {} /\ NoLossCounted(st)
    BY <1>3 DEF LossInvariant, Snapshots, NoLossCounted
  <1>5. CASE FeedbackDone
    <2>1. st'.violations = st.violations \cup {<<"feedback", s>> : s \in local.failed}
      BY <1>1, <1>5 DEF FeedbackDone, Commit, GraphState
    <2>. QED BY <1>4, <2>1 DEF NoLossCounted
  <1>6. CASE Rank
    <2>1. PICK outcome \in Outcomes :
            /\ Attempt(<<"ranking", NoSubject, 0>>, outcome)
            /\ UNCHANGED st \/ ~Retries(outcome)
            /\ outcome = "ok" => st'.violations = st.violations
      BY <1>1, <1>6 DEF Rank, Commit, GraphState
    <2>2. CASE UNCHANGED st
      BY <1>4, <2>2 DEF NoLossCounted
    <2>3. CASE outcome = "lost" /\ ~Retries(outcome)
      <3>1. local.attempt # 1 /\ losses' = losses + 1
        BY <1>1, <2>1, <2>3, AttemptEffect DEF Retries
      <3>2. local.attempt = 2
        BY <1>1, <3>1 DEF LocalType
      <3>. QED BY <1>1, <3>1, <3>2 DEF LossInvariant
    <2>4. outcome # "refused"
      BY <1>1, <2>1, AttemptEffect
    <2>5. CASE outcome = "ok"
      BY <1>4, <2>1, <2>5 DEF NoLossCounted
    <2>. QED BY <2>1, <2>2, <2>3, <2>4, <2>5 DEF Outcomes
  <1>7. CASE ~(FeedbackDone \/ Rank)
    BY <1>4, <1>7, FieldsKept DEF NoLossCounted
  <1>. QED BY <1>5, <1>6, <1>7

\* The attempt the running node is at, and what it has failed to post.
LEMMA LossLocal ==
  ASSUME BuiltinErrors, "refused" \notin ArenaFaults,
         InductiveInvariant, LossInvariant, [Next]_vars
  PROVE  /\ local'.attempt = 2 => losses' >= 1
         /\ losses' =< 1 => local'.failed = {}
  <1>1. /\ local \in LocalType /\ losses \in Nat /\ losses' \in Nat /\ losses =< losses'
    BY RunningSound, ArenaRemembers, NextSafe, ConstantsAssumption
      DEF InductiveInvariant, TypeOK, ClientTypeOK, CountsTypeOK, LocalType
  <1>2. /\ local.attempt = 2 => losses >= 1
        /\ losses =< 1 => local.failed = {}
    BY DEF LossInvariant
  <1>3. CASE local' = IdleNode
    BY <1>3 DEF IdleNode
  <1>4. CASE UNCHANGED <<st, local>>
    BY <1>1, <1>2, <1>4
  <1>5. CASE UNCHANGED st /\ local' = [local EXCEPT !.buying = TRUE]
    <2>1. local'.attempt = local.attempt /\ local'.failed = local.failed
      BY <1>1, <1>5 DEF LocalType
    <2>. QED BY <1>1, <1>2, <2>1
  <1>6. CASE Rank /\ local' = [local EXCEPT !.attempt = 2] /\ UNCHANGED st
    <2>1. local'.failed = local.failed
      BY <1>1, <1>6 DEF LocalType
    <2>2. PICK outcome \in Outcomes :
            /\ Attempt(<<"ranking", NoSubject, 0>>, outcome)
            /\ Retries(outcome) \/ local' = IdleNode
      BY <1>6 DEF Rank, Commit
    <2>3. CASE Retries(outcome)
      <3>1. losses' = losses + 1
        BY <1>1, <2>2, <2>3, AttemptEffect DEF Retries
      <3>. QED BY <1>1, <1>2, <2>1, <3>1
    <2>. QED BY <1>3, <2>2, <2>3
  <1>7. CASE PostCritique
    <2>. DEFINE seller == st.found.targets[local.posted + 1]
    <2>1. PICK outcome \in Outcomes :
            /\ Attempt(<<"feedback", seller, local.posted>>, outcome)
            /\ IF Retries(outcome)
               THEN local'.attempt = 2 /\ local'.failed = local.failed
               ELSE /\ local'.attempt = 1
                    /\ local'.failed = IF outcome = "ok" THEN local.failed
                                       ELSE local.failed \cup {seller}
      BY <1>7, PostEffect
    <2>2. /\ outcome = "lost" => losses' = losses + 1
          /\ outcome # "refused"
      BY <1>1, <2>1, AttemptEffect
    <2>3. CASE Retries(outcome)
      BY <1>1, <1>2, <2>1, <2>2, <2>3 DEF Retries
    <2>4. CASE ~Retries(outcome) /\ outcome = "ok"
      BY <1>1, <1>2, <2>1, <2>4
    <2>5. CASE ~Retries(outcome) /\ outcome = "lost"
      <3>1. local.attempt = 2
        BY <1>1, <2>5 DEF Retries, LocalType
      <3>. QED BY <1>1, <1>2, <2>1, <2>2, <2>5, <3>1
    <2>. QED BY <2>1, <2>2, <2>3, <2>4, <2>5 DEF Outcomes
  <1>. QED BY <1>3, <1>4, <1>5, <1>6, <1>7, LocalMoves

\* With a client whose failures retry_idempotent knows, and an Arena that refuses
\* nothing, a single lost exchange never costs a critique or the ranking.
THEOREM OneLossIsAbsorbed ==
  ASSUME BuiltinErrors, "refused" \notin ArenaFaults
  PROVE  Spec => []OneLossIsRetried
  <1>1. Init => LossInvariant
    <2>. SUFFICES ASSUME Init PROVE LossInvariant
      OBVIOUS
    <2>1. Snapshots = {st} /\ st \in Started(FreshState) /\ local = IdleNode
      BY DEF Init, Snapshots
    <2>2. st.violations = {}
      BY <2>1, FreshTyped, StartedFields DEF FreshState
    <2>. QED BY <2>1, <2>2 DEF LossInvariant, IdleNode
  <1>2. ASSUME InductiveInvariant, LossInvariant, [Next]_vars PROVE LossInvariant'
    <2>1. /\ losses' \in Nat /\ losses \in Nat /\ losses =< losses'
          /\ saved \in GraphState
      BY <1>2, ArenaRemembers, NextSafe, ConstantsAssumption
        DEF InductiveInvariant, TypeOK, ClientTypeOK, CountsTypeOK
    <2>2. ASSUME losses' =< 1, NEW x \in Snapshots' PROVE NoLossCounted(x)
      <3>1. losses =< 1
        BY <2>1, <2>2
      <3>2. \A s \in Snapshots : NoLossCounted(s)
        BY <1>2, <3>1 DEF LossInvariant, NoLossCounted
      <3>3. NoLossCounted(st')
        <4>1. CASE GraphStep
          BY <1>2, <2>2, <4>1, LossStep
        <4>2. NoLossCounted(st) /\ NoLossCounted(saved)
          BY <3>2 DEF Snapshots
        <4>3. CASE st' \in Started(saved)
          <5>1. st'.violations = saved.violations
            BY <2>1, <4>3, StartedFields
          <5>. QED BY <4>2, <5>1 DEF NoLossCounted
        <4>. QED BY <1>2, <4>1, <4>2, <4>3, OtherSteps
      <3>. QED BY <1>2, <3>2, <3>3, <2>2, SnapshotsMove
    <2>. QED BY <1>2, <2>2, LossLocal DEF LossInvariant, NoLossCounted
  <1>3. InductiveInvariant /\ LossInvariant /\ [Next]_vars => LossInvariant'
    BY <1>2
  <1>4. LossInvariant => OneLossIsRetried
    BY DEF LossInvariant, OneLossIsRetried
  <1>. QED BY <1>1, <1>3, <1>4, Invariance, PTL DEF Spec

-----------------------------------------------------------------------------
(* The checkpoint on disk never forgets.  The argument: along the checkpoint  *)
(* on disk, those on their way to it and the running state, receipts and      *)
(* violations only accumulate, the receipts one at a time, except where a     *)
(* caller of run_round passes another progress.                               *)

\* A node commits a state that keeps the receipts and violations it found, and
\* counts at most one receipt more.
LEMMA NodesAccumulate ==
  ASSUME InductiveInvariant, GraphStep
  PROVE  Older(st, st')
  <1>1. st.violations \subseteq st'.violations
    BY FieldsKept
  <1>2. st.receipts \subseteq st'.receipts /\ \A q, r \in st'.receipts \ st.receipts : q = r
    <2>1. CASE RecordPurchase
      BY <2>1, RecordCounts
    <2>2. CASE ~RecordPurchase
      BY <2>2, FieldsKept
    <2>. QED BY <2>1, <2>2
  <1>. QED BY <1>1, <1>2 DEF Older

\* A commit of a state no older than the running one extends the chain.
LEMMA CommitChains ==
  ASSUME ClientTypeOK, Chain, Commit(st'), Older(st, st')
  PROVE  Chain'
  <1>1. /\ unsaved \in Seq(GraphState) /\ unsaved' = Append(unsaved, st')
        /\ saved' = saved
    BY DEF ClientTypeOK, Commit
  <1>. DEFINE n == Len(unsaved)
  <1>2. /\ n \in Nat /\ Len(unsaved') = n + 1 /\ unsaved' # <<>>
        /\ unsaved'[n + 1] = st' /\ \A i \in 1 .. n : unsaved'[i] = unsaved[i]
    BY <1>1
  <1>3. CASE n = 0
    <2>1. unsaved = <<>>
      BY <1>1, <1>3
    <2>2. Older(saved', unsaved'[1]) /\ 1 .. Len(unsaved') - 1 = {}
      BY <1>1, <1>2, <1>3, <2>1 DEF Chain
    <2>. QED BY <1>2, <2>2 DEF Chain
  <1>4. CASE n > 0
    <2>1. unsaved # <<>> /\ st = unsaved[n]
      BY <1>4 DEF Chain
    <2>2. Older(saved', unsaved'[1])
      BY <1>1, <1>2, <1>4, <2>1 DEF Chain
    <2>3. \A i \in 1 .. n : Older(unsaved'[i], unsaved'[i + 1])
      <3>. SUFFICES ASSUME NEW i \in 1 .. n PROVE Older(unsaved'[i], unsaved'[i + 1])
        OBVIOUS
      <3>1. CASE i = n
        BY <1>2, <2>1, <3>1
      <3>2. CASE i < n
        BY <1>2, <3>2 DEF Chain
      <3>. QED BY <1>2, <3>1, <3>2
    <2>. QED BY <1>2, <2>2, <2>3 DEF Chain
  <1>. QED BY <1>2, <1>3, <1>4

\* A save takes the first state off the chain.
LEMMA SaveChains ==
  ASSUME ClientTypeOK, Chain, SaveCheckpoint
  PROVE  Chain' /\ Older(saved, saved') /\ saved' \in Snapshots
  <1>1. /\ unsaved \in Seq(GraphState) /\ unsaved # <<>>
        /\ saved' = Head(unsaved) /\ unsaved' = Tail(unsaved) /\ st' = st
    BY DEF SaveCheckpoint, ClientTypeOK, clientVars
  <1>2. /\ saved' = unsaved[1] /\ Len(unsaved') = Len(unsaved) - 1
        /\ \A i \in 1 .. Len(unsaved') : unsaved'[i] = unsaved[i + 1]
        /\ Len(unsaved) \in Nat \ {0}
    BY <1>1
  <1>3. Older(saved, saved') /\ saved' \in Snapshots
    BY <1>1, <1>2 DEF Chain, Snapshots
  <1>4. CASE Len(unsaved) = 1
    <2>1. unsaved' = <<>> /\ st' = saved'
      BY <1>1, <1>2, <1>4 DEF Chain
    <2>2. 1 .. Len(unsaved') - 1 = {}
      BY <2>1
    <2>. QED BY <1>3, <2>1, <2>2 DEF Chain
  <1>5. CASE Len(unsaved) > 1
    <2>1. unsaved' # <<>> /\ unsaved'[Len(unsaved')] = unsaved[Len(unsaved)]
      BY <1>1, <1>2, <1>5
    <2>2. Older(saved', unsaved'[1])
      BY <1>2, <1>5 DEF Chain
    <2>3. \A i \in 1 .. Len(unsaved') - 1 : Older(unsaved'[i], unsaved'[i + 1])
      BY <1>2 DEF Chain
    <2>4. st' = unsaved'[Len(unsaved')]
      BY <1>1, <2>1 DEF Chain
    <2>. QED BY <1>3, <2>1, <2>2, <2>3, <2>4 DEF Chain
  <1>. QED BY <1>2, <1>4, <1>5

\* A round goes on from all the checkpoint holds, or from the caller's progress.
LEMMA StartedOlder ==
  ASSUME NEW x \in GraphState, NEW s \in Started(x)
  PROVE  Older(x, s)
  BY StartedFields DEF Older, Replaced

\* Every step keeps the chain, and only a save moves the checkpoint on disk.
LEMMA ChainKept ==
  ASSUME InductiveInvariant, Chain, [Next]_vars
  PROVE  Chain' /\ (saved' = saved \/ SaveCheckpoint)
  <1>1. CASE UNCHANGED <<st, durableVars>>
    BY <1>1 DEF Chain, durableVars
  <1>2. CASE GraphStep
    <2>1. CASE Commit(st')
      <3>1. Chain'
        BY <1>2, <2>1, NodesAccumulate, RunningSound, CommitChains
      <3>. QED BY <2>1, <3>1 DEF Commit
    <2>. QED BY <1>1, <1>2, <2>1, NodeCommits DEF durableVars
  <1>3. CASE SaveCheckpoint
    BY <1>3, RunningSound, SaveChains
  <1>4. CASE Stop \/ Resume
    <2>1. unsaved' = <<>> /\ st' = saved' /\ saved' = saved
      BY <1>4 DEF Stop, Resume, durableVars
    <2>2. 1 .. Len(unsaved') - 1 = {}
      BY <2>1
    <2>. QED BY <2>1, <2>2 DEF Chain
  <1>5. CASE RunRoundAgain
    <2>1. saved \in GraphState
      BY DEF InductiveInvariant, TypeOK, ClientTypeOK
    <2>2. saved' = saved /\ st' \in Started(saved) /\ unsaved' = <<st'>>
      BY <1>5 DEF RunRoundAgain
    <2>3. Older(saved, st')
      BY <2>1, <2>2, StartedOlder
    <2>4. unsaved' # <<>> /\ unsaved'[1] = st' /\ Len(unsaved') = 1
      BY <2>2
    <2>5. 1 .. Len(unsaved') - 1 = {}
      BY <2>4
    <2>. QED BY <2>2, <2>3, <2>4, <2>5 DEF Chain
  <1>. QED BY <1>1, <1>2, <1>3, <1>4, <1>5
         DEF Next, ArenaStep, ArenaSettles, ArenaRefuses, ArenaLoses, ArenaAnswers,
           Terminated, vars, clientVars, durableVars

\* So the chain holds of every run.
LEMMA ChainInvariance == Spec => []Chain
  <1>1. Init => Chain
    BY DEF Init, Chain
  <1>2. InductiveInvariant /\ Chain /\ [Next]_vars => Chain'
    BY ChainKept
  <1>. QED BY <1>1, <1>2, Invariance, PTL DEF Spec

\* Nothing takes a violation out of the checkpoint on disk, a second run_round with
\* whatever progress and mode included; and neither a save, nor a crash, nor a resume,
\* nor a run_round without a progress takes out a receipt.
THEOREM CheckpointAccumulates == Spec => CheckpointNeverForgets
  <1>1. InductiveInvariant /\ Chain /\ [Next]_vars =>
          [/\ saved.violations \subseteq saved'.violations
           /\ saved.receipts \subseteq saved'.receipts \/ Replaced(saved')]_vars
    BY ChainKept, SaveChains, RunningSound DEF Older
  <1>. QED BY <1>1, ChainInvariance, Invariance, PTL DEF Spec, CheckpointNeverForgets

-----------------------------------------------------------------------------
(* A service is not paid more often than a plan orders it, as long as plans   *)
(* order the same services, or a run cannot fall back behind its plan.        *)

Planned == BuyingNodes \cup {"audit", "complete"}

\* The purchases in the journal are those of the plan that is being bought.
PlanIsJournalled(s) ==
  \A k \in PurchaseKeys :
    journal[k].status # "absent" => k \in KeysOf(s.plan) /\ s.next \in Planned

\* A run that has a plan to buy keeps it.
LEMMA PlanIsKept ==
  ASSUME InductiveInvariant, GraphStep, st.next \in Planned
  PROVE  st'.plan = st.plan /\ st'.next \in Planned
  <1>1. st \in GraphState
    BY RunningSound
  <1>2. st.next \notin {"prepare", "discover", "evaluate_services",
                        "publish_required_feedback", "rank", "plan_market"}
    BY DEF Planned, BuyingNodes, CycleNodes
  <1>3. ~(Prepare \/ Discover \/ PlanMarket \/ EvaluateServices \/ FeedbackDone \/ Rank)
    BY <1>2 DEF Prepare, Discover, PlanMarket, EvaluateServices, FeedbackDone, Rank, Runs
  <1>4. CASE Audit
    BY <1>1, <1>4 DEF Audit, Commit, GraphState, Planned
  <1>5. CASE PreparePurchase \/ ExecuteAlreadySubmitted
    BY <1>1, <1>5 DEF PreparePurchase, ExecuteAlreadySubmitted, AfterPreparation, Commit,
      GraphState, Planned, BuyingNodes, CycleNodes
  <1>6. CASE BuyReturnsReceipt \/ BuyRefused \/ BuyTransportFails
             \/ ReconcilePurchase \/ ReconcileUnavailable
    BY <1>1, <1>6 DEF BuyReturnsReceipt, BuyRefused, BuyTransportFails, ReconcilePurchase,
      ReconcileUnavailable, Conclude, Commit, GraphState, Planned, BuyingNodes, CycleNodes
  <1>7. CASE RecordPurchase
    BY <1>1, <1>7 DEF RecordPurchase, Recorded, Commit, GraphState, Planned, BuyingNodes
  <1>8. CASE DiscoverRaises \/ PostCritique \/ PreparePurchaseRaises \/ ExecutePurchase
    BY <1>8 DEF DiscoverRaises, PostCritique, PreparePurchaseRaises, ExecutePurchase
  <1>. QED BY <1>3, <1>4, <1>5, <1>6, <1>7, <1>8 DEF GraphStep, CritiqueStep, PurchaseStep

\* If every checkpoint is on disk before the next node runs, and run_round is called
\* once, no checkpoint is behind the plan whose purchases are in the journal.
LEMMA SyncedPlanInvariance ==
  ASSUME MaxLag = 0, MaxReruns = 0
  PROVE  Spec => [](\A s \in Snapshots : PlanIsJournalled(s))
  <1>. DEFINE Inv == \A s \in Snapshots : PlanIsJournalled(s)
  <1>1. Init => Inv
    BY DEF Init, Journal!Init, Journal!Absent, PlanIsJournalled
  <1>2. ASSUME InductiveInvariant, Chain, Inv, [Next]_vars PROVE Inv'
    <2>1. PlanIsJournalled(st) /\ PlanIsJournalled(saved)
      BY <1>2 DEF Snapshots
    <2>2. ~RunRoundAgain
      BY <1>2 DEF RunRoundAgain, InductiveInvariant, TypeOK, CountsTypeOK
    <2>3. CASE \E k \in PurchaseKeys :
                 journal[k].status = "absent" /\ journal'[k].status # "absent"
      <3>1. PreparePurchase
        BY <1>2, <2>3, JournalledByPrepare
      <3>2. unsaved = <<>> /\ st.next \in Planned /\ Len(unsaved') = 1
            /\ unsaved'[1] = st' /\ saved' = saved
        <4>1. unsaved \in Seq(GraphState) /\ Len(unsaved) =< 0 /\ st.next \in Planned
          BY <1>2, <3>1, RunningSound
            DEF PreparePurchase, Runs, ClientTypeOK, Planned, BuyingNodes
        <4>2. saved' = saved /\ unsaved' = Append(unsaved, st')
          BY <3>1 DEF PreparePurchase, Commit
        <4>. HIDE DEF GraphState
        <4>3. unsaved = <<>>
          BY <4>1
        <4>. QED BY <4>1, <4>2, <4>3
      <3>3. \A x \in Snapshots' : x = st \/ x = st'
        BY <1>2, <3>2 DEF Snapshots, Chain
      <3>4. st'.plan = st.plan /\ st'.next \in Planned
        BY <1>2, <3>1, <3>2, PlanIsKept DEF GraphStep, PurchaseStep
      <3>5. ASSUME NEW k \in PurchaseKeys, journal'[k].status # "absent"
            PROVE  k \in KeysOf(st.plan)
        BY <1>2, <2>1, <3>5, JournalledByPrepare DEF PlanIsJournalled
      <3>. QED BY <3>2, <3>3, <3>4, <3>5 DEF PlanIsJournalled
    <2>4. CASE \A k \in PurchaseKeys :
                 journal'[k].status # "absent" => journal[k].status # "absent"
      <3>1. \A x : PlanIsJournalled(x) => PlanIsJournalled(x)'
        BY <2>4 DEF PlanIsJournalled
      <3>2. PlanIsJournalled(st')
        <4>1. CASE GraphStep
          BY <1>2, <2>1, <4>1, PlanIsKept DEF PlanIsJournalled
        <4>2. CASE ~GraphStep
          <5>1. st' = st \/ st' = saved
            BY <1>2, <2>2, <4>2 DEF Next, ArenaStep, ArenaSettles, ArenaRefuses, ArenaLoses,
              ArenaAnswers, Terminated, vars, clientVars, SaveCheckpoint, Stop, Resume
          <5>. QED BY <2>1, <5>1
        <4>. QED BY <4>1, <4>2
      <3>3. ASSUME NEW x \in Snapshots' PROVE PlanIsJournalled(x)
        BY <1>2, <3>2, SnapshotsMove
      <3>. QED BY <2>4, <3>3 DEF PlanIsJournalled
    <2>. QED BY <2>3, <2>4
  <1>3. InductiveInvariant /\ Chain /\ Inv /\ [Next]_vars => Inv'
    BY <1>2
  <1>. QED BY <1>1, <1>3, Invariance, ChainInvariance, PTL DEF Spec

\* If every purchase the Arena has heard of is one of a plan, no service was paid more
\* often than that plan orders it.
LEMMA PaidAsPlanned ==
  ASSUME NEW d \in Discoveries, NEW s \in Services,
         \A k \in PurchaseKeys : arena[k] # "idle" => k \in KeysOf(d.plan)
  PROVE  Cardinality({i \in Positions : Paid(<<s, i>>)}) =<
           Cardinality({i \in DOMAIN d.plan : d.plan[i].service = s})
  <1>. DEFINE P == {i \in Positions : Paid(<<s, i>>)}
              O == {i \in DOMAIN d.plan : d.plan[i].service = s}
              f == [i \in P |-> i + 1]
  <1>1. d.plan \in Seq(PurchaseIntent) /\ DOMAIN d.plan = 1 .. Len(d.plan)
    BY ConstantsAssumption DEF Discovery, Plan
  <1>2. IsFiniteSet(DOMAIN d.plan)
    BY <1>1, FS_Interval
  <1>3. IsFiniteSet(O)
    BY <1>2, FS_Subset
  <1>4. \A i \in P : i \in Nat /\ i + 1 \in O
    <2>. SUFFICES ASSUME NEW i \in P PROVE i \in Nat /\ i + 1 \in O
      OBVIOUS
    <2>1. i \in Nat /\ <<s, i>> \in PurchaseKeys /\ arena[<<s, i>>] = "settled"
      BY ConstantsAssumption DEF Positions, PurchaseKeys, Paid
    <2>2. PICK j \in 0 .. Len(d.plan) - 1 : <<s, i>> = <<d.plan[j + 1].service, j>>
      BY <2>1 DEF KeysOf
    <2>3. i = j /\ d.plan[i + 1].service = s
      BY <2>2
    <2>. QED BY <1>1, <2>1, <2>2, <2>3
  <1>5. f \in Injection(P, O)
    BY <1>4 DEF Injection, IsInjective
  <1>. QED BY <1>3, <1>5, FS_Injection

\* A service is paid no more often than some plan orders it, whatever is lost, resumed
\* and faulted, if either every plan buys the same services in the same order (at
\* whatever prices, and any service as often as strategy.py likes), or every checkpoint
\* is saved before the next node runs and the round is not started over.
THEOREM ServicePaidOnce ==
  ASSUME SamePurchases \/ (MaxLag = 0 /\ MaxReruns = 0)
  PROVE  Spec => []NoDoublePay
  <1>1. ASSUME NEW k \in PurchaseKeys, arena[k] # "idle", InductiveInvariant
        PROVE  journal[k].status # "absent"
    BY <1>1 DEF InductiveInvariant, RemoteSound
  <1>2. ASSUME SamePurchases, InductiveInvariant, PlanInvariant PROVE NoDoublePay
    <2>1. PICK d \in Discoveries :
            \A k \in PurchaseKeys : arena[k] # "idle" => k \in KeysOf(d.plan)
      <3>1. CASE \A k \in PurchaseKeys : arena[k] = "idle"
        BY <3>1, ConstantsAssumption
      <3>2. CASE \E k \in PurchaseKeys : arena[k] # "idle"
        <4>1. PICK d \in Discoveries : d.plan # <<>>
          <5>1. PICK k \in PurchaseKeys, d \in Discoveries : k \in KeysOf(d.plan)
            BY <1>2, <3>2, HeardIsPlanned
          <5>. QED BY <5>1 DEF KeysOf
        <4>2. ASSUME NEW k \in PurchaseKeys, arena[k] # "idle"
              PROVE  k \in KeysOf(d.plan)
          <5>1. PICK e \in Discoveries : k \in KeysOf(e.plan)
            BY <1>2, <4>2, HeardIsPlanned
          <5>2. e.plan # <<>>
            BY <5>1 DEF KeysOf
          <5>. QED BY <1>2, <4>1, <5>1, <5>2 DEF SamePurchases
        <4>. QED BY <4>2
      <3>. QED BY <3>1, <3>2
    <2>. QED BY <2>1, PaidAsPlanned DEF NoDoublePay
  <1>3. ASSUME InductiveInvariant, PlanInvariant, PlanIsJournalled(st) PROVE NoDoublePay
    <2>1. PICK d \in Discoveries :
            \A k \in PurchaseKeys : arena[k] # "idle" => k \in KeysOf(d.plan)
      <3>1. CASE st.plan = <<>>
        BY <1>1, <1>3, <3>1, ConstantsAssumption DEF PlanIsJournalled, KeysOf
      <3>2. CASE st.plan # <<>>
        <4>1. PICK d \in Discoveries : d.plan = st.plan
          BY <1>3, <3>2 DEF PlanInvariant, PlanSound, Discovered, Snapshots
        <4>. QED BY <1>1, <1>3, <4>1 DEF PlanIsJournalled
      <3>. QED BY <3>1, <3>2
    <2>. QED BY <2>1, PaidAsPlanned DEF NoDoublePay
  <1>4. CASE SamePurchases
    <2>1. InductiveInvariant /\ PlanInvariant => NoDoublePay
      BY <1>2, <1>4
    <2>. QED BY <2>1, Invariance, PlanInvariance, PTL
  <1>5. CASE MaxLag = 0 /\ MaxReruns = 0
    <2>1. Spec => [](\A s \in Snapshots : PlanIsJournalled(s))
      BY <1>5, SyncedPlanInvariance
    <2>2. InductiveInvariant /\ PlanInvariant /\ (\A s \in Snapshots : PlanIsJournalled(s))
          => NoDoublePay
      BY <1>3 DEF Snapshots
    <2>. QED BY <2>1, <2>2, Invariance, PlanInvariance, PTL
  <1>. QED BY <1>4, <1>5

-----------------------------------------------------------------------------
(* The workflow implements PurchaseContract.                                 *)

\* Sending asks for a purchase that was not asked for before, and nothing else
\* but the Arena touches the requests or what became of them.
LEMMA AsksOnce ==
  ASSUME InductiveInvariant, [Next]_vars, ~ArenaStep
  PROVE  /\ \A k \in PurchaseKeys : Paid(k)' <=> Paid(k)
         /\ UNCHANGED trades
         /\ \/ UNCHANGED sends
            \/ \E k \in PurchaseKeys :
                 sends[k] = 0 /\ sends' = [sends EXCEPT ![k] = 1]
  <1>1. CASE ExecutePurchase
    <2>1. /\ st.pending \in PurchaseKeys /\ sends[st.pending] = 0
          /\ sends' = [sends EXCEPT ![st.pending] = 1] /\ trades' = trades
      <3>1. st.pending \in PurchaseKeys
        BY <1>1, PendingTyped DEF ExecutePurchase, Runs, CycleNodes
      <3>2. /\ journal[st.pending].status = "prepared"
            /\ sends' = [sends EXCEPT ![st.pending] = sends[st.pending] + 1]
            /\ trades' = trades
        BY <1>1 DEF ExecutePurchase
      <3>3. sends[st.pending] = 0
        BY <3>1, <3>2 DEF InductiveInvariant, RemoteSound
      <3>. QED BY <3>1, <3>2, <3>3
    <2>2. /\ arena \in [PurchaseKeys -> {"idle", "in_flight", "settled", "refused", "lost"}]
          /\ arena' = [arena EXCEPT ![st.pending] =
                         IF arena[st.pending] = "idle" THEN "in_flight" ELSE arena[st.pending]]
      BY <1>1 DEF InductiveInvariant, TypeOK, ArenaTypeOK, ExecutePurchase
    <2>3. \A k \in PurchaseKeys : arena'[k] = "settled" <=> arena[k] = "settled"
      BY <2>1, <2>2
    <2>. QED BY <2>1, <2>3 DEF Paid
  <1>2. CASE UNCHANGED <<arena, trades, sends>>
    BY <1>2 DEF Paid
  <1>. QED BY <1>1, <1>2
         DEF Next, GraphStep, CritiqueStep, PurchaseStep, Prepare, Discover,
           DiscoverRaises, PlanMarket, EvaluateServices, PostCritique, FeedbackDone, Rank,
           Audit, PreparePurchase, PreparePurchaseRaises, ExecuteAlreadySubmitted,
           BuyReturnsReceipt, BuyRefused, BuyTransportFails, ReconcilePurchase,
           ReconcileUnavailable, Conclude, RecordPurchase, SaveCheckpoint, Stop, Resume,
           RunRoundAgain, Terminated, vars, arenaVars

\* The Arena settles a purchase that was asked for, under its own trade or one it
\* has answered with before.
LEMMA SettlesAsked ==
  ASSUME InductiveInvariant, TradesAsked, NEW k \in PurchaseKeys, ArenaSettles(k)
  PROVE  \E t \in TradeReceipt :
           /\ t.trade \in PurchaseKeys /\ sends[t.trade] = 1
           /\ trades' = [trades EXCEPT ![k] = t]
           /\ arena' = [arena EXCEPT ![k] = "settled"]
           /\ arena[k] = "in_flight" /\ UNCHANGED <<sends, saved>>
  <1>1. /\ arena[k] = "in_flight" /\ arena' = [arena EXCEPT ![k] = "settled"]
        /\ UNCHANGED <<sends, saved>> /\ sends[k] = 1
    BY DEF ArenaSettles, ArenaAnswers, durableVars, InductiveInvariant, RemoteSound
  <1>2. PICK t \in TradesFor(k) : trades' = [trades EXCEPT ![k] = t]
    BY DEF ArenaSettles
  <1>3. ArenaTypeOK'
    BY ArenaStepSafe DEF ArenaStep, InductiveInvariant, TypeOK
  <1>4. trades \in [PurchaseKeys -> TradeReceipt \cup {NoReceipt}]
    BY DEF InductiveInvariant, TypeOK, ArenaTypeOK
  <1>5. trades'[k] = t /\ arena'[k] = "settled"
    BY <1>1, <1>2, <1>4 DEF InductiveInvariant, TypeOK, ArenaTypeOK
  <1>6. t \in TradeReceipt
    <2>1. InductiveInvariant'
      BY ArenaStepSafe DEF ArenaStep
    <2>2. t # NoReceipt
      BY <1>5, <2>1 DEF InductiveInvariant, RemoteSound
    <2>. QED BY <1>3, <1>5, <2>2 DEF ArenaTypeOK
  <1>7. \/ t.trade = k
        \/ \E j \in PurchaseKeys : arena[j] = "settled" /\ t.trade = trades[j].trade
    <2>. DEFINE intent == journal[k].intent
                honest == [trade |-> k, service |-> intent.service,
                           seller |-> intent.seller, amount |-> intent.price,
                           status |-> "paid"]
    <2>1. \/ t = honest
          \/ t = [honest EXCEPT !.status = "failed"]
          \/ \E a : t = [honest EXCEPT !.amount = a]
          \/ \E s : t = [honest EXCEPT !.seller = s]
          \/ \E s : t = [honest EXCEPT !.service = s]
          \/ \E j \in PurchaseKeys :
               arena[j] = "settled" /\ t = [honest EXCEPT !.trade = trades[j].trade]
      BY <1>2 DEF TradesFor
    <2>. HIDE DEF intent
    <2>. QED BY <2>1
  <1>8. t.trade \in PurchaseKeys /\ sends[t.trade] = 1
    <2>1. ASSUME NEW j \in PurchaseKeys, arena[j] = "settled", t.trade = trades[j].trade
          PROVE  sends[t.trade] = 1
      BY <2>1 DEF InductiveInvariant, RemoteSound, TradesAsked
    <2>. QED BY <1>1, <1>6, <1>7, <2>1 DEF TradeReceipt
  <1>. QED BY <1>1, <1>2, <1>6, <1>8

\* Every trade bears the name of a purchase that was sent.
LEMMA TradesAskedInvariance == Spec => []TradesAsked
  <1>1. Init => TradesAsked
    BY DEF Init, TradesAsked
  <1>2. ASSUME InductiveInvariant, TradesAsked, [Next]_vars PROVE TradesAsked'
    <2>1. /\ trades \in [PurchaseKeys -> TradeReceipt \cup {NoReceipt}]
          /\ sends \in [PurchaseKeys -> Nat]
      BY <1>2 DEF InductiveInvariant, TypeOK, ArenaTypeOK
    <2>2. CASE ~ArenaStep
      <3>1. ASSUME NEW k \in PurchaseKeys, trades[k] # NoReceipt
            PROVE  sends'[trades[k].trade] = 1
        <4>1. trades[k].trade \in PurchaseKeys /\ sends[trades[k].trade] = 1
          BY <1>2, <2>1, <3>1 DEF TradesAsked, TradeReceipt
        <4>. QED BY <1>2, <2>1, <2>2, <4>1, AsksOnce
      <3>. QED BY <1>2, <2>2, <3>1, AsksOnce DEF TradesAsked
    <2>3. ASSUME NEW k \in PurchaseKeys, ArenaSettles(k) PROVE TradesAsked'
      BY <1>2, <2>1, <2>3, SettlesAsked DEF TradesAsked
    <2>4. ASSUME NEW k \in PurchaseKeys, ArenaRefuses(k) \/ ArenaLoses(k) PROVE TradesAsked'
      BY <1>2, <2>4 DEF ArenaRefuses, ArenaLoses, ArenaAnswers, TradesAsked
    <2>. QED BY <2>2, <2>3, <2>4 DEF ArenaStep
  <1>3. InductiveInvariant /\ TradesAsked /\ [Next]_vars => TradesAsked'
    BY <1>2
  <1>. QED BY <1>1, <1>3, Invariance, PTL DEF Spec

\* The refinement mapping.
PaidTrades == {trades[k].trade : k \in {x \in PurchaseKeys : Paid(x)}}
BookedTrades == {r.trade : r \in saved.receipts} \ OtherTrades

\* The receipts carried in are of trades of other runs.
LEMMA CarriedIsEarlier ==
  ASSUME NEW r \in CarriedReceipts
  PROVE  r.trade \in OtherTrades
  BY CarriedAssumption DEF CarriedReceipts, ArenaProgress, EarlierReceipt

\* A progress the caller passed counts no trade of this run.
LEMMA ReplacedBooksNothing ==
  ASSUME NEW s \in GraphState, Replaced(s)
  PROVE  {r.trade : r \in s.receipts} \ OtherTrades = {}
  <1>1. PICK p \in Carried : WithProgress(s, p) = s
    BY DEF Replaced
  <1>2. s.receipts = p.receipts
    BY <1>1 DEF WithProgress, GraphState
  <1>. QED BY <1>2, CarriedIsEarlier DEF CarriedReceipts

\* What a state that may be resumed counts of this run was paid.
LEMMA CountedIsPaid ==
  ASSUME InductiveInvariant, NEW s \in Snapshots, NEW r \in s.receipts,
         r.trade \notin OtherTrades
  PROVE  r.trade \in PaidTrades /\ r.trade \in PurchaseKeys
  <1>1. Backed(r, journal, trades) /\ r \in TradeReceipt
    <2>1. Backed(r, journal, trades)
      BY CarriedIsEarlier DEF InductiveInvariant, Sound
    <2>2. r \in TradeReceipt \cup EarlierReceipt
      BY RunningSound, SnapshotsTyped DEF GraphState
    <2>. QED BY <2>1, <2>2 DEF EarlierReceipt
  <1>2. PICK k \in PurchaseKeys : trades[k] = r /\ r.status = "paid"
    BY <1>1 DEF Backed
  <1>3. Paid(k)
    BY <1>1, <1>2, ConstantsAssumption DEF InductiveInvariant, RemoteSound, Paid
  <1>. QED BY <1>1, <1>2, <1>3 DEF PaidTrades, TradeReceipt

\* The workflow implements the contract: each of its steps asks for one purchase,
\* pays one trade, books one paid trade, starts over with another progress, or is no
\* step of the contract at all.
THEOREM ContractImplemented == Spec => ImplementsContract
  <1>1. Init => Contract!ContractInit
    <2>. SUFFICES ASSUME Init PROVE Contract!ContractInit
      OBVIOUS
    <2>1. saved = st /\ st \in Started(FreshState)
      BY DEF Init
    <2>2. \/ saved.receipts = {}
          \/ \E p \in Carried : saved.receipts = p.receipts
      BY <2>1, FreshTyped, StartedFields DEF FreshState
    <2>3. BookedTrades = {}
      BY <2>2, CarriedIsEarlier DEF BookedTrades, CarriedReceipts
    <2>. QED BY <2>3 DEF Init, Contract!ContractInit, Paid, BookedTrades
  <1>2. ASSUME InductiveInvariant, TradesAsked, Chain, [Next]_vars
        PROVE  Contract!ContractNext \/ UNCHANGED Contract!contractVars
    <2>1. /\ arena \in [PurchaseKeys -> {"idle", "in_flight", "settled", "refused", "lost"}]
          /\ trades \in [PurchaseKeys -> TradeReceipt \cup {NoReceipt}]
          /\ sends \in [PurchaseKeys -> Nat]
      BY <1>2 DEF InductiveInvariant, TypeOK, ArenaTypeOK
    <2>2. CASE SaveCheckpoint
      <3>1. /\ Older(saved, saved') /\ saved' \in Snapshots
            /\ UNCHANGED <<arena, trades, sends>>
        BY <1>2, <2>2, SaveChains, RunningSound DEF SaveCheckpoint, arenaVars
      <3>2. PaidTrades' = PaidTrades
        BY <3>1 DEF PaidTrades, Paid
      <3>3. CASE BookedTrades' = BookedTrades
        BY <3>1, <3>2, <3>3 DEF Contract!contractVars, PaidTrades, BookedTrades
      <3>4. CASE Replaced(saved')
        <4>1. saved' \in GraphState
          BY <3>1, RunningSound, SnapshotsTyped, <1>2
        <4>2. BookedTrades' = {}
          BY <3>4, <4>1, ReplacedBooksNothing DEF BookedTrades
        <4>3. Contract!StartOver
          BY <3>1, <3>2, <4>2 DEF Contract!StartOver, PaidTrades, BookedTrades
        <4>. QED BY <4>3 DEF Contract!ContractNext
      <3>5. CASE BookedTrades' # BookedTrades /\ ~Replaced(saved')
        <4>0. /\ saved.receipts \subseteq saved'.receipts
              /\ \A q, r \in saved'.receipts \ saved.receipts : q = r
          BY <3>1, <3>5 DEF Older
        <4>1. PICK r \in saved'.receipts \ saved.receipts :
                r.trade \notin BookedTrades /\ r.trade \notin OtherTrades
          BY <3>5, <4>0 DEF BookedTrades
        <4>2. BookedTrades' = BookedTrades \cup {r.trade}
          BY <4>0, <4>1 DEF BookedTrades
        <4>3. r.trade \in PaidTrades /\ r.trade \in PurchaseKeys
          BY <1>2, <3>1, <4>1, CountedIsPaid
        <4>4. Contract!Book(r.trade)
          BY <3>1, <3>2, <4>1, <4>2, <4>3 DEF Contract!Book, PaidTrades, BookedTrades
        <4>. QED BY <4>3, <4>4 DEF Contract!ContractNext
      <3>. QED BY <3>3, <3>4, <3>5
    <2>3. CASE ~SaveCheckpoint /\ ~ArenaStep
      <3>1. /\ saved' = saved /\ PaidTrades' = PaidTrades
        BY <1>2, <2>3, ChainKept, AsksOnce DEF PaidTrades
      <3>2. CASE UNCHANGED sends
        BY <3>1, <3>2 DEF Contract!contractVars, PaidTrades
      <3>3. ASSUME NEW k \in PurchaseKeys, sends[k] = 0, sends' = [sends EXCEPT ![k] = 1]
            PROVE  Contract!Ask(k)
        BY <3>1, <3>3 DEF Contract!Ask, PaidTrades
      <3>. QED BY <1>2, <2>3, <3>2, <3>3, AsksOnce DEF Contract!ContractNext
    <2>4. ASSUME NEW k \in PurchaseKeys, ArenaSettles(k)
          PROVE  Contract!ContractNext \/ UNCHANGED Contract!contractVars
      <3>1. PICK t \in TradeReceipt :
              /\ t.trade \in PurchaseKeys /\ sends[t.trade] = 1
              /\ trades' = [trades EXCEPT ![k] = t]
              /\ arena' = [arena EXCEPT ![k] = "settled"]
              /\ arena[k] = "in_flight" /\ UNCHANGED <<sends, saved>>
        BY <1>2, <2>4, SettlesAsked
      <3>2. /\ \A x \in PurchaseKeys \ {k} : (Paid(x)' <=> Paid(x)) /\ trades'[x] = trades[x]
            /\ ~Paid(k) /\ (Paid(k)' <=> t.status = "paid") /\ trades'[k] = t
        BY <2>1, <3>1 DEF Paid
      <3>3. PaidTrades' = IF t.status = "paid" THEN PaidTrades \cup {t.trade} ELSE PaidTrades
        BY <3>2 DEF PaidTrades
      <3>4. CASE PaidTrades' = PaidTrades
        BY <3>1, <3>4 DEF Contract!contractVars, PaidTrades
      <3>5. CASE PaidTrades' # PaidTrades
        <4>1. t.trade \notin PaidTrades /\ PaidTrades' = PaidTrades \cup {t.trade}
          BY <3>3, <3>5
        <4>2. Contract!Pay(t.trade)
          BY <3>1, <4>1 DEF Contract!Pay, PaidTrades
        <4>. QED BY <3>1, <4>2 DEF Contract!ContractNext
      <3>. QED BY <3>4, <3>5
    <2>5. ASSUME NEW k \in PurchaseKeys, ArenaRefuses(k) \/ ArenaLoses(k)
          PROVE  UNCHANGED Contract!contractVars
      <3>1. UNCHANGED <<sends, saved, trades>> /\ arena[k] = "in_flight"
            /\ \E what \in {"refused", "lost"} : arena' = [arena EXCEPT ![k] = what]
        BY <2>5 DEF ArenaRefuses, ArenaLoses, ArenaAnswers, durableVars
      <3>2. \A x \in PurchaseKeys : Paid(x)' <=> Paid(x)
        BY <2>1, <3>1 DEF Paid
      <3>3. PaidTrades' = PaidTrades
        BY <3>1, <3>2 DEF PaidTrades
      <3>. QED BY <3>1, <3>3 DEF Contract!contractVars, PaidTrades
    <2>. QED BY <1>2, <2>2, <2>3, <2>4, <2>5 DEF ArenaStep
  <1>3. InductiveInvariant /\ TradesAsked /\ Chain /\ [Next]_vars =>
          [Contract!ContractNext]_(Contract!contractVars)
    BY <1>2
  <1>. QED BY <1>1, <1>3, Invariance, TradesAskedInvariance, ChainInvariance, PTL
         DEF Spec, ImplementsContract, Contract!ContractSpec

-----------------------------------------------------------------------------
(* The workflow uses the journal as OperationJournal says.                   *)

\* What a receipt or a reconciliation concludes is a call of the journal's protocol.
LEMMA VerdictsAreCalls ==
  ASSUME InductiveInvariant, NEW k \in PurchaseKeys, NEW intent
  PROVE  /\ arena[k] = "settled" =>
              ReceiptVerdict(trades[k], intent) \in Journal!TransitionCalls
         /\ \A evidence \in EvidenceOf(k) :
              EvidenceVerdict(k, evidence, intent) \in Journal!TransitionCalls
  <1>1. ASSUME arena[k] = "settled"
        PROVE  ReceiptVerdict(trades[k], intent) \in Journal!TransitionCalls
    <2>1. trades[k] \in TradeReceipt /\ trades[k] # NoReceipt
      BY <1>1, TradeTyped, ConstantsAssumption
    <2>. QED BY <2>1 DEF ReceiptVerdict, Journal!TransitionCalls,
           Journal!TransitionStatuses, Journal!VerdictStatuses
  <1>2. ASSUME NEW evidence \in EvidenceOf(k)
        PROVE  EvidenceVerdict(k, evidence, intent) \in Journal!TransitionCalls
    <2>1. CASE evidence.platform # NoReceipt
      <3>1. arena[k] = "settled" /\ evidence.platform = trades[k]
        BY <1>2, <2>1 DEF EvidenceOf
      <3>2. EvidenceVerdict(k, evidence, intent) = ReceiptVerdict(trades[k], intent)
        BY <2>1, <3>1 DEF EvidenceVerdict
      <3>. QED BY <1>1, <3>1, <3>2
    <2>2. CASE evidence.platform = NoReceipt
      BY <2>2 DEF EvidenceVerdict, Journal!TransitionCalls,
        Journal!TransitionStatuses, Journal!VerdictStatuses
    <2>. QED BY <2>1, <2>2
  <1>. QED BY <1>1, <1>2

\* A node that concludes with such a call takes a step of the protocol.
LEMMA ConcludeFollows ==
  ASSUME InductiveInvariant, st.next \in CycleNodes,
         NEW verdict \in Journal!TransitionCalls, NEW next, Conclude(verdict, next)
  PROVE  Journal!Next
  <1>1. st.pending \in PurchaseKeys
    BY PendingTyped
  <1>2. Journal!Transition(st.pending, verdict[1], verdict[2])
    BY DEF Conclude
  <1>. QED BY <1>1, <1>2 DEF Journal!Next

\* The workflow implements the journal's protocol: what its nodes do to the journal is
\* a prepare of the intent their position holds, SUBMITTED without a receipt, SETTLED
\* with the receipt that settles, or a verdict without one; nothing else touches it
\* (graph.py:301-436, operation_journal.py).
THEOREM JournalFollowsProtocol == Spec => Journal!Spec
  <1>1. Init => Journal!Init
    BY DEF Init
  <1>2. ASSUME InductiveInvariant, [Next]_vars
        PROVE  Journal!Next \/ UNCHANGED journal
    <2>1. CASE PreparePurchase
      <3>1. st \in GraphState /\ st.index \in Nat /\ Len(st.plan) \in Nat
        BY <1>2 DEF InductiveInvariant, TypeOK, ClientTypeOK, GraphState, Plan
      <3>2. CASE st.index >= Len(st.plan)
        BY <2>1, <3>2 DEF PreparePurchase
      <3>3. CASE st.index < Len(st.plan)
        <4>1. /\ Key(st, st.index) \in PurchaseKeys
              /\ Intent(st, st.index) \in PurchaseIntent
          BY <3>1, <3>3, PositionTyped
        <4>2. Journal!Prepare(Key(st, st.index), Intent(st, st.index))
          BY <2>1, <3>1, <3>3 DEF PreparePurchase
        <4>. QED BY <4>1, <4>2 DEF Journal!Next
      <3>. QED BY <3>1, <3>2, <3>3
    <2>2. CASE ExecutePurchase
      <3>1. st.pending \in PurchaseKeys
        BY <1>2, <2>2, PendingTyped DEF ExecutePurchase, Runs, CycleNodes
      <3>2. <<"submitted", NoReceipt>> \in Journal!TransitionCalls
        BY DEF Journal!TransitionCalls, Journal!TransitionStatuses
      <3>3. Journal!Transition(st.pending, "submitted", NoReceipt)
        BY <2>2 DEF ExecutePurchase
      <3>. QED BY <3>1, <3>2, <3>3 DEF Journal!Next
    <2>3. /\ <<"failed", NoReceipt>> \in Journal!TransitionCalls
          /\ <<"unknown", NoReceipt>> \in Journal!TransitionCalls
      BY DEF Journal!TransitionCalls, Journal!TransitionStatuses, Journal!VerdictStatuses
    <2>4. CASE BuyReturnsReceipt \/ BuyRefused \/ BuyTransportFails
      <3>1. st.next \in CycleNodes
        BY <1>2, <2>4, BuyingTyped DEF BuyReturnsReceipt, BuyRefused, BuyTransportFails
      <3>2. st.pending \in PurchaseKeys
        BY <1>2, <3>1, PendingTyped
      <3>3. \E verdict \in Journal!TransitionCalls : \E next : Conclude(verdict, next)
        BY <1>2, <2>3, <2>4, <3>2, VerdictsAreCalls
          DEF BuyReturnsReceipt, BuyRefused, BuyTransportFails
      <3>. QED BY <1>2, <3>1, <3>3, ConcludeFollows
    <2>5. CASE ReconcilePurchase \/ ReconcileUnavailable
      <3>1. st.next \in CycleNodes
        BY <2>5 DEF ReconcilePurchase, ReconcileUnavailable, Runs, CycleNodes
      <3>2. st.pending \in PurchaseKeys
        BY <1>2, <3>1, PendingTyped
      <3>3. \E verdict \in Journal!TransitionCalls : \E next : Conclude(verdict, next)
        BY <1>2, <2>3, <2>5, <3>2, VerdictsAreCalls
          DEF ReconcilePurchase, ReconcileUnavailable
      <3>. QED BY <1>2, <3>1, <3>3, ConcludeFollows
    <2>. QED BY <1>2, <2>1, <2>2, <2>4, <2>5
           DEF Next, GraphStep, CritiqueStep, PurchaseStep, ArenaStep, ArenaSettles,
             ArenaRefuses, ArenaLoses, ArenaAnswers, Prepare, Discover, DiscoverRaises,
             PlanMarket, EvaluateServices, PostCritique, FeedbackDone, Rank, Audit,
             PreparePurchaseRaises, ExecuteAlreadySubmitted, RecordPurchase,
             SaveCheckpoint, Stop, Resume, RunRoundAgain, Terminated, vars
  <1>3. InductiveInvariant /\ [Next]_vars => [Journal!Next]_journal
    BY <1>2
  <1>. QED BY <1>1, <1>3, Invariance, PTL DEF Spec, Journal!Spec
=============================================================================
