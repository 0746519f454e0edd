----------------------- MODULE ArenaWorkflowInvariant -----------------------
(***************************************************************************)
(* The inductive invariants of ArenaWorkflow.  InductiveInvariant ties the *)
(* journal, the Arena and every checkpoint together; AtMostOneSend,        *)
(* PendingIsJournalled, VerdictBeforeAdvance, RecordedIsPaid and           *)
(* ValidReportSettlesPlan follow from it.  The others are inductive        *)
(* relative to it, one for each further promise of the workflow.           *)
(***************************************************************************)
EXTENDS ArenaWorkflow

\* The journal and the Arena agree, key by key: nothing is sent before
\* SUBMITTED, and SETTLED is backed by the trade the Arena settled.
RemoteSound ==
    \A k \in PurchaseKeys :
      /\ journal[k].status = "absent" <=> journal[k].intent = NoIntent
      /\ journal[k].status \in {"absent", "prepared"} => sends[k] = 0
      /\ sends[k] =< 1
      /\ arena[k] # "idle" => sends[k] = 1
      /\ arena[k] = "settled" <=> trades[k] # NoReceipt
      /\ journal[k].status = "settled" =>
           /\ arena[k] = "settled"
           /\ journal[k].receipt = trades[k]
           /\ ReceiptMatches(trades[k], journal[k].intent)

CycleNodes == {"execute_purchase", "reconcile_purchase", "record_purchase"}
BuyingNodes == {"prepare_purchase"} \cup CycleNodes

\* A receipt is backed by a trade of the Arena and the intent it was made for.
Backed(r, j, t) ==
    /\ r.status = "paid"
    /\ \E k \in PurchaseKeys :
         /\ t[k] = r
         /\ j[k].intent = [service |-> r.service, seller |-> r.seller,
                           price |-> r.amount]

\* What a state of the graph, in memory or in a checkpoint, may rely on when
\* the journal is j and the Arena's trades are t.
Sound(s, j, t) ==
    /\ s.next \in CycleNodes =>
         /\ s.index < Len(s.plan)
         /\ s.pending = Key(s, s.index)
         /\ j[s.pending].intent = Intent(s, s.index)
    /\ s.next = "record_purchase" => j[s.pending].status \in Journal!VerdictStatuses
    /\ \A i \in 0 .. s.index - 1 :
         i < Len(s.plan) => j[Key(s, i)].status \in Journal!VerdictStatuses
    /\ \A r \in s.receipts : r \in CarriedReceipts \/ Backed(r, j, t)
    /\ s.next \in BuyingNodes \cup {"audit", "complete"} /\ s.mode # "critique"
       /\ s.violations = {} =>
         \A i \in 0 .. s.index - 1 :
           i < Len(s.plan) => /\ j[Key(s, i)].status = "settled"
                              /\ j[Key(s, i)].receipt \in s.receipts
    /\ s.next = "audit" /\ s.violations = {} /\ s.mode # "critique" =>
         s.index >= Len(s.plan)
    /\ s.next = "complete" /\ s.report = "valid" =>
         /\ s.violations = {}
         /\ s.mode # "critique" => /\ s.index >= Len(s.plan)
                                   /\ s.spent >= MinimumSpend
                                   /\ Cardinality(s.purchased) >= MinimumProducts

\* Holds of every reachable state and is kept by every step.
InductiveInvariant ==
    /\ TypeOK
    /\ RemoteSound
    /\ local.buying => st.next = "execute_purchase"
    /\ \A s \in Snapshots : Sound(s, journal, trades)

-----------------------------------------------------------------------------
(* Progress and its way to the disk.                                         *)

\* The counters of a state are those of its receipts.
Exact(s) == IsFiniteSet(s.receipts) /\ CountsItsReceipts(s)

ProgressInvariant == \A s \in Snapshots : Exact(s)

\* y remembers all that x does and counts at most one receipt more, or it starts
\* over with a progress of the caller's.
Older(x, y) ==
    /\ x.violations \subseteq y.violations
    /\ \/ /\ x.receipts \subseteq y.receipts
          /\ \A q, r \in y.receipts \ x.receipts : q = r
       \/ Replaced(y)

\* Each state on the way to the disk is older than the next, and the running
\* state is the last of them.
Chain ==
    /\ st = IF unsaved = <<>> THEN saved ELSE unsaved[Len(unsaved)]
    /\ unsaved # <<>> => Older(saved, unsaved[1])
    /\ \A i \in 1 .. Len(unsaved) - 1 : Older(unsaved[i], unsaved[i + 1])

\* A trade bears the name of a purchase that was sent.
TradesAsked ==
    \A k \in PurchaseKeys : trades[k] # NoReceipt => sends[trades[k].trade] = 1

-----------------------------------------------------------------------------
(* Feedback and ranking.                                                     *)

Held(seller, items) == \E item \in items : item[1] = "feedback" /\ item[2] = seller

\* The nodes behind the ranking.
AfterRanking == {"plan_market", "audit", "complete"} \cup BuyingNodes

\* A critique the state counts was carried in, is among the published items, or is
\* a violation of the run; and behind their nodes so are the critiques of the
\* targets and the ranking.
CritiqueSound(s, items) ==
    /\ \A seller \in s.critiqued \ CarriedCritiques :
         Held(seller, items) \/ <<"feedback", seller>> \in s.violations
    /\ s.next \in {"rank"} \cup AfterRanking /\ s.mode # "market" =>
         \A i \in DOMAIN s.found.targets :
           \/ Held(s.found.targets[i], items)
           \/ <<"feedback", s.found.targets[i]>> \in s.violations
    /\ s.next \in AfterRanking /\ s.mode # "market" /\ s.violations = {} =>
         <<"ranking", NoSubject, 0>> \in items
    /\ s.next = "complete" /\ s.report = "valid" /\ s.mode # "market" =>
         s.tried \subseteq s.critiqued

\* The running node has posted the first targets, or noted that it could not.
PostsSound ==
    /\ local.posted =< Len(st.found.targets)
    /\ \A i \in 1 .. local.posted :
         \/ Held(st.found.targets[i], published)
         \/ st.found.targets[i] \in local.failed

CritiqueInvariant == PostsSound /\ \A s \in Snapshots : CritiqueSound(s, published)

\* The first loss is behind a second attempt, and costs nothing yet.
LossInvariant ==
    /\ local.attempt = 2 => losses >= 1
    /\ losses =< 1 =>
         /\ local.failed = {}
         /\ \A s \in Snapshots : \A v \in s.violations :
              v[1] \notin {"feedback", "ranking"}

-----------------------------------------------------------------------------
(* Plans and the purchases the Arena may hold.                               *)

\* With a client that raises TimeoutError, only a refusal is called FAILED.
FailedIsRefused ==
    \A k \in PurchaseKeys : journal[k].status = "failed" => arena[k] = "refused"

Discovered(plan) == plan # <<>> => \E d \in Discoveries : d.plan = plan

PlanSound(s) ==
    /\ Discovered(s.found.plan) /\ Discovered(s.plan)
    /\ s.next \in {"plan_market"} \cup BuyingNodes => s.mode # "critique"
    /\ \/ s.next \in BuyingNodes
       \/ s.next = "audit" /\ s.violations = {} /\ s.mode # "critique"
       \/ s.next = "complete" /\ s.report = "valid" /\ s.mode # "critique"
       => s.plan # <<>>

\* The keys of the purchases of a plan.
KeysOf(plan) == {<<plan[i + 1].service, i>> : i \in 0 .. Len(plan) - 1}

\* Only purchases of a discovered plan are ever prepared.
PlanInvariant ==
    /\ \A s \in Snapshots : PlanSound(s)
    /\ \A k \in PurchaseKeys :
         journal[k].status # "absent" =>
           \E d \in Discoveries : k \in KeysOf(d.plan)

\* What discover_services must keep to across the restarts of one run for the
\* promises that need it: every plan buys the same services in the same order, at
\* whatever prices and from whichever sellers.
SamePurchases ==
    \A d, e \in Discoveries :
      d.plan # <<>> /\ e.plan # <<>> => KeysOf(d.plan) = KeysOf(e.plan)
=============================================================================
