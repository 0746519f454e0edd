------------------------------ MODULE SharedRun ------------------------------
(***************************************************************************)
(* Several invocations of one Arena run at the same time: the operator     *)
(* calls ArenaRunner.resume while the first invocation is still alive, in  *)
(* the same process or in another one.  They share the thread's checkpoint *)
(* and the outbound_operations table, walk the purchase cycle of graph.py  *)
(* and reach the Arena with the same idempotency keys.                     *)
(*                                                                         *)
(* Inside one process nothing of another invocation runs between two       *)
(* awaits, so get, transition and the call of buy are one turn of the      *)
(* event loop; between processes every SQL statement may interleave.       *)
(* Here the Arena settles as asked or refuses, and a node's checkpoint is  *)
(* saved as the node ends: ArenaWorkflow has the faulty Arena, the late    *)
(* checkpoints and the plan that changes.                                  *)
(***************************************************************************)
EXTENDS SqliteJournal, Naturals, Sequences

CONSTANTS
    Processes,     \* processes that may hold invocations of the run
    IntentOf,      \* the intent of each key
    ReceiptOf,     \* the receipt of the trade the Arena settles for each key
    PurchasePlan,  \* the keys of the plan, in order
    MaxStarts      \* bound: invocations started, the first run_round included

ASSUME SharedRunAssumption ==
    /\ IntentOf \in [Keys -> Intents]
    /\ ReceiptOf \in [Keys -> Receipts]
    /\ PurchasePlan \in Seq(Keys)
    /\ MaxStarts \in Nat

VARIABLES
    process,   \* the process of each invocation
    walk,      \* where each invocation stands, see Walk
    saved,     \* the latest checkpoint of the thread
    sends,     \* per key, requests of buy that left
    refused,   \* per key, requests the Arena refused
    paid,      \* keys for which credits moved
    starts     \* invocations started so far

cycleVars == <<walk, saved>>
remoteVars == <<sends, refused, paid>>
sharedVars == <<sqliteVars, process, cycleVars, remoteVars, starts>>

\* submitting: get found PREPARED; sending: transition to SUBMITTED was called,
\* buy was not; storing: the transition of a verdict was called, `then` follows.
CycleNodes == {"prepare_purchase", "execute_purchase", "reconcile_purchase",
               "record_purchase", "complete"}
Nodes == CycleNodes \cup {"stopped", "submitting", "sending", "buying", "storing"}

\* `violated` stands for a non-empty list of violations.
Walk == [node : Nodes, then : CycleNodes, index : Nat \ {0},
         receipts : SUBSET Receipts, violated : BOOLEAN]

FreshWalk == [node |-> "prepare_purchase", then |-> "complete", index |-> 1,
              receipts |-> {}, violated |-> FALSE]

SharedInit ==
    /\ SqliteInit
    /\ process \in [Connections -> Processes]
    /\ walk = [c \in Connections |-> [FreshWalk EXCEPT !.node = "stopped"]]
    /\ saved = FreshWalk
    /\ sends = [k \in Keys |-> 0] /\ refused = [k \in Keys |-> 0] /\ paid = {}
    /\ starts = 0

Pending(c) == PurchasePlan[walk[c].index]

\* Mutant: a purchase is looked up, and another task may run before it is
\* marked as submitted.
MidNodeAfterSubmit(c) == walk[c].node \in {"sending", "storing"}

\* Mutant: the two statements of a transition are awaited one after the other.
MidNodeAroundStatements(c) == walk[c].node = "submitting"

\* The node has returned from no await since it read or answered something.
MidNode(c) == walk[c].node \in {"submitting", "sending", "storing"}

At(c, node) ==
    /\ walk[c].node = node /\ call[c] = NoCall
    /\ \A d \in Connections \ {c} : process[d] = process[c] => ~MidNode(d)

\* The node goes on; nothing is saved.
Stays(c, node) ==
    walk' = [walk EXCEPT ![c].node = node] /\ UNCHANGED saved

\* The node ends in state s, which becomes the thread's latest checkpoint.
Ends(c, s) == walk' = [walk EXCEPT ![c] = s] /\ saved' = s

-----------------------------------------------------------------------------
(* The purchase cycle.                                                       *)

PrepareNext(c) ==
    /\ At(c, "prepare_purchase")
    /\ walk[c].index =< Len(PurchasePlan)
    /\ SqlitePrepare(c, Pending(c), IntentOf[Pending(c)])
    /\ Ends(c, [walk[c] EXCEPT !.node =
         CASE Created(Pending(c)) -> "execute_purchase"
           [] journal[Pending(c)].status \in {"prepared", "submitted", "unknown"} ->
                "reconcile_purchase"
           [] OTHER -> "record_purchase"])
    /\ UNCHANGED <<process, remoteVars, starts>>

\* No purchase is left: audit.
Complete(c) ==
    /\ At(c, "prepare_purchase")
    /\ walk[c].index > Len(PurchasePlan)
    /\ Ends(c, [walk[c] EXCEPT !.node = "complete"])
    /\ UNCHANGED <<sqliteVars, process, remoteVars, starts>>

\* get(key) and the test of its status.
CheckPrepared(c) ==
    /\ At(c, "execute_purchase")
    /\ IF journal[Pending(c)].status = "prepared"
       THEN Stays(c, "submitting")
       ELSE Ends(c, [walk[c] EXCEPT !.node = "reconcile_purchase"])
    /\ UNCHANGED <<sqliteVars, process, remoteVars, starts>>

\* The first statement of transition(key, status, receipt), or its early return.
Select(c, status, receipt) ==
    IF journal[Pending(c)].status = "settled" /\ status # "settled"
    THEN UNCHANGED sqliteVars
    ELSE SelectRow(c, Pending(c), status, receipt)

Submit(c) ==
    /\ At(c, "submitting")
    /\ Select(c, "submitted", NoReceipt)
    /\ Stays(c, "sending")
    /\ UNCHANGED <<process, remoteVars, starts>>

\* The second statement of a transition.
Update(c) ==
    /\ \A d \in Connections \ {c} : process[d] = process[c] => ~MidNode(d)
    /\ UpdateRow(c)
    /\ UNCHANGED <<process, cycleVars, remoteVars, starts>>

Send(c) ==
    /\ At(c, "sending")
    /\ sends' = [sends EXCEPT ![Pending(c)] = @ + 1]
    /\ Stays(c, "buying")
    /\ UNCHANGED <<sqliteVars, process, refused, paid, starts>>

\* An await has returned: the verdict goes to the journal, then `then` runs.
Store(c, status, receipt, then) ==
    /\ Select(c, status, receipt)
    /\ walk' = [walk EXCEPT ![c].node = "storing", ![c].then = then]
    /\ UNCHANGED <<saved, process, sends, paid, starts>>

BuyReturns(c) ==
    /\ At(c, "buying") /\ Pending(c) \in paid
    /\ Store(c, "settled", ReceiptOf[Pending(c)], "record_purchase")
    /\ UNCHANGED refused

\* buy raises: the Arena refuses, or its answer to a request, paid or not, is no receipt.
BuyFails(c) ==
    /\ At(c, "buying")
    /\ refused[Pending(c)] < sends[Pending(c)]
    /\ refused' = [refused EXCEPT ![Pending(c)] = @ + 1]
    /\ Store(c, "failed", NoReceipt, "record_purchase")

BuyTimesOut(c) ==
    /\ At(c, "buying")
    /\ Store(c, "unknown", NoReceipt, "reconcile_purchase")
    /\ UNCHANGED refused

Reconcile(c) ==
    /\ At(c, "reconcile_purchase")
    /\ \/ /\ Pending(c) \in paid
          /\ Store(c, "settled", ReceiptOf[Pending(c)], "record_purchase")
       \/ Store(c, "unknown", NoReceipt, "record_purchase")
    /\ UNCHANGED refused

StoreDone(c) ==
    /\ At(c, "storing")
    /\ Ends(c, [walk[c] EXCEPT !.node = walk[c].then, !.then = "complete"])
    /\ UNCHANGED <<sqliteVars, process, remoteVars, starts>>

\* Mutant: a purchase that is not SETTLED is passed over.
RecordedSilently(s, op) ==
    IF op.status = "settled"
    THEN [s EXCEPT !.receipts = @ \cup {op.receipt}]
    ELSE s

\* What record_purchase makes of its journal entry.
Recorded(s, op) ==
    IF op.status = "settled" /\ op.receipt \notin s.receipts
    THEN [s EXCEPT !.receipts = @ \cup {op.receipt}]
    ELSE [s EXCEPT !.violated = TRUE]

Record(c) ==
    /\ At(c, "record_purchase")
    /\ Ends(c, [Recorded(walk[c], journal[Pending(c)]) EXCEPT
                  !.node = "prepare_purchase", !.index = @ + 1])
    /\ UNCHANGED <<sqliteVars, process, remoteVars, starts>>

-----------------------------------------------------------------------------
(* The Arena (external) knows a trade by its idempotency key and pays it once. *)

ArenaPays(k) ==
    /\ k \notin paid /\ refused[k] < sends[k]
    /\ paid' = paid \cup {k}
    /\ UNCHANGED <<sqliteVars, process, cycleVars, sends, refused, starts>>

(* An invocation starts from the latest checkpoint, others alive or not; a     *)
(* process dies with all of its invocations.                                   *)
Start(c) ==
    /\ walk[c].node = "stopped"
    /\ starts < MaxStarts /\ starts' = starts + 1
    /\ walk' = [walk EXCEPT ![c] = saved]
    /\ UNCHANGED <<sqliteVars, process, saved, remoteVars>>

ProcessDies(p) ==
    /\ \E c \in Connections :
         process[c] = p /\ walk[c].node \notin {"stopped", "complete"}
    /\ walk' = [c \in Connections |->
                  IF process[c] = p /\ walk[c].node # "complete"
                  THEN [FreshWalk EXCEPT !.node = "stopped"] ELSE walk[c]]
    /\ call' = [c \in Connections |-> IF process[c] = p THEN NoCall ELSE call[c]]
    /\ UNCHANGED <<journal, process, saved, remoteVars, starts>>

\* Every invocation has ended, or no start is left.
AllEnded ==
    /\ \A c \in Connections :
         walk[c].node = "complete" \/ (walk[c].node = "stopped" /\ starts = MaxStarts)
    /\ UNCHANGED sharedVars

SharedStep(c) ==
    \/ PrepareNext(c) \/ Complete(c)
    \/ CheckPrepared(c) \/ Submit(c) \/ Update(c) \/ Send(c)
    \/ BuyReturns(c) \/ BuyFails(c) \/ BuyTimesOut(c)
    \/ Reconcile(c) \/ StoreDone(c) \/ Record(c)

SharedNext ==
    \/ \E c \in Connections : SharedStep(c) \/ Start(c)
    \/ \E k \in Keys : ArenaPays(k)
    \/ \E p \in Processes : ProcessDies(p)
    \/ AllEnded

SharedSpec == SharedInit /\ [][SharedNext]_sharedVars

-----------------------------------------------------------------------------
(* Properties.                                                               *)

\* Every invocation runs in one process, hence on one event loop.
OneLoop == \A c, d \in Connections : process[c] = process[d]

\* The variables hold values of the program's types.
SharedTypeOK ==
    /\ SqliteTypeOK
    /\ process \in [Connections -> Processes]
    /\ walk \in [Connections -> Walk] /\ saved \in Walk
    /\ sends \in [Keys -> Nat] /\ refused \in [Keys -> Nat]
    /\ paid \subseteq Keys /\ starts \in 0 .. MaxStarts

\* Resuming a run that is still alive sends no purchase twice, as long as both
\* invocations share an event loop: no await separates the status check from
\* the transition to SUBMITTED (graph.py:330-342).
OneSendPerKey == OneLoop => \A k \in Keys : sends[k] =< 1

\* On one event loop the journal is the atomic one, whoever calls it: the two
\* statements of transition are never torn (operation_journal.py:247-296).
OneLoopIsAtomic ==
    /\ OneLoop => AtomicJournal!Init
    /\ [][OneLoop => AtomicJournal!Next]_journal

\* A report without violations, of any invocation of any process, or loaded
\* from the checkpoint they overwrite one another, means that every purchase of
\* the plan was paid and is counted (graph.py:440-493).
ValidMeansPaid ==
    \A s \in {saved} \cup {walk[c] : c \in Connections} :
      s.node = "complete" /\ ~s.violated =>
        \A i \in 1 .. Len(PurchasePlan) :
          PurchasePlan[i] \in paid /\ ReceiptOf[PurchasePlan[i]] \in s.receipts
=============================================================================
