---------------------------- MODULE SharedRunProofs ----------------------------
(***************************************************************************)
(* Theorems about SqliteOperationJournal, for any number of connections to *)
(* one file, and about invocations that share a run through it: for any    *)
(* number of invocations, processes and purchases, and any starts and      *)
(* deaths.                                                                 *)
(***************************************************************************)
EXTENDS SharedRun, TLAPS

-----------------------------------------------------------------------------
(* The journal: what holds for any number of connections, and that a single  *)
(* one implements the atomic journal.                                        *)

\* Every pending update is a call the workflow makes, on a row that exists.
CallsAllowed ==
    \A c \in Connections :
        call[c] # NoCall =>
            /\ <<call[c].status, call[c].receipt>> \in TransitionCalls
            /\ journal[call[c].key].status # "absent"

SqliteInvariant == SqliteTypeOK /\ SettledHasReceipt /\ CallsAllowed

\* A new database has no rows (_initialize).
LEMMA SqliteInitial == SqliteInit => SqliteInvariant
BY DEF SqliteInit, Init, SqliteInvariant, SqliteTypeOK, TypeOK, SettledHasReceipt,
       CallsAllowed, OutboundOperation, OperationStatus, Absent

\* prepare keeps the invariant: it adds a row or leaves the table alone.
LEMMA PrepareKeeps ==
    ASSUME SqliteInvariant, NEW c \in Connections, NEW k \in Keys, NEW i \in Intents,
           SqlitePrepare(c, k, i)
    PROVE  SqliteInvariant'
<1>1. SqliteTypeOK'
  BY DEF SqliteInvariant, SqliteTypeOK, TypeOK, SqlitePrepare, Prepare, Created,
         OutboundOperation, OperationStatus
<1>2. SettledHasReceipt'
  BY DEF SqliteInvariant, SqliteTypeOK, TypeOK, SettledHasReceipt, SqlitePrepare, Prepare, Created
<1>3. CallsAllowed'
  BY DEF SqliteInvariant, SqliteTypeOK, TypeOK, CallsAllowed, SqlitePrepare, Prepare, Created,
         PendingUpdate
<1> QED  BY <1>1, <1>2, <1>3 DEF SqliteInvariant

\* The SELECT of transition keeps it: it remembers a row that exists.
LEMMA SelectKeeps ==
    ASSUME SqliteInvariant, NEW c \in Connections, NEW k \in Keys,
           NEW t \in TransitionCalls, SelectRow(c, k, t[1], t[2])
    PROVE  SqliteInvariant'
<1>1. t \in TransitionStatuses \X (Receipts \cup {NoReceipt}) /\ t = <<t[1], t[2]>>
  BY DEF TransitionCalls
<1>2. SqliteTypeOK'
  BY <1>1 DEF SqliteInvariant, SqliteTypeOK, TypeOK, SelectRow, PendingUpdate
<1>3. SettledHasReceipt'
  BY DEF SqliteInvariant, SettledHasReceipt, SelectRow
<1>4. CallsAllowed'
  BY <1>1 DEF SqliteInvariant, SqliteTypeOK, CallsAllowed, SelectRow, Created
<1> QED  BY <1>2, <1>3, <1>4 DEF SqliteInvariant

\* The UPDATE of transition keeps it, whatever the row became since the SELECT.
LEMMA UpdateKeeps ==
    ASSUME SqliteInvariant, NEW c \in Connections, UpdateRow(c)
    PROVE  SqliteInvariant'
<1> DEFINE u == call[c]
<1>1. /\ u \in PendingUpdate
      /\ <<u.status, u.receipt>> \in TransitionCalls
  BY DEF SqliteInvariant, SqliteTypeOK, CallsAllowed, UpdateRow
<1>2. /\ u.key \in Keys /\ u.status \in TransitionStatuses
      /\ u.receipt \in Receipts \cup {NoReceipt} /\ u.seen \in OutboundOperation
  BY <1>1 DEF PendingUpdate
<1>3. PICK r \in Receipts \cup {NoReceipt} :
        /\ journal' = [journal EXCEPT ![u.key].status = u.status, ![u.key].receipt = r]
        /\ u.receipt # NoReceipt => r = u.receipt
  BY <1>2 DEF UpdateRow, OutboundOperation
<1>4. u.status = "settled" => r # NoReceipt
  BY <1>1, <1>3 DEF TransitionCalls
<1>5. SqliteTypeOK'
  BY <1>2, <1>3 DEF SqliteInvariant, SqliteTypeOK, TypeOK, UpdateRow, OutboundOperation,
                    OperationStatus
<1>6. SettledHasReceipt'
  BY <1>2, <1>3, <1>4 DEF SqliteInvariant, SqliteTypeOK, TypeOK, SettledHasReceipt,
                          OutboundOperation
<1>7. CallsAllowed'
  BY <1>2, <1>3 DEF SqliteInvariant, SqliteTypeOK, TypeOK, CallsAllowed, UpdateRow,
                    PendingUpdate, OutboundOperation, TransitionStatuses, VerdictStatuses
<1> QED  BY <1>5, <1>6, <1>7 DEF SqliteInvariant

\* A process that dies in transition keeps it: nothing was written.
LEMMA DieKeeps ==
    ASSUME SqliteInvariant, NEW c \in Connections, Die(c)
    PROVE  SqliteInvariant'
BY DEF SqliteInvariant, SqliteTypeOK, TypeOK, SettledHasReceipt, CallsAllowed, Die

\* Every step of every connection keeps the invariant.
LEMMA SqliteStep == SqliteInvariant /\ [SqliteNext]_sqliteVars => SqliteInvariant'
<1> SUFFICES ASSUME SqliteInvariant, [SqliteNext]_sqliteVars PROVE SqliteInvariant'
  OBVIOUS
<1>1. CASE UNCHANGED sqliteVars
  BY <1>1 DEF sqliteVars, SqliteInvariant, SqliteTypeOK, TypeOK, SettledHasReceipt, CallsAllowed
<1>2. CASE SqliteNext
  <2>1. PICK c \in Connections :
          \/ \E k \in Keys, i \in Intents : SqlitePrepare(c, k, i)
          \/ \E k \in Keys, t \in TransitionCalls : SelectRow(c, k, t[1], t[2])
          \/ UpdateRow(c)
          \/ Die(c)
    BY <1>2 DEF SqliteNext
  <2> QED  BY <2>1, PrepareKeeps, SelectKeeps, UpdateKeeps, DieKeeps
<1> QED  BY <1>1, <1>2

\* The invariant holds for any number of connections, whichever of them die.
THEOREM SqliteInvariance == SqliteSpec => []SqliteInvariant
BY SqliteInitial, SqliteStep, PTL DEF SqliteSpec

\* Type correctness of the table and of every transition in progress.
THEOREM SqliteTypeCorrect == SqliteSpec => []SqliteTypeOK
<1>1. SqliteInvariant => SqliteTypeOK  BY DEF SqliteInvariant
<1> QED  BY SqliteInvariance, <1>1, PTL

\* Even with rival connections a SETTLED row has its receipt (graph.py:450).
THEOREM SettledRowsHaveReceipts == SqliteSpec => []SettledHasReceipt
<1>1. SqliteInvariant => SettledHasReceipt  BY DEF SqliteInvariant
<1> QED  BY SqliteInvariance, <1>1, PTL

-----------------------------------------------------------------------------
\* Rival connections may take a verdict back, but none of them redirects a key
\* or makes a purchase sendable again (operation_journal.py:206 and 276).
THEOREM NothingPreparedAgain == SqliteSpec => NeverPreparedAgain
<1> DEFINE Kept(k) ==
      ~Created(k) => /\ journal'[k].intent = journal[k].intent
                     /\ journal[k].status # "prepared" => journal'[k].status # "prepared"
<1>1. ASSUME SqliteInvariant, [SqliteNext]_sqliteVars
      PROVE  [\A k \in Keys : Kept(k)]_sqliteVars
  <2> SUFFICES ASSUME NEW k \in Keys, SqliteNext PROVE Kept(k)
    BY <1>1
  <2>1. journal \in [Keys -> OutboundOperation]
    BY <1>1 DEF SqliteInvariant, SqliteTypeOK, TypeOK
  <2>2. ASSUME NEW c \in Connections, NEW j \in Keys, NEW i \in Intents, SqlitePrepare(c, j, i)
        PROVE  Kept(k)
    BY <2>1, <2>2 DEF SqlitePrepare, Prepare, Created
  <2>3. ASSUME NEW c \in Connections, UpdateRow(c)
        PROVE  Kept(k)
    <3>1. call[c] \in PendingUpdate
      BY <1>1, <2>3 DEF SqliteInvariant, SqliteTypeOK, UpdateRow
    <3>2. call[c].status # "prepared"
      BY <3>1 DEF PendingUpdate, TransitionStatuses, VerdictStatuses
    <3> QED  BY <2>1, <2>3, <3>1, <3>2 DEF UpdateRow, PendingUpdate, OutboundOperation
  <2>4. ASSUME UNCHANGED journal PROVE Kept(k)
    BY <2>4
  <2> QED  BY <2>2, <2>3, <2>4 DEF SqliteNext, SelectRow, Die
<1> QED  BY SqliteInvariance, <1>1, PTL DEF SqliteSpec, NeverPreparedAgain

-----------------------------------------------------------------------------
\* With one connection nothing comes between SELECT and UPDATE: the row is still
\* the one that was read, and the early return did not apply to it.
RowUnchanged ==
    \A c \in Connections :
        call[c] # NoCall =>
            /\ journal[call[c].key] = call[c].seen
            /\ ~(call[c].seen.status = "settled" /\ call[c].status # "settled")

\* A single connection's SELECT is still true when its UPDATE runs.
LEMMA RowStaysUnchanged ==
    ASSUME NEW only, Connections = {only}, SqliteInvariant, RowUnchanged,
           [SqliteNext]_sqliteVars
    PROVE  RowUnchanged'
<1>1. CASE UNCHANGED sqliteVars
  BY <1>1 DEF sqliteVars, RowUnchanged
<1>2. ASSUME NEW k \in Keys, NEW i \in Intents, SqlitePrepare(only, k, i)
      PROVE  RowUnchanged'
  BY <1>2 DEF RowUnchanged, SqlitePrepare
<1>3. ASSUME NEW k \in Keys, NEW t \in TransitionCalls, SelectRow(only, k, t[1], t[2])
      PROVE  RowUnchanged'
  BY <1>3 DEF RowUnchanged, SelectRow, SqliteInvariant, SqliteTypeOK
<1>4. CASE UpdateRow(only) \/ Die(only)
  BY <1>4 DEF RowUnchanged, UpdateRow, Die, SqliteInvariant, SqliteTypeOK
<1> QED  BY <1>1, <1>2, <1>3, <1>4 DEF SqliteNext

\* Its UPDATE is then the whole of the atomic transition.
LEMMA UpdateIsTransition ==
    ASSUME NEW c \in Connections, SqliteInvariant, RowUnchanged, UpdateRow(c)
    PROVE  Transition(call[c].key, call[c].status, call[c].receipt)
<1> DEFINE u == call[c]
           r == IF u.receipt = NoReceipt THEN u.seen.receipt ELSE u.receipt
<1>1. u \in PendingUpdate /\ journal \in [Keys -> OutboundOperation]
  BY DEF SqliteInvariant, SqliteTypeOK, TypeOK, UpdateRow
<1>2. u.key \in Keys /\ journal[u.key] = u.seen /\ u.seen \in OutboundOperation
  BY <1>1 DEF RowUnchanged, UpdateRow, PendingUpdate
<1>3. ~Created(u.key)
  BY DEF SqliteInvariant, CallsAllowed, UpdateRow, Created
<1>4. Updated(journal[u.key], u.status, u.receipt)
        = [journal[u.key] EXCEPT !.status = u.status, !.receipt = r]
  BY <1>2 DEF RowUnchanged, UpdateRow, Updated, OutboundOperation
<1>5. journal' = [journal EXCEPT ![u.key] =
                    [journal[u.key] EXCEPT !.status = u.status, !.receipt = r]]
  BY <1>1, <1>2 DEF UpdateRow, OutboundOperation
<1> QED  BY <1>2, <1>3, <1>4, <1>5 DEF Transition

\* A step on the table that finds its row unchanged is one of the atomic journal.
LEMMA UndisturbedIsAtomic ==
    ASSUME SqliteInvariant, RowUnchanged, [SqliteNext]_sqliteVars
    PROVE  [AtomicJournal!Next]_journal
<1>1. ASSUME NEW c \in Connections, UpdateRow(c) PROVE Next
  <2>1. Transition(call[c].key, call[c].status, call[c].receipt)
    BY <1>1, UpdateIsTransition
  <2>2. /\ <<call[c].status, call[c].receipt>> \in TransitionCalls
        /\ call[c].key \in Keys
    BY <1>1 DEF SqliteInvariant, SqliteTypeOK, CallsAllowed, UpdateRow, PendingUpdate
  <2>3. PICK t \in TransitionCalls : t[1] = call[c].status /\ t[2] = call[c].receipt
    BY <2>2
  <2>4. Transition(call[c].key, t[1], t[2])
    BY <2>1, <2>3
  <2> QED  BY <2>2, <2>4 DEF Next
<1>2. ASSUME NEW c \in Connections, NEW k \in Keys, NEW i \in Intents, SqlitePrepare(c, k, i)
      PROVE  Next
  BY <1>2 DEF SqlitePrepare, Next
<1>3. [Next]_journal
  BY <1>1, <1>2 DEF SqliteNext, SelectRow, Die, sqliteVars
<1> QED
  BY <1>3
     DEF Next, AtomicJournal!Next, Prepare, AtomicJournal!Prepare, Transition,
         AtomicJournal!Transition, Updated, AtomicJournal!Updated, Created,
         AtomicJournal!Created, SameIntent, AtomicJournal!SameIntent,
         TransitionCalls, AtomicJournal!TransitionCalls, TransitionStatuses,
         AtomicJournal!TransitionStatuses, VerdictStatuses, AtomicJournal!VerdictStatuses

\* One process, as the workflow runs, cannot tell SqliteOperationJournal from the
\* in-memory one: every execution of it is one of the atomic journal
\* (operation_journal.py:247-296 against 132-156).
THEOREM OneConnectionIsAtomic ==
    ASSUME NEW only, Connections = {only}
    PROVE  SqliteSpec => ImplementsAtomicJournal
<1>1. SqliteInit => RowUnchanged /\ AtomicJournal!Init
  BY DEF SqliteInit, RowUnchanged, Init, AtomicJournal!Init, Absent, AtomicJournal!Absent
<1>2. ASSUME SqliteInvariant, RowUnchanged, [SqliteNext]_sqliteVars
      PROVE  RowUnchanged' /\ [AtomicJournal!Next]_journal
  BY <1>2, RowStaysUnchanged, UndisturbedIsAtomic
<1> QED
  BY SqliteInvariance, <1>1, <1>2, PTL
     DEF SqliteSpec, ImplementsAtomicJournal, AtomicJournal!Spec

-----------------------------------------------------------------------------
(* Invocations of one run.                                                   *)

\* A purchase is pending in every node between prepare and record.
Positioned(s) ==
    /\ s.node \notin {"stopped", "prepare_purchase", "complete"} =>
         s.index =< Len(PurchasePlan)
    /\ s.node = "complete" => s.index > Len(PurchasePlan)
    /\ s.node = "storing" => s.then \in {"reconcile_purchase", "record_purchase"}

\* Types, positions, and the turns that invocations of one process take.
ControlInvariant ==
    /\ SharedTypeOK /\ SqliteInvariant
    /\ saved.node \in CycleNodes /\ Positioned(saved)
    /\ \A c \in Connections :
         /\ Positioned(walk[c])
         /\ call[c] # NoCall => walk[c].node \in {"sending", "storing"}
         /\ \A d \in Connections \ {c} :
              process[c] = process[d] => ~(MidNode(c) /\ MidNode(d))

\* A key that may be the pending one is a key of the plan.
LEMMA PendingIsKey ==
    ASSUME ControlInvariant, NEW c \in Connections, walk[c].index =< Len(PurchasePlan)
    PROVE  Pending(c) \in Keys
BY SharedRunAssumption DEF ControlInvariant, SharedTypeOK, Walk, Pending

\* The nodes of one walk, where At is all that is asked of them.
LEMMA PendingAt ==
    ASSUME ControlInvariant, NEW c \in Connections,
           walk[c].node \notin {"stopped", "prepare_purchase", "complete"}
    PROVE  Pending(c) \in Keys
BY PendingIsKey DEF ControlInvariant, Positioned

-----------------------------------------------------------------------------
(* The workflow uses the journal through its calls only.                     *)

\* A select of the workflow is a select of the journal, or an early return.
LEMMA SelectIsSqlite ==
    ASSUME NEW c \in Connections, Pending(c) \in Keys,
           NEW t \in TransitionCalls, Select(c, t[1], t[2])
    PROVE  [SqliteNext]_sqliteVars
BY DEF Select, SqliteNext

\* The calls of the workflow are among those the journal's theorems allow.
LEMMA CallsOfTheWorkflow ==
    /\ <<"submitted", NoReceipt>> \in TransitionCalls
    /\ <<"unknown", NoReceipt>> \in TransitionCalls
    /\ <<"failed", NoReceipt>> \in TransitionCalls
    /\ \A k \in Keys : <<"settled", ReceiptOf[k]>> \in TransitionCalls
BY SharedRunAssumption, NoValueAssumption
   DEF TransitionCalls, TransitionStatuses, VerdictStatuses

\* What a store may pass to transition.
Verdicts(k) == {<<"settled", ReceiptOf[k]>>, <<"failed", NoReceipt>>, <<"unknown", NoReceipt>>}

\* The four ways to store a verdict, read together.
LEMMA StoreShape ==
    ASSUME ControlInvariant, NEW c \in Connections,
           BuyReturns(c) \/ BuyFails(c) \/ BuyTimesOut(c) \/ Reconcile(c)
    PROVE  \E t \in Verdicts(Pending(c)), then \in {"record_purchase", "reconcile_purchase"} :
             /\ t[1] = "settled" => Pending(c) \in paid
             /\ Store(c, t[1], t[2], then)
             /\ \E node \in {"buying", "reconcile_purchase"} : At(c, node)
             /\ refused' \in [Keys -> Nat]
<1>1. Pending(c) \in Keys
  BY PendingAt DEF BuyReturns, BuyFails, BuyTimesOut, Reconcile, At
<1>2. refused \in [Keys -> Nat]
  BY DEF ControlInvariant, SharedTypeOK
<1>3. refused' \in [Keys -> Nat]
  BY <1>1, <1>2 DEF BuyReturns, BuyFails, BuyTimesOut, Reconcile
<1>4. CASE BuyReturns(c)
  <2> DEFINE t == <<"settled", ReceiptOf[Pending(c)]>>
  <2>1. t \in Verdicts(Pending(c)) /\ t[1] = "settled" /\ t[2] = ReceiptOf[Pending(c)]
    BY DEF Verdicts
  <2> QED  BY <1>3, <1>4, <2>1 DEF BuyReturns
<1>5. CASE BuyFails(c)
  <2> DEFINE t == <<"failed", NoReceipt>>
  <2>1. t \in Verdicts(Pending(c)) /\ t[1] = "failed" /\ t[2] = NoReceipt
    BY DEF Verdicts
  <2> QED  BY <1>3, <1>5, <2>1 DEF BuyFails
<1>6. CASE BuyTimesOut(c)
  <2> DEFINE t == <<"unknown", NoReceipt>>
  <2>1. t \in Verdicts(Pending(c)) /\ t[1] = "unknown" /\ t[2] = NoReceipt
    BY DEF Verdicts
  <2> QED  BY <1>3, <1>6, <2>1 DEF BuyTimesOut
<1>7. CASE Reconcile(c)
  <2> DEFINE t == <<"settled", ReceiptOf[Pending(c)]>>
             u == <<"unknown", NoReceipt>>
  <2>1. /\ t \in Verdicts(Pending(c)) /\ t[1] = "settled" /\ t[2] = ReceiptOf[Pending(c)]
        /\ u \in Verdicts(Pending(c)) /\ u[1] = "unknown" /\ u[2] = NoReceipt
    BY DEF Verdicts
  <2> QED  BY <1>3, <1>7, <2>1 DEF Reconcile
<1> QED  BY <1>4, <1>5, <1>6, <1>7

\* Every step of an invocation is a step of its connection, or none, on the table.
LEMMA StepIsSqlite ==
    ASSUME ControlInvariant, NEW c \in Connections, SharedStep(c)
    PROVE  [SqliteNext]_sqliteVars
<1>1. CASE PrepareNext(c)
  <2>1. Pending(c) \in Keys
    BY <1>1, PendingIsKey DEF PrepareNext
  <2> QED  BY <1>1, <2>1, SharedRunAssumption DEF PrepareNext, SqliteNext
<1>2. CASE Submit(c)
  <2>1. Pending(c) \in Keys
    BY <1>2, PendingAt DEF Submit, At
  <2>2. PICK t \in TransitionCalls : t = <<"submitted", NoReceipt>>
    BY CallsOfTheWorkflow
  <2>3. Select(c, t[1], t[2])
    BY <1>2, <2>2 DEF Submit
  <2> QED  BY <2>1, <2>3, SelectIsSqlite
<1>3. CASE BuyReturns(c) \/ BuyFails(c) \/ BuyTimesOut(c) \/ Reconcile(c)
  <2>1. PICK t \in Verdicts(Pending(c)), then \in {"record_purchase", "reconcile_purchase"} :
          /\ Store(c, t[1], t[2], then)
          /\ \E node \in {"buying", "reconcile_purchase"} : At(c, node)
    BY <1>3, StoreShape
  <2>2. Pending(c) \in Keys
    BY <2>1, PendingAt DEF At
  <2>3. t \in TransitionCalls
    BY <2>2, CallsOfTheWorkflow DEF Verdicts
  <2>4. Select(c, t[1], t[2])
    BY <2>1 DEF Store
  <2> QED  BY <2>2, <2>3, <2>4, SelectIsSqlite
<1>4. CASE Update(c)
  BY <1>4 DEF Update, SqliteNext
<1>5. CASE Complete(c) \/ CheckPrepared(c) \/ Send(c) \/ StoreDone(c) \/ Record(c)
  BY <1>5 DEF Complete, CheckPrepared, Send, StoreDone, Record
<1> QED  BY <1>1, <1>2, <1>3, <1>4, <1>5 DEF SharedStep

\* A process has at most one pending update, so its death is the death of one
\* connection.
LEMMA DeathIsSqlite ==
    ASSUME ControlInvariant, NEW p \in Processes, ProcessDies(p)
    PROVE  [SqliteNext]_sqliteVars
<1>1. call \in [Connections -> PendingUpdate \cup {NoCall}]
  BY DEF ControlInvariant, SharedTypeOK, SqliteTypeOK
<1>2. CASE \E c \in Connections : process[c] = p /\ call[c] # NoCall
  <2>1. PICK c \in Connections : process[c] = p /\ call[c] # NoCall
    BY <1>2
  <2>2. \A d \in Connections \ {c} : process[d] = p => call[d] = NoCall
    BY <2>1 DEF ControlInvariant, MidNode
  <2>3. call' = [call EXCEPT ![c] = NoCall]
    BY <1>1, <2>1, <2>2 DEF ProcessDies
  <2>4. Die(c)
    BY <2>1, <2>3 DEF Die, ProcessDies
  <2> QED  BY <2>4 DEF SqliteNext
<1>3. CASE \A c \in Connections : process[c] = p => call[c] = NoCall
  BY <1>1, <1>3 DEF ProcessDies, sqliteVars
<1> QED  BY <1>2, <1>3

\* The same of every step of the system.
LEMMA NextIsSqlite ==
    ASSUME ControlInvariant, [SharedNext]_sharedVars
    PROVE  [SqliteNext]_sqliteVars
<1>1. CASE UNCHANGED sharedVars
  BY <1>1 DEF sharedVars
<1>2. ASSUME NEW c \in Connections, Start(c)
      PROVE  [SqliteNext]_sqliteVars
  BY <1>2 DEF Start
<1>3. ASSUME NEW k \in Keys, ArenaPays(k)
      PROVE  [SqliteNext]_sqliteVars
  BY <1>3 DEF ArenaPays
<1>4. CASE AllEnded
  BY <1>4 DEF AllEnded, sharedVars
<1> QED  BY <1>1, <1>2, <1>3, <1>4, StepIsSqlite, DeathIsSqlite DEF SharedNext

-----------------------------------------------------------------------------
(* The control invariant.                                                    *)

\* What a step of invocation c may do to the walks: it moves its own, when no
\* other invocation of its process is in the middle of a node.
Moves(c, w) ==
    /\ walk' = [walk EXCEPT ![c] = w]
    /\ saved' = saved \/ (saved' = w /\ w.node \in CycleNodes)
    /\ \A d \in Connections \ {c} :
         process[d] = process[c] => walk[d].node \notin {"submitting", "sending", "storing"}
    /\ \A d \in Connections \ {c} : call'[d] = call[d]
    /\ call'[c] # NoCall => w.node \in {"sending", "storing"}
    /\ process' = process /\ starts' = starts
    /\ w \in Walk /\ Positioned(w)

\* The values a walk may hold.
LEMMA WalkFields ==
    ASSUME ControlInvariant, NEW c \in Connections
    PROVE  /\ walk[c] \in Walk /\ walk \in [Connections -> Walk]
           /\ call \in [Connections -> PendingUpdate \cup {NoCall}]
           /\ walk[c].node \in {"submitting", "sending", "storing"} <=> MidNode(c)
BY DEF ControlInvariant, SharedTypeOK, SqliteTypeOK, MidNode

\* A select touches no other connection's call.
LEMMA SelectMoves ==
    ASSUME ControlInvariant, NEW c \in Connections, NEW st, NEW r, Select(c, st, r)
    PROVE  \A d \in Connections \ {c} : call'[d] = call[d]
BY WalkFields DEF Select, SelectRow, sqliteVars

\* A step of one invocation leaves the others, and the other connections' calls, alone.
LEMMA StepMoves ==
    ASSUME ControlInvariant, NEW c \in Connections, SharedStep(c)
    PROVE  \E w \in Walk : Moves(c, w)
<1> USE DEF Moves
<1>0. /\ walk[c] \in Walk /\ walk \in [Connections -> Walk]
      /\ call \in [Connections -> PendingUpdate \cup {NoCall}]
      /\ Positioned(walk[c])
      /\ call[c] # NoCall => walk[c].node \in {"sending", "storing"}
  BY WalkFields DEF ControlInvariant
<1>1. CASE PrepareNext(c)
  <2> DEFINE node == CASE Created(Pending(c)) -> "execute_purchase"
           [] journal[Pending(c)].status \in {"prepared", "submitted", "unknown"} ->
                "reconcile_purchase"
           [] OTHER -> "record_purchase"
         w == [walk[c] EXCEPT !.node = node]
  <2>1. node \in {"execute_purchase", "reconcile_purchase", "record_purchase"}
    OBVIOUS
  <2>2. walk' = [walk EXCEPT ![c] = w] /\ saved' = w
    BY <1>1 DEF PrepareNext, Ends
  <2> HIDE DEF node
  <2>3. w \in Walk /\ w.node = node /\ Positioned(w) /\ w.node \in CycleNodes
    BY <1>0, <1>1, <2>1 DEF Walk, Nodes, CycleNodes, Positioned, PrepareNext
  <2>4. Moves(c, w)
    BY <1>1, <2>1, <2>2, <2>3 DEF PrepareNext, At, MidNode, SqlitePrepare
  <2> QED  BY <2>3, <2>4
<1>2. CASE Complete(c)
  <2> DEFINE w == [walk[c] EXCEPT !.node = "complete"]
  <2>1. w \in Walk /\ Positioned(w) /\ w.node = "complete"
    BY <1>0, <1>2 DEF Walk, Nodes, CycleNodes, Positioned, Complete
  <2>2. Moves(c, w)
    BY <1>2, <2>1 DEF Complete, Ends, At, MidNode, CycleNodes, sqliteVars
  <2> QED  BY <2>1, <2>2
<1>3. CASE CheckPrepared(c)
  <2>1. CASE journal[Pending(c)].status = "prepared"
    <3> DEFINE w == [walk[c] EXCEPT !.node = "submitting"]
    <3>1. w \in Walk /\ Positioned(w) /\ w.node = "submitting"
      BY <1>0, <1>3 DEF Walk, Nodes, Positioned, CheckPrepared, At
    <3>2. walk' = [walk EXCEPT ![c] = w]
      BY <1>0, <1>3, <2>1 DEF CheckPrepared, Stays, Walk
    <3>3. Moves(c, w)
      BY <1>3, <2>1, <3>1, <3>2 DEF CheckPrepared, Stays, At, MidNode, sqliteVars
    <3> QED  BY <3>1, <3>3
  <2>2. CASE journal[Pending(c)].status # "prepared"
    <3> DEFINE w == [walk[c] EXCEPT !.node = "reconcile_purchase"]
    <3>1. w \in Walk /\ Positioned(w) /\ w.node = "reconcile_purchase"
      BY <1>0, <1>3 DEF Walk, Nodes, CycleNodes, Positioned, CheckPrepared, At
    <3>2. Moves(c, w)
      BY <1>3, <2>2, <3>1 DEF CheckPrepared, Ends, At, MidNode, sqliteVars, CycleNodes
    <3> QED  BY <3>1, <3>2
  <2> QED  BY <2>1, <2>2
<1>4. CASE Submit(c)
  <2> DEFINE w == [walk[c] EXCEPT !.node = "sending"]
  <2>1. w \in Walk /\ Positioned(w) /\ w.node = "sending"
    BY <1>0, <1>4 DEF Walk, Nodes, Positioned, Submit, At
  <2>2. walk' = [walk EXCEPT ![c] = w]
    BY <1>0, <1>4 DEF Submit, Stays, Walk
  <2>3. \A d \in Connections \ {c} : call'[d] = call[d]
    BY <1>4, SelectMoves DEF Submit
  <2>4. Moves(c, w)
    BY <1>4, <2>1, <2>2, <2>3 DEF Submit, Stays, At, MidNode
  <2> QED  BY <2>1, <2>4
<1>5. CASE Update(c)
  <2>1. walk' = [walk EXCEPT ![c] = walk[c]] /\ saved' = saved
    BY <1>0, <1>5 DEF Update, cycleVars
  <2>2. call' = [call EXCEPT ![c] = NoCall]
    BY <1>5 DEF Update, UpdateRow
  <2>3. Moves(c, walk[c])
    BY <1>0, <1>5, <2>1, <2>2 DEF Update, MidNode
  <2> QED  BY <1>0, <2>3
<1>6. CASE Send(c)
  <2> DEFINE w == [walk[c] EXCEPT !.node = "buying"]
  <2>1. w \in Walk /\ Positioned(w) /\ w.node = "buying"
    BY <1>0, <1>6 DEF Walk, Nodes, Positioned, Send, At
  <2>2. walk' = [walk EXCEPT ![c] = w]
    BY <1>0, <1>6 DEF Send, Stays, Walk
  <2>3. Moves(c, w)
    BY <1>6, <2>1, <2>2 DEF Send, Stays, At, MidNode, sqliteVars
  <2> QED  BY <2>1, <2>3
<1>7. CASE BuyReturns(c) \/ BuyFails(c) \/ BuyTimesOut(c) \/ Reconcile(c)
  <2>1. PICK t \in Verdicts(Pending(c)), then \in {"record_purchase", "reconcile_purchase"} :
          /\ Store(c, t[1], t[2], then)
          /\ \E node \in {"buying", "reconcile_purchase"} : At(c, node)
    BY <1>7, StoreShape
  <2> DEFINE w == [walk[c] EXCEPT !.node = "storing", !.then = then]
  <2>2. w \in Walk /\ Positioned(w) /\ w.node = "storing"
    BY <1>0, <2>1 DEF Walk, Nodes, CycleNodes, Positioned, At
  <2>3. walk' = [walk EXCEPT ![c] = w]
    BY <1>0, <2>1 DEF Store, Walk
  <2>4. \A d \in Connections \ {c} : call'[d] = call[d]
    BY <2>1, SelectMoves DEF Store
  <2>5. Moves(c, w)
    BY <2>1, <2>2, <2>3, <2>4 DEF Store, At, MidNode
  <2> QED  BY <2>2, <2>5
<1>8. CASE StoreDone(c)
  <2> DEFINE w == [walk[c] EXCEPT !.node = walk[c].then, !.then = "complete"]
  <2>1. walk[c].then \in {"record_purchase", "reconcile_purchase"}
    BY <1>0, <1>8 DEF StoreDone, At, Positioned
  <2>2. w \in Walk /\ Positioned(w) /\ w.node = walk[c].then
    BY <1>0, <1>8, <2>1 DEF Walk, Nodes, CycleNodes, Positioned, StoreDone, At
  <2>3. Moves(c, w)
    BY <1>8, <2>1, <2>2 DEF StoreDone, Ends, At, MidNode, sqliteVars, CycleNodes
  <2> QED  BY <2>2, <2>3
<1>9. CASE Record(c)
  <2> DEFINE op == journal[Pending(c)]
             w == [Recorded(walk[c], op) EXCEPT !.node = "prepare_purchase", !.index = @ + 1]
  <2>1. Pending(c) \in Keys
    BY <1>9, PendingAt DEF Record, At
  <2>2. op.status = "settled" => op.receipt \in Receipts
    BY <2>1 DEF ControlInvariant, SharedTypeOK, SqliteTypeOK, TypeOK, SqliteInvariant,
                SettledHasReceipt, OutboundOperation
  <2> DEFINE v == Recorded(walk[c], op)
  <2>21. v \in Walk
    BY <1>0, <2>2 DEF Walk, Recorded
  <2>22. w = [v EXCEPT !.node = "prepare_purchase", !.index = @ + 1]
    OBVIOUS
  <2> HIDE DEF v
  <2>23. v.index + 1 \in Nat \ {0}
    BY <2>21 DEF Walk
  <2> HIDE DEF w
  <2>3. w \in Walk /\ w.node = "prepare_purchase"
    BY <2>21, <2>22, <2>23 DEF Walk, Nodes, CycleNodes
  <2>4. Positioned(w)
    BY <2>3 DEF Positioned
  <2>5. walk' = [walk EXCEPT ![c] = w] /\ saved' = w
    BY <1>9 DEF Record, Ends, w
  <2>6. Moves(c, w)
    BY <1>9, <2>3, <2>4, <2>5 DEF Record, At, MidNode, sqliteVars, CycleNodes
  <2> QED  BY <2>3, <2>6
<1> QED  BY <1>1, <1>2, <1>3, <1>4, <1>5, <1>6, <1>7, <1>8, <1>9 DEF SharedStep

\* Steps outside the walks keep the rest of the types.
LEMMA StepKeepsTypes ==
    ASSUME ControlInvariant, [SharedNext]_sharedVars
    PROVE  /\ sends' \in [Keys -> Nat] /\ refused' \in [Keys -> Nat]
           /\ paid' \subseteq Keys /\ starts' \in 0 .. MaxStarts
           /\ process' = process
<1>1. /\ sends \in [Keys -> Nat] /\ refused \in [Keys -> Nat]
      /\ paid \subseteq Keys /\ starts \in 0 .. MaxStarts
  BY DEF ControlInvariant, SharedTypeOK
<1>2. CASE UNCHANGED sharedVars
  BY <1>1, <1>2 DEF sharedVars, remoteVars
<1>3. ASSUME NEW c \in Connections, SharedStep(c)
      PROVE  /\ sends' \in [Keys -> Nat] /\ refused' \in [Keys -> Nat]
             /\ paid' = paid /\ starts' = starts /\ process' = process
  <2>1. CASE PrepareNext(c) \/ Complete(c) \/ CheckPrepared(c) \/ Submit(c) \/ Update(c)
             \/ StoreDone(c) \/ Record(c)
    BY <1>1, <2>1 DEF PrepareNext, Complete, CheckPrepared, Submit, Update, StoreDone,
                      Record, remoteVars
  <2>2. CASE Send(c)
    <3>1. Pending(c) \in Keys
      BY <2>2, PendingAt DEF Send, At
    <3> QED  BY <1>1, <2>2, <3>1 DEF Send
  <2>3. CASE BuyReturns(c) \/ BuyFails(c) \/ BuyTimesOut(c) \/ Reconcile(c)
    BY <1>1, <2>3, StoreShape DEF Store
  <2> QED  BY <1>3, <2>1, <2>2, <2>3 DEF SharedStep
<1> DEFINE Kept ==
      /\ sends' \in [Keys -> Nat] /\ refused' \in [Keys -> Nat]
      /\ paid' \subseteq Keys /\ starts' \in 0 .. MaxStarts
      /\ process' = process
<1>4. ASSUME NEW c \in Connections, Start(c) PROVE Kept
  BY <1>1, <1>4, SharedRunAssumption DEF Start, remoteVars
<1>5. ASSUME NEW k \in Keys, ArenaPays(k) PROVE Kept
  BY <1>1, <1>5 DEF ArenaPays
<1>6. ASSUME NEW p \in Processes, ProcessDies(p) PROVE Kept
  BY <1>1, <1>6 DEF ProcessDies, remoteVars
<1>7. CASE AllEnded
  BY <1>1, <1>7 DEF AllEnded, sharedVars, remoteVars
<1>8. ASSUME NEW c \in Connections, SharedStep(c) PROVE Kept
  BY <1>1, <1>3, <1>8
<1> HIDE DEF Kept
<1>9. CASE SharedNext
  BY <1>4, <1>5, <1>6, <1>7, <1>8, <1>9 DEF SharedNext, Kept
<1> QED  BY <1>2, <1>9 DEF Kept

\* A fresh walk, and the shape of a stopped one.
LEMMA FreshWalkSound ==
    /\ FreshWalk \in Walk /\ Positioned(FreshWalk)
    /\ FreshWalk.node \in CycleNodes
    /\ [FreshWalk EXCEPT !.node = "stopped"] \in Walk
    /\ Positioned([FreshWalk EXCEPT !.node = "stopped"])
    /\ [FreshWalk EXCEPT !.node = "stopped"].node = "stopped"
<1>1. FreshWalk \in Walk
  BY DEF FreshWalk, Walk, Nodes, CycleNodes
<1>2. FreshWalk.node = "prepare_purchase"
  BY DEF FreshWalk
<1> DEFINE w == [FreshWalk EXCEPT !.node = "stopped"]
<1>3. w \in Walk /\ w.node = "stopped"
  BY <1>1 DEF Walk, Nodes
<1> QED  BY <1>1, <1>2, <1>3 DEF Positioned, CycleNodes

\* Nobody has started: the control invariant holds at first.
LEMMA ControlInitial == SharedInit => ControlInvariant
<1> SUFFICES ASSUME SharedInit PROVE ControlInvariant
  OBVIOUS
<1>1. SqliteInvariant
  BY SqliteInitial DEF SharedInit
<1>2. SharedTypeOK
  BY <1>1, FreshWalkSound, SharedRunAssumption DEF SharedInit, SharedTypeOK, SqliteInvariant
<1>3. \A c \in Connections : /\ walk[c] = [FreshWalk EXCEPT !.node = "stopped"]
                              /\ call[c] = NoCall
  BY DEF SharedInit, SqliteInit
<1> QED
  BY <1>1, <1>2, <1>3, FreshWalkSound DEF SharedInit, ControlInvariant, MidNode

\* Every step, a death and a start among them, keeps the control invariant.
LEMMA ControlStep == ControlInvariant /\ [SharedNext]_sharedVars => ControlInvariant'
<1> SUFFICES ASSUME ControlInvariant, [SharedNext]_sharedVars PROVE ControlInvariant'
  OBVIOUS
<1>1. SqliteInvariant'
  BY NextIsSqlite, SqliteStep DEF ControlInvariant
<1>2. /\ sends' \in [Keys -> Nat] /\ refused' \in [Keys -> Nat]
      /\ paid' \subseteq Keys /\ starts' \in 0 .. MaxStarts /\ process' = process
  BY StepKeepsTypes
<1>3. /\ walk \in [Connections -> Walk] /\ saved \in Walk /\ saved.node \in CycleNodes
      /\ Positioned(saved) /\ process \in [Connections -> Processes]
      /\ \A c \in Connections : Positioned(walk[c])
      /\ \A c \in Connections : call[c] # NoCall => walk[c].node \in {"sending", "storing"}
      /\ \A c \in Connections, d \in Connections :
           c # d /\ process[c] = process[d] =>
             \/ walk[c].node \notin {"submitting", "sending", "storing"}
             \/ walk[d].node \notin {"submitting", "sending", "storing"}
  BY DEF ControlInvariant, SharedTypeOK, MidNode
<1> DEFINE Walks ==
      /\ walk \in [Connections -> Walk] /\ saved \in Walk /\ saved.node \in CycleNodes
      /\ Positioned(saved)
      /\ \A c \in Connections : Positioned(walk[c])
      /\ \A c \in Connections : call[c] # NoCall => walk[c].node \in {"sending", "storing"}
      /\ \A c \in Connections, d \in Connections :
           c # d /\ process[c] = process[d] =>
             \/ walk[c].node \notin {"submitting", "sending", "storing"}
             \/ walk[d].node \notin {"submitting", "sending", "storing"}
<1>4. ASSUME NEW c \in Connections, NEW w \in Walk, Moves(c, w) PROVE Walks'
  <2>1. \A d \in Connections : walk'[d] = IF d = c THEN w ELSE walk[d]
    BY <1>3, <1>4 DEF Moves
  <2>2. walk' \in [Connections -> Walk] /\ saved' \in Walk
    BY <1>3, <1>4 DEF Moves
  <2>3. saved'.node \in CycleNodes /\ Positioned(saved')
    BY <1>3, <1>4 DEF Moves
  <2>4. \A d \in Connections : Positioned(walk'[d])
    BY <1>3, <1>4, <2>1 DEF Moves
  <2>5. \A d \in Connections : call'[d] # NoCall => walk'[d].node \in {"sending", "storing"}
    BY <1>3, <1>4, <2>1 DEF Moves
  <2>6. \A d \in Connections, e \in Connections :
           d # e /\ process'[d] = process'[e] =>
             \/ walk'[d].node \notin {"submitting", "sending", "storing"}
             \/ walk'[e].node \notin {"submitting", "sending", "storing"}
    BY <1>2, <1>3, <1>4, <2>1 DEF Moves
  <2>7. Positioned(saved)' /\ \A d \in Connections : Positioned(walk[d])'
    BY <2>3, <2>4 DEF Positioned
  <2> QED  BY <2>2, <2>3, <2>5, <2>6, <2>7
<1>5. ASSUME NEW c \in Connections, SharedStep(c) PROVE Walks'
  BY <1>4, <1>5, StepMoves
<1>6. ASSUME NEW c \in Connections, Start(c) PROVE Walks'
  BY <1>2, <1>3, <1>6 DEF Start, sqliteVars, CycleNodes, Positioned
<1>7. ASSUME NEW p \in Processes, ProcessDies(p) PROVE Walks'
  BY <1>2, <1>3, <1>7, FreshWalkSound DEF ProcessDies, Positioned
<1>8. ASSUME UNCHANGED <<walk, saved, call>> PROVE Walks'
  BY <1>2, <1>3, <1>8 DEF Positioned
<1>9. ASSUME NEW k \in Keys, ArenaPays(k) PROVE UNCHANGED <<walk, saved, call>>
  BY <1>9 DEF ArenaPays, cycleVars, sqliteVars
<1>10. UNCHANGED sharedVars \/ AllEnded => UNCHANGED <<walk, saved, call>>
  BY DEF AllEnded, sharedVars, cycleVars, sqliteVars
<1>11. Walks'
  BY <1>5, <1>6, <1>7, <1>8, <1>9, <1>10 DEF SharedNext
<1> QED
  BY <1>1, <1>2, <1>3, <1>11 DEF ControlInvariant, SharedTypeOK, SqliteInvariant, MidNode

\* Types and turns hold of every behaviour.
LEMMA ControlInvariance == SharedSpec => []ControlInvariant
BY ControlInitial, ControlStep, PTL DEF SharedSpec

\* The workflow reaches the journal through prepare and transition only: whatever
\* is proved of the table for any caller holds of the invocations that share it.
THEOREM WorkflowUsesTheJournal == SharedSpec => SqliteSpec
<1>1. SharedInit => SqliteInit
  BY DEF SharedInit
<1> QED  BY ControlInvariance, NextIsSqlite, <1>1, PTL DEF SharedSpec, SqliteSpec

\* Invocations of any number of processes never redirect a key and never take a
\* submitted purchase for a fresh one (operation_journal.py:206 and 276).
THEOREM ResumedNothingPreparedAgain == SharedSpec => NeverPreparedAgain
BY WorkflowUsesTheJournal, NothingPreparedAgain, PTL

\* Type correctness of the invocations, the checkpoint and the table.
THEOREM SharedTypeCorrect == SharedSpec => []SharedTypeOK
<1>1. ControlInvariant => SharedTypeOK  BY DEF ControlInvariant
<1> QED  BY ControlInvariance, <1>1, PTL

-----------------------------------------------------------------------------
(* What a valid report is worth.                                             *)

\* A SETTLED row, or an update that will make one, is a paid purchase with its
\* own receipt.
SettledIsPaid ==
    /\ \A k \in Keys : journal[k].status = "settled" =>
                         k \in paid /\ journal[k].receipt = ReceiptOf[k]
    /\ \A c \in Connections : call[c] # NoCall /\ call[c].status = "settled" =>
         call[c].key \in paid /\ call[c].receipt = ReceiptOf[call[c].key]

\* Without a violation every position that was passed is paid and counted.
Counted(s, funded) ==
    ~s.violated =>
      \A i \in 1 .. Len(PurchasePlan) : i < s.index =>
        PurchasePlan[i] \in funded /\ ReceiptOf[PurchasePlan[i]] \in s.receipts

MoneyInvariant ==
    /\ SettledIsPaid
    /\ Counted(saved, paid) /\ \A c \in Connections : Counted(walk[c], paid)

\* No step takes a payment back.
LEMMA PaidGrows ==
    ASSUME ControlInvariant, [SharedNext]_sharedVars PROVE paid \subseteq paid'
<1>1. ASSUME NEW c \in Connections, SharedStep(c) PROVE paid' = paid
  BY <1>1, StoreShape
     DEF SharedStep, PrepareNext, Complete, CheckPrepared, Submit, Update, Send, StoreDone,
         Record, Store, remoteVars
<1>2. ASSUME NEW c \in Connections, Start(c) PROVE paid' = paid
  BY <1>2 DEF Start, remoteVars
<1>3. ASSUME NEW k \in Keys, ArenaPays(k) PROVE paid \subseteq paid'
  BY <1>3 DEF ArenaPays
<1>4. ASSUME NEW p \in Processes, ProcessDies(p) PROVE paid' = paid
  BY <1>4 DEF ProcessDies, remoteVars
<1>5. AllEnded \/ UNCHANGED sharedVars => paid' = paid
  BY DEF AllEnded, sharedVars, remoteVars
<1> QED  BY <1>1, <1>2, <1>3, <1>4, <1>5 DEF SharedNext

\* A select leaves the table alone; its call, if any, is the one asked for.
LEMMA SelectEffect ==
    ASSUME ControlInvariant, NEW c \in Connections, NEW status, NEW receipt,
           Select(c, status, receipt)
    PROVE  /\ journal' = journal
           /\ \A d \in Connections \ {c} : call'[d] = call[d]
           /\ \/ call'[c] = call[c]
              \/ /\ call'[c].status = status /\ call'[c].receipt = receipt
                 /\ call'[c].key = Pending(c) /\ call'[c].seen = journal[Pending(c)]
                 /\ ~(journal[Pending(c)].status = "settled" /\ status # "settled")
BY WalkFields DEF Select, SelectRow, sqliteVars

\* Only a paid purchase becomes SETTLED, whoever updates its row.
LEMMA SettledIsPaidStep ==
    ASSUME ControlInvariant, SettledIsPaid, [SharedNext]_sharedVars
    PROVE  SettledIsPaid'
<1>1. /\ call \in [Connections -> PendingUpdate \cup {NoCall}]
      /\ journal \in [Keys -> OutboundOperation]
      /\ paid \subseteq paid'
  BY PaidGrows DEF ControlInvariant, SharedTypeOK, SqliteTypeOK, TypeOK
<1>2. ASSUME journal' = journal,
             \A d \in Connections : call'[d] = call[d] \/ call'[d] = NoCall
      PROVE  SettledIsPaid'
  BY <1>1, <1>2 DEF SettledIsPaid
<1>3. ASSUME NEW c \in Connections, PrepareNext(c) PROVE SettledIsPaid'
  <2>1. Pending(c) \in Keys
    BY <1>3, PendingIsKey DEF PrepareNext
  <2> QED
    BY <1>1, <1>3, <2>1 DEF PrepareNext, SqlitePrepare, Prepare, SettledIsPaid
<1>4. ASSUME NEW c \in Connections, Submit(c) PROVE SettledIsPaid'
  BY <1>1, <1>4, SelectEffect DEF Submit, SettledIsPaid
<1>5. ASSUME NEW c \in Connections, BuyReturns(c) \/ BuyFails(c) \/ BuyTimesOut(c) \/ Reconcile(c)
      PROVE  SettledIsPaid'
  <2>1. PICK t \in Verdicts(Pending(c)), then \in {"record_purchase", "reconcile_purchase"} :
          /\ t[1] = "settled" => Pending(c) \in paid
          /\ Store(c, t[1], t[2], then)
    BY <1>5, StoreShape
  <2>2. t[1] = "settled" => t[2] = ReceiptOf[Pending(c)]
    BY DEF Verdicts
  <2>3. Select(c, t[1], t[2])
    BY <2>1 DEF Store
  <2> QED  BY <1>1, <2>1, <2>2, <2>3, SelectEffect DEF SettledIsPaid
<1>6. ASSUME NEW c \in Connections, Update(c) PROVE SettledIsPaid'
  <2> DEFINE u == call[c]
  <2>1. u \in PendingUpdate /\ u.key \in Keys
    BY <1>1, <1>6 DEF Update, UpdateRow, PendingUpdate
  <2>2. u.status = "settled" => u.key \in paid /\ u.receipt = ReceiptOf[u.key]
    BY <1>6 DEF SettledIsPaid, Update, UpdateRow
  <2>3. \A k \in Keys : ReceiptOf[k] # NoReceipt
    BY SharedRunAssumption, NoValueAssumption
  <2>4. /\ \A k \in Keys \ {u.key} : journal'[k] = journal[k]
        /\ journal'[u.key].status = u.status
        /\ u.receipt # NoReceipt => journal'[u.key].receipt = u.receipt
    BY <1>1, <1>6, <2>1 DEF Update, UpdateRow, OutboundOperation
  <2>5. \A d \in Connections : call'[d] = call[d] \/ call'[d] = NoCall
    BY <1>1, <1>6 DEF Update, UpdateRow
  <2> QED  BY <1>1, <2>1, <2>2, <2>3, <2>4, <2>5 DEF SettledIsPaid
<1>7. ASSUME NEW c \in Connections,
             Complete(c) \/ CheckPrepared(c) \/ Send(c) \/ StoreDone(c) \/ Record(c) \/ Start(c)
      PROVE  SettledIsPaid'
  BY <1>2, <1>7 DEF Complete, CheckPrepared, Send, StoreDone, Record, Start, sqliteVars
<1>8. ASSUME NEW k \in Keys, ArenaPays(k) PROVE SettledIsPaid'
  BY <1>2, <1>8 DEF ArenaPays, sqliteVars
<1>9. ASSUME NEW p \in Processes, ProcessDies(p) PROVE SettledIsPaid'
  BY <1>2, <1>9 DEF ProcessDies
<1>10. CASE AllEnded \/ UNCHANGED sharedVars
  BY <1>2, <1>10 DEF AllEnded, sharedVars, sqliteVars
<1> QED
  BY <1>3, <1>4, <1>5, <1>6, <1>7, <1>8, <1>9, <1>10 DEF SharedNext, SharedStep

\* record_purchase counts the purchase it passes, or notes a violation.
LEMMA CountedRecord ==
    ASSUME ControlInvariant, SettledIsPaid, [SharedNext]_sharedVars,
           NEW c \in Connections, Counted(walk[c], paid), Record(c)
    PROVE  Counted(walk'[c], paid') /\ saved' = walk'[c]
<1> DEFINE op == journal[Pending(c)]
           v == Recorded(walk[c], op)
           w == [v EXCEPT !.node = "prepare_purchase", !.index = @ + 1]
<1>1. walk[c] \in Walk /\ Pending(c) \in Keys /\ Pending(c) = PurchasePlan[walk[c].index]
  BY WalkFields, PendingAt DEF Record, At, Pending
<1>2. walk'[c] = w /\ saved' = w
  BY WalkFields DEF Record, Ends
<1>3. v.index = walk[c].index /\ walk[c].receipts \subseteq v.receipts
  BY <1>1 DEF Recorded, Walk
<1>4. ~v.violated =>
        /\ ~walk[c].violated
        /\ op.status = "settled" /\ op.receipt \in v.receipts
  BY <1>1 DEF Recorded, Walk
<1>5. op.status = "settled" => Pending(c) \in paid /\ op.receipt = ReceiptOf[Pending(c)]
  BY <1>1 DEF SettledIsPaid
<1>21. DOMAIN v = DOMAIN walk[c]
  BY <1>1 DEF Recorded, Walk
<1> HIDE DEF v
<1>6. w.index = walk[c].index + 1 /\ w.receipts = v.receipts /\ w.violated = v.violated
  BY <1>1, <1>3, <1>21 DEF Walk
<1>7. paid \subseteq paid'
  BY PaidGrows
<1> HIDE DEF w
<1>8. Counted(w, paid')
  <2> SUFFICES ASSUME ~w.violated, NEW i \in 1 .. Len(PurchasePlan), i < w.index
               PROVE  PurchasePlan[i] \in paid' /\ ReceiptOf[PurchasePlan[i]] \in w.receipts
    BY DEF Counted
  <2>1. walk[c].index \in Nat
    BY <1>1 DEF Walk
  <2>2. CASE i < walk[c].index
    BY <1>3, <1>4, <1>6, <1>7, <2>2 DEF Counted
  <2>3. CASE i = walk[c].index
    BY <1>1, <1>4, <1>5, <1>6, <1>7, <2>3
  <2> QED  BY <1>6, <2>1, <2>2, <2>3
<1> QED  BY <1>2, <1>8

\* What a step of invocation c other than record_purchase makes of the walks.
LEMMA StepCarries ==
    ASSUME ControlInvariant, NEW c \in Connections, SharedStep(c), ~Record(c)
    PROVE  \E w : /\ walk' = [walk EXCEPT ![c] = w]
                  /\ saved' = saved \/ saved' = w
                  /\ w.index = walk[c].index /\ w.receipts = walk[c].receipts
                  /\ w.violated = walk[c].violated
<1>1. walk[c] \in Walk /\ walk \in [Connections -> Walk]
  BY WalkFields
<1> DEFINE Carries(w) == w.index = walk[c].index /\ w.receipts = walk[c].receipts
                         /\ w.violated = walk[c].violated
<1>2. ASSUME NEW n, NEW t
      PROVE  /\ Carries([walk[c] EXCEPT !.node = n])
             /\ Carries([walk[c] EXCEPT !.node = n, !.then = t])
  BY <1>1 DEF Walk
<1> DEFINE Goal == \E w : /\ walk' = [walk EXCEPT ![c] = w]
                          /\ saved' = saved \/ saved' = w
                          /\ Carries(w)
<1>21. ASSUME NEW n, Ends(c, [walk[c] EXCEPT !.node = n]) PROVE Goal
  BY <1>2, <1>21 DEF Ends
<1>22. ASSUME NEW n, Stays(c, n) PROVE Goal
  <2>1. walk' = [walk EXCEPT ![c] = [walk[c] EXCEPT !.node = n]]
    BY <1>1, <1>22 DEF Stays, Walk
  <2> QED  BY <1>2, <1>22, <2>1 DEF Stays
<1>3. CASE PrepareNext(c) \/ Complete(c)
  BY <1>21, <1>3 DEF PrepareNext, Complete
<1>4. CASE StoreDone(c)
  <2> DEFINE w == [walk[c] EXCEPT !.node = walk[c].then, !.then = "complete"]
  <2>1. Carries(w)
    BY <1>2
  <2>2. walk' = [walk EXCEPT ![c] = w] /\ saved' = w
    BY <1>4 DEF StoreDone, Ends
  <2> QED  BY <2>1, <2>2
<1>5. CASE CheckPrepared(c) \/ Submit(c) \/ Send(c)
  BY <1>21, <1>22, <1>5 DEF CheckPrepared, Submit, Send
<1>6. CASE Update(c)
  BY <1>1, <1>6 DEF Update, cycleVars
<1>7. CASE BuyReturns(c) \/ BuyFails(c) \/ BuyTimesOut(c) \/ Reconcile(c)
  <2>1. PICK t \in Verdicts(Pending(c)), then \in {"record_purchase", "reconcile_purchase"} :
          Store(c, t[1], t[2], then)
    BY <1>7, StoreShape
  <2> DEFINE w == [walk[c] EXCEPT !.node = "storing", !.then = then]
  <2>2. Carries(w)
    BY <1>2
  <2>3. walk' = [walk EXCEPT ![c] = w] /\ saved' = saved
    BY <1>1, <2>1 DEF Store, Walk
  <2> QED  BY <2>2, <2>3
<1> QED  BY <1>3, <1>4, <1>5, <1>6, <1>7 DEF SharedStep

\* No step makes a walk or a checkpoint count what was not paid.
LEMMA MoneyStep ==
    ASSUME ControlInvariant, MoneyInvariant, [SharedNext]_sharedVars
    PROVE  MoneyInvariant'
<1>1. SettledIsPaid'
  BY SettledIsPaidStep DEF MoneyInvariant
<1>2. walk \in [Connections -> Walk] /\ saved \in Walk
  BY DEF ControlInvariant, SharedTypeOK
<1> DEFINE CountsNext == Counted(saved', paid') /\ \A c \in Connections : Counted(walk'[c], paid')
<1>3. \A s, w : Counted(s, paid) /\ w.index = s.index /\ w.receipts = s.receipts
                 /\ w.violated = s.violated => Counted(w, paid')
  BY PaidGrows DEF Counted
<1>4. paid \subseteq paid'
  BY PaidGrows
<1>5. ASSUME NEW c \in Connections, SharedStep(c), ~Record(c) PROVE CountsNext
  <2>1. PICK w : /\ walk' = [walk EXCEPT ![c] = w]
                 /\ saved' = saved \/ saved' = w
                 /\ w.index = walk[c].index /\ w.receipts = walk[c].receipts
                 /\ w.violated = walk[c].violated
    BY <1>5, StepCarries
  <2>2. \A d \in Connections : walk'[d] = IF d = c THEN w ELSE walk[d]
    BY <1>2, <2>1
  <2> QED  BY <1>3, <2>1, <2>2 DEF MoneyInvariant
<1>6. ASSUME NEW c \in Connections, Record(c) PROVE CountsNext
  <2>1. Counted(walk'[c], paid') /\ saved' = walk'[c]
    BY <1>6, CountedRecord DEF MoneyInvariant
  <2>2. \A d \in Connections \ {c} : walk'[d] = walk[d]
    BY <1>2, <1>6 DEF Record, Ends
  <2> QED  BY <1>3, <2>1, <2>2 DEF MoneyInvariant
<1>7. ASSUME NEW c \in Connections, Start(c) PROVE CountsNext
  BY <1>2, <1>4, <1>7 DEF Start, MoneyInvariant, Counted
<1>8. ASSUME NEW p \in Processes, ProcessDies(p) PROVE CountsNext
  <2>1. /\ [FreshWalk EXCEPT !.node = "stopped"].index = 1
    BY DEF FreshWalk
  <2>2. \A c \in Connections : walk'[c].index = 1 \/ walk'[c] = walk[c]
    BY <1>2, <1>8, <2>1 DEF ProcessDies
  <2>3. \A i \in 1 .. Len(PurchasePlan) : ~(i < 1)
    BY SharedRunAssumption
  <2> QED  BY <1>4, <1>8, <2>2, <2>3 DEF ProcessDies, MoneyInvariant, Counted
<1>9. ASSUME UNCHANGED <<walk, saved>> PROVE CountsNext
  BY <1>4, <1>9 DEF MoneyInvariant, Counted
<1>10. ASSUME NEW k \in Keys, ArenaPays(k) PROVE UNCHANGED <<walk, saved>>
  BY <1>10 DEF ArenaPays, cycleVars
<1>11. AllEnded \/ UNCHANGED sharedVars => UNCHANGED <<walk, saved>>
  BY DEF AllEnded, sharedVars, cycleVars
<1>12. CountsNext
  BY <1>5, <1>6, <1>7, <1>8, <1>9, <1>10, <1>11 DEF SharedNext
<1> QED  BY <1>1, <1>12 DEF MoneyInvariant, Counted

\* A report without violations is worth what it says, whichever invocation of
\* whichever process wrote it (graph.py:440-493).
THEOREM ValidReportsArePaid == SharedSpec => []ValidMeansPaid
<1>1. SharedInit => MoneyInvariant
  <2> SUFFICES ASSUME SharedInit PROVE MoneyInvariant
    OBVIOUS
  <2>1. SettledIsPaid
    BY DEF SharedInit, SqliteInit, Init, Absent, SettledIsPaid
  <2>2. saved.index = 1 /\ \A c \in Connections : walk[c].index = 1
    BY DEF SharedInit, FreshWalk
  <2>3. \A i \in 1 .. Len(PurchasePlan) : ~(i < 1)
    BY SharedRunAssumption
  <2> QED  BY <2>1, <2>2, <2>3 DEF MoneyInvariant, Counted
<1>2. ControlInvariant /\ MoneyInvariant => ValidMeansPaid
  <2> SUFFICES ASSUME ControlInvariant, MoneyInvariant,
                      NEW s \in {saved} \cup {walk[c] : c \in Connections},
                      s.node = "complete", ~s.violated,
                      NEW i \in 1 .. Len(PurchasePlan)
               PROVE  PurchasePlan[i] \in paid /\ ReceiptOf[PurchasePlan[i]] \in s.receipts
    BY DEF ValidMeansPaid
  <2>1. Counted(s, paid) /\ Positioned(s) /\ s \in Walk
    BY DEF MoneyInvariant, ControlInvariant, SharedTypeOK
  <2>2. i < s.index
    BY <2>1, SharedRunAssumption DEF Positioned, Walk
  <2> QED  BY <2>1, <2>2 DEF Counted
<1> QED  BY ControlInvariance, MoneyStep, <1>1, <1>2, PTL DEF SharedSpec

-----------------------------------------------------------------------------
(* Invocations of one event loop.                                            *)

\* A key that was sent is not sendable, and the invocation about to send one
\* found it PREPARED in this turn of the loop.
SendInvariant ==
    /\ \A k \in Keys :
         sends[k] =< 1 /\ (sends[k] = 1 => journal[k].status \notin {"absent", "prepared"})
    /\ \A c \in Connections :
         /\ walk[c].node = "submitting" => journal[Pending(c)].status = "prepared"
         /\ walk[c].node = "sending" =>
              /\ sends[Pending(c)] = 0
              /\ call[c] = NoCall => journal[Pending(c)].status \notin {"absent", "prepared"}
              /\ call[c] # NoCall => call[c].key = Pending(c)

\* While one invocation of the loop moves, no other has a call pending.
LEMMA OthersIdle ==
    ASSUME ControlInvariant, OneLoop, NEW c \in Connections, SharedStep(c)
    PROVE  \A d \in Connections \ {c} :
             /\ walk'[d] = walk[d] /\ walk[d].node \notin {"submitting", "sending", "storing"}
             /\ call[d] = NoCall /\ call'[d] = NoCall
<1>1. PICK w \in Walk : Moves(c, w)
  BY StepMoves
<1>2. \A d \in Connections \ {c} : walk[d].node \notin {"submitting", "sending", "storing"}
  BY <1>1 DEF Moves, OneLoop
<1>3. \A d \in Connections \ {c} : call[d] = NoCall
  BY <1>2 DEF ControlInvariant
<1> QED  BY <1>1, <1>2, <1>3, WalkFields DEF Moves

\* A selected row is a pending update, which NoCall is not.
LEMMA SelectPends ==
    ASSUME ControlInvariant, NEW c \in Connections, Pending(c) \in Keys,
           journal[Pending(c)].status = "prepared", Select(c, "submitted", NoReceipt)
    PROVE  /\ journal' = journal
           /\ call'[c] # NoCall /\ call'[c].key = Pending(c)
<1>1. /\ call \in [Connections -> PendingUpdate \cup {NoCall}]
      /\ journal[Pending(c)] \in OutboundOperation
  BY DEF ControlInvariant, SharedTypeOK, SqliteTypeOK, TypeOK
<1>2. SelectRow(c, Pending(c), "submitted", NoReceipt)
  BY DEF Select
<1> DEFINE u == [key |-> Pending(c), status |-> "submitted", receipt |-> NoReceipt,
                 seen |-> journal[Pending(c)]]
<1>3. call'[c] = u /\ journal' = journal
  BY <1>1, <1>2 DEF SelectRow
<1>4. u \in [key : Keys, status : TransitionStatuses, receipt : Receipts \cup {NoReceipt},
             seen : OutboundOperation]
  BY <1>1 DEF TransitionStatuses
<1> QED  BY <1>3, <1>4, NoCallAssumption

\* No step of a loop sends a purchase that was sent.
LEMMA SendStep ==
    ASSUME ControlInvariant, OneLoop, SendInvariant, [SharedNext]_sharedVars
    PROVE  SendInvariant'
<1>0. /\ sends \in [Keys -> Nat] /\ walk \in [Connections -> Walk]
      /\ journal \in [Keys -> OutboundOperation]
      /\ call \in [Connections -> PendingUpdate \cup {NoCall}]
  BY DEF ControlInvariant, SharedTypeOK, SqliteTypeOK, TypeOK
<1> DEFINE Sent == \A k \in Keys :
             sends[k] =< 1 /\ (sends[k] = 1 => journal[k].status \notin {"absent", "prepared"})
           Ready(c) ==
         /\ walk[c].node = "submitting" => journal[Pending(c)].status = "prepared"
         /\ walk[c].node = "sending" =>
              /\ sends[Pending(c)] = 0
              /\ call[c] = NoCall => journal[Pending(c)].status \notin {"absent", "prepared"}
              /\ call[c] # NoCall => call[c].key = Pending(c)
<1>1. ASSUME NEW c \in Connections, SharedStep(c), Sent', Ready(c)' PROVE SendInvariant'
  <2>1. \A d \in Connections \ {c} : walk'[d].node \notin {"submitting", "sending"}
    BY <1>1, OthersIdle
  <2> QED  BY <1>1, <2>1 DEF SendInvariant
<1>2. ASSUME NEW c \in Connections, PrepareNext(c) PROVE Sent' /\ Ready(c)'
  <2>1. Pending(c) \in Keys
    BY <1>2, PendingIsKey DEF PrepareNext
  <2>2. walk'[c].node \notin {"submitting", "sending"}
    BY <1>0, <1>2 DEF PrepareNext, Ends, Walk
  <2>3. Sent'
    BY <1>0, <1>2, <2>1 DEF PrepareNext, SqlitePrepare, Prepare, Created, remoteVars, SendInvariant
  <2> QED  BY <2>2, <2>3
<1>3. ASSUME NEW c \in Connections, Complete(c) \/ StoreDone(c) \/ Record(c)
      PROVE  Sent' /\ Ready(c)'
  <2>1. Sent'
    BY <1>3 DEF Complete, StoreDone, Record, sqliteVars, remoteVars, SendInvariant
  <2>2. walk'[c].node \notin {"submitting", "sending"}
    <3>1. CASE Complete(c)
      BY <1>0, <3>1 DEF Complete, Ends, Walk
    <3>2. CASE StoreDone(c)
      BY <1>0, <3>2 DEF StoreDone, Ends, At, Walk, CycleNodes
    <3>3. CASE Record(c)
      <4>1. DOMAIN Recorded(walk[c], journal[Pending(c)]) = DOMAIN walk[c]
        BY <1>0 DEF Recorded, Walk
      <4>2. walk'[c].node = "prepare_purchase"
        BY <1>0, <3>3, <4>1 DEF Record, Ends, Walk
      <4> QED  BY <4>2
    <3> QED  BY <1>3, <3>1, <3>2, <3>3
  <2> QED  BY <2>1, <2>2
<1>4. ASSUME NEW c \in Connections, CheckPrepared(c) PROVE Sent' /\ Ready(c)'
  <2>1. UNCHANGED <<journal, sends>>
    BY <1>4 DEF CheckPrepared, sqliteVars, remoteVars
  <2>2. walk'[c].node # "sending" /\ Pending(c)' = Pending(c)
    BY <1>0, <1>4 DEF CheckPrepared, Stays, Ends, Walk, Pending
  <2>3. walk'[c].node = "submitting" => journal[Pending(c)].status = "prepared"
    BY <1>0, <1>4 DEF CheckPrepared, Stays, Ends, Walk
  <2> QED  BY <2>1, <2>2, <2>3 DEF SendInvariant
<1>5. ASSUME NEW c \in Connections, Submit(c) PROVE Sent' /\ Ready(c)'
  <2>1. Pending(c) \in Keys /\ journal[Pending(c)].status = "prepared"
    BY <1>5, PendingAt DEF Submit, At, SendInvariant
  <2>2. /\ journal' = journal /\ sends' = sends
        /\ call'[c] # NoCall /\ call'[c].key = Pending(c)
    BY <1>5, <2>1, SelectPends DEF Submit, remoteVars
  <2>3. walk'[c].node = "sending" /\ Pending(c)' = Pending(c)
    BY <1>0, <1>5 DEF Submit, Stays, Walk, Pending
  <2>4. sends[Pending(c)] = 0
    BY <1>0, <2>1 DEF SendInvariant
  <2> QED  BY <2>2, <2>3, <2>4 DEF SendInvariant
<1>6. ASSUME NEW c \in Connections, Update(c) PROVE Sent' /\ Ready(c)'
  <2> DEFINE u == call[c]
  <2>1. u \in PendingUpdate /\ u.key \in Keys /\ u.status \notin {"absent", "prepared"}
    BY <1>0, <1>6 DEF Update, UpdateRow, PendingUpdate, TransitionStatuses, VerdictStatuses
  <2>2. /\ \A k \in Keys \ {u.key} : journal'[k] = journal[k]
        /\ journal'[u.key].status = u.status
    BY <1>0, <1>6, <2>1 DEF Update, UpdateRow, OutboundOperation
  <2>3. sends' = sends /\ walk' = walk /\ call'[c] = NoCall
    BY <1>0, <1>6 DEF Update, UpdateRow, remoteVars, cycleVars
  <2>4. u # NoCall /\ walk[c].node \in {"sending", "storing"}
    BY <1>6 DEF Update, UpdateRow, ControlInvariant
  <2>5. Pending(c)' = Pending(c)
    BY <2>3 DEF Pending
  <2> QED  BY <2>1, <2>2, <2>3, <2>4, <2>5 DEF SendInvariant
<1>7. ASSUME NEW c \in Connections, Send(c) PROVE Sent' /\ Ready(c)'
  <2>1. Pending(c) \in Keys /\ call[c] = NoCall /\ walk[c].node = "sending"
    BY <1>7, PendingAt DEF Send, At
  <2>2. walk'[c].node = "buying" /\ journal' = journal
    BY <1>0, <1>7 DEF Send, Stays, Walk, sqliteVars
  <2>3. sends' = [sends EXCEPT ![Pending(c)] = @ + 1]
    BY <1>7 DEF Send
  <2> QED  BY <1>0, <2>1, <2>2, <2>3 DEF SendInvariant
<1>8. ASSUME NEW c \in Connections, BuyReturns(c) \/ BuyFails(c) \/ BuyTimesOut(c) \/ Reconcile(c)
      PROVE  Sent' /\ Ready(c)'
  <2>1. PICK t \in Verdicts(Pending(c)), then \in {"record_purchase", "reconcile_purchase"} :
          Store(c, t[1], t[2], then)
    BY <1>8, StoreShape
  <2>2. walk'[c].node = "storing" /\ journal' = journal /\ sends' = sends
    BY <1>0, <2>1, SelectEffect DEF Store, Walk
  <2> QED  BY <2>2 DEF SendInvariant
<1>9. ASSUME NEW c \in Connections, SharedStep(c) PROVE SendInvariant'
  <2> HIDE DEF Sent, Ready
  <2> QED  BY <1>1, <1>2, <1>3, <1>4, <1>5, <1>6, <1>7, <1>8, <1>9 DEF SharedStep
<1>10. ASSUME NEW c \in Connections, Start(c) PROVE SendInvariant'
  <2>1. UNCHANGED <<journal, sends, call>>
    BY <1>10 DEF Start, sqliteVars, remoteVars
  <2>2. walk'[c].node \notin {"submitting", "sending"}
    BY <1>0, <1>10 DEF Start, ControlInvariant, CycleNodes
  <2>3. \A d \in Connections \ {c} : walk'[d] = walk[d]
    BY <1>0, <1>10 DEF Start
  <2> QED  BY <2>1, <2>2, <2>3 DEF SendInvariant, Pending
<1>11. ASSUME NEW p \in Processes, ProcessDies(p) PROVE SendInvariant'
  <2>1. UNCHANGED <<journal, sends>>
    BY <1>11 DEF ProcessDies, remoteVars
  <2>2. \A c \in Connections : walk'[c].node \notin {"submitting", "sending"}
    <3>1. \A c \in Connections : process[c] = p
      BY <1>11 DEF ProcessDies, OneLoop
    <3> QED  BY <1>11, <3>1, FreshWalkSound DEF ProcessDies
  <2> QED  BY <2>1, <2>2 DEF SendInvariant
<1>12. ASSUME UNCHANGED <<journal, call, walk, sends>> PROVE SendInvariant'
  BY <1>12 DEF SendInvariant, Pending
<1>13. ASSUME NEW k \in Keys, ArenaPays(k) PROVE UNCHANGED <<journal, call, walk, sends>>
  BY <1>13 DEF ArenaPays, cycleVars, sqliteVars
<1>14. AllEnded \/ UNCHANGED sharedVars => UNCHANGED <<journal, call, walk, sends>>
  BY DEF AllEnded, sharedVars, cycleVars, sqliteVars, remoteVars
<1> QED  BY <1>9, <1>10, <1>11, <1>12, <1>13, <1>14 DEF SharedNext

\* Resuming a run that is still alive sends no purchase twice, as long as the
\* invocations share an event loop (graph.py:330-342).
THEOREM OneLoopSendsOnce == SharedSpec => []OneSendPerKey
<1>1. SharedInit => (OneLoop => SendInvariant)
  BY DEF SharedInit, SqliteInit, SendInvariant, FreshWalk
<1>2. ControlInvariant /\ (OneLoop => SendInvariant) /\ [SharedNext]_sharedVars
        => (OneLoop => SendInvariant)'
  <2>1. ControlInvariant /\ [SharedNext]_sharedVars /\ OneLoop' => OneLoop
    BY StepKeepsTypes DEF OneLoop
  <2> QED  BY <2>1, SendStep
<1>3. (OneLoop => SendInvariant) => OneSendPerKey
  BY DEF SendInvariant, OneSendPerKey
<1> QED  BY ControlInvariance, <1>1, <1>2, <1>3, PTL DEF SharedSpec

\* On one loop the row a SELECT returned is still the row its UPDATE writes to.
LEMMA RowStaysOnLoop ==
    ASSUME ControlInvariant, OneLoop, RowUnchanged, [SharedNext]_sharedVars
    PROVE  RowUnchanged'
<1>0. call \in [Connections -> PendingUpdate \cup {NoCall}]
  BY DEF ControlInvariant, SharedTypeOK, SqliteTypeOK
<1>1. ASSUME NEW c \in Connections, SharedStep(c),
             call'[c] # NoCall =>
               /\ journal'[call'[c].key] = call'[c].seen
               /\ ~(call'[c].seen.status = "settled" /\ call'[c].status # "settled")
      PROVE  RowUnchanged'
  BY <1>1, OthersIdle DEF RowUnchanged
<1>2. ASSUME NEW c \in Connections, NEW status, NEW receipt, Select(c, status, receipt),
             SharedStep(c)
      PROVE  RowUnchanged'
  BY <1>1, <1>2, SelectEffect DEF RowUnchanged
<1>3. ASSUME NEW c \in Connections,
             PrepareNext(c) \/ Complete(c) \/ CheckPrepared(c) \/ Send(c) \/ StoreDone(c)
               \/ Record(c)
      PROVE  RowUnchanged'
  <2>1. SharedStep(c) /\ call' = call /\ call[c] = NoCall
    BY <1>3 DEF SharedStep, PrepareNext, SqlitePrepare, Complete, CheckPrepared, Send,
                StoreDone, Record, At, sqliteVars
  <2> QED  BY <1>1, <2>1
<1>4. ASSUME NEW c \in Connections, Submit(c) PROVE RowUnchanged'
  BY <1>2, <1>4 DEF Submit, SharedStep
<1>5. ASSUME NEW c \in Connections, BuyReturns(c) \/ BuyFails(c) \/ BuyTimesOut(c) \/ Reconcile(c)
      PROVE  RowUnchanged'
  BY <1>2, <1>5, StoreShape DEF Store, SharedStep
<1>6. ASSUME NEW c \in Connections, Update(c) PROVE RowUnchanged'
  <2>1. call'[c] = NoCall
    BY <1>0, <1>6 DEF Update, UpdateRow
  <2> QED  BY <1>1, <1>6, <2>1 DEF SharedStep
<1>7. ASSUME journal' = journal,
             \A d \in Connections : call'[d] = call[d] \/ call'[d] = NoCall
      PROVE  RowUnchanged'
  BY <1>7 DEF RowUnchanged
<1>8. ASSUME NEW c \in Connections, Start(c) PROVE RowUnchanged'
  BY <1>7, <1>8 DEF Start, sqliteVars
<1>9. ASSUME NEW k \in Keys, ArenaPays(k) PROVE RowUnchanged'
  BY <1>7, <1>9 DEF ArenaPays, sqliteVars
<1>10. ASSUME NEW p \in Processes, ProcessDies(p) PROVE RowUnchanged'
  BY <1>0, <1>7, <1>10 DEF ProcessDies
<1>11. CASE AllEnded \/ UNCHANGED sharedVars
  BY <1>7, <1>11 DEF AllEnded, sharedVars, sqliteVars
<1> QED
  BY <1>3, <1>4, <1>5, <1>6, <1>8, <1>9, <1>10, <1>11 DEF SharedNext, SharedStep

\* Any number of invocations of one event loop, with the process dying at any
\* moment, use SqliteOperationJournal as if its calls were atomic.
THEOREM OneLoopCannotTear == SharedSpec => OneLoopIsAtomic
<1>1. SharedInit => (OneLoop => RowUnchanged) /\ (OneLoop => AtomicJournal!Init)
  BY DEF SharedInit, SqliteInit, RowUnchanged, Init, AtomicJournal!Init, Absent,
         AtomicJournal!Absent
<1>2. ControlInvariant /\ (OneLoop => RowUnchanged) /\ [SharedNext]_sharedVars
        => (OneLoop => RowUnchanged)' /\ [OneLoop => AtomicJournal!Next]_journal
  <2>1. ControlInvariant /\ [SharedNext]_sharedVars /\ OneLoop' => OneLoop
    BY StepKeepsTypes DEF OneLoop
  <2>2. ControlInvariant => SqliteInvariant
    BY DEF ControlInvariant
  <2> QED  BY <2>1, <2>2, RowStaysOnLoop, NextIsSqlite, UndisturbedIsAtomic
<1> QED
  BY ControlInvariance, <1>1, <1>2, PTL DEF SharedSpec, OneLoopIsAtomic
=============================================================================
