---------------------------- MODULE SqliteJournal ----------------------------
(***************************************************************************)
(* SqliteOperationJournal with the steps SQLite really takes.  prepare is  *)
(* one write transaction (INSERT OR IGNORE opens it, the SELECT runs in    *)
(* it).  transition is not: Python's sqlite3 opens a transaction only at   *)
(* the first write, so its SELECT (line 257) is a read of its own and the  *)
(* UPDATE (line 274) is a later transaction that writes what was computed  *)
(* from that read.  Another connection to the same file may commit in      *)
(* between, and a process may die there.                                   *)
(***************************************************************************)
EXTENDS OperationJournal

CONSTANTS
    Connections,   \* open connections to OPERATION_JOURNAL_PATH
    NoCall         \* a connection that executes no transition

ASSUME NoCallAssumption ==
    NoCall \notin [key : Keys, status : TransitionStatuses,
                   receipt : Receipts \cup {NoReceipt}, seen : OutboundOperation]

VARIABLE call            \* call[c]: the transition connection c is executing

sqliteVars == <<journal, call>>

\* The transition between its SELECT and its UPDATE; `seen` is the row read.
PendingUpdate ==
    [key : Keys, status : TransitionStatuses, receipt : Receipts \cup {NoReceipt},
     seen : OutboundOperation]

SqliteInit == Init /\ call = [c \in Connections |-> NoCall]

SqlitePrepare(c, k, intent) ==
    /\ call[c] = NoCall
    /\ Prepare(k, intent)
    /\ UNCHANGED call

\* SELECT and the early return for a row that is already SETTLED.
SelectRow(c, k, status, receipt) ==
    /\ call[c] = NoCall
    /\ ~Created(k)
    /\ ~(journal[k].status = "settled" /\ status # "settled")
    /\ call' = [call EXCEPT ![c] = [key |-> k, status |-> status,
                                    receipt |-> receipt, seen |-> journal[k]]]
    /\ UNCHANGED journal

\* UPDATE ... WHERE idempotency_key = ?: no condition on the status it found.
UpdateRow(c) ==
    /\ call[c] # NoCall
    /\ LET u == call[c] IN
       journal' = [journal EXCEPT
                     ![u.key].status  = u.status,
                     ![u.key].receipt = IF u.receipt = NoReceipt
                                        THEN u.seen.receipt ELSE u.receipt]
    /\ call' = [call EXCEPT ![c] = NoCall]

\* The process of c dies between the two statements; nothing was written.
Die(c) ==
    /\ call[c] # NoCall
    /\ call' = [call EXCEPT ![c] = NoCall]
    /\ UNCHANGED journal

SqliteNext ==
    \E c \in Connections :
        \/ \E k \in Keys, i \in Intents : SqlitePrepare(c, k, i)
        \/ \E k \in Keys, t \in TransitionCalls : SelectRow(c, k, t[1], t[2])
        \/ UpdateRow(c)
        \/ Die(c)

SqliteSpec == SqliteInit /\ [][SqliteNext]_sqliteVars

-----------------------------------------------------------------------------
\* The table is well formed and every pending update remembers a stored row.
SqliteTypeOK ==
    /\ TypeOK
    /\ call \in [Connections -> PendingUpdate \cup {NoCall}]

\* With one connection the two statements of transition cannot be told from
\* the atomic transition of OperationJournal: the early return at line 264 and
\* the update at line 274 act on the same row (lines 247-296 against 132-156).
AtomicJournal == INSTANCE OperationJournal
ImplementsAtomicJournal == AtomicJournal!Spec

\* "Settled operation cannot be downgraded": no step of any connection takes a
\* SETTLED row to another status (line 264; tests/test_operation_journal.py:73).
SettledIsNotDowngraded ==
    [][\A k \in Keys : journal[k].status = "settled"
                          => journal'[k].status = "settled"]_sqliteVars

\* What survives any number of connections: a row keeps the intent it was
\* prepared for and never returns to PREPARED, so a key already submitted is
\* never taken for a fresh one (lines 206 and 276).
NeverPreparedAgain ==
    [][\A k \in Keys : ~Created(k)
          => /\ journal'[k].intent = journal[k].intent
             /\ journal[k].status # "prepared" => journal'[k].status # "prepared"
      ]_sqliteVars
=============================================================================
