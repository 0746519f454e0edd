-------------------------- MODULE OperationJournal --------------------------
(***************************************************************************)
(* The outbound operation journal (operation_journal.py) as its caller     *)
(* sees it: prepare and transition are atomic, which the Lock of           *)
(* InMemoryOperationJournal makes true and which SqliteOperationJournal is *)
(* meant to provide.  One journal entry records one purchase: its status,  *)
(* the intent it was prepared for and the receipt it holds.  The free-text *)
(* reason, the evidence and the timestamps never decide anything and are   *)
(* left out.                                                               *)
(***************************************************************************)
CONSTANTS
    Keys,        \* idempotency keys
    Intents,     \* (seller, service, amount) of a purchase; the buyer is fixed
    Receipts,    \* platform receipts a transition may carry
    NoIntent,    \* the intent of a key never prepared
    NoReceipt    \* "receipt=None"

ASSUME NoValueAssumption == NoIntent \notin Intents /\ NoReceipt \notin Receipts

VARIABLE
    journal      \* the outbound_operations table, total over Keys

\* OperationStatus.PREPARED is given by prepare only: no caller passes it to
\* transition, so the statuses of a transition are the other six.
VerdictStatuses ==
    {"settled", "bilaterally_confirmed", "failed", "disputed", "unknown"}
TransitionStatuses == {"submitted"} \cup VerdictStatuses
OperationStatus == {"absent", "prepared"} \cup TransitionStatuses

OutboundOperation ==
    [status  : OperationStatus,
     intent  : Intents \cup {NoIntent},
     receipt : Receipts \cup {NoReceipt}]

\* What get(key) = None stands for.
Absent == [status |-> "absent", intent |-> NoIntent, receipt |-> NoReceipt]

Init == journal = [k \in Keys |-> Absent]

-----------------------------------------------------------------------------
(* prepare(...) inserts a PREPARED row unless the key has one; its result    *)
(* says whether it did.  A key that holds another intent raises ValueError   *)
(* and leaves the journal alone.                                             *)

Created(k) == journal[k].status = "absent"
\* Mutant: _validate_same_intent is not called.
AnyIntent(k, intent) == Created(k) \/ intent \in Intents
SameIntent(k, intent) == Created(k) \/ journal[k].intent = intent

\* Mutant: INSERT OR REPLACE.
PrepareReplacing(k, intent) ==
    journal' = [journal EXCEPT ![k] = [status  |-> "prepared",
                                       intent  |-> intent,
                                       receipt |-> NoReceipt]]

Prepare(k, intent) ==
    /\ SameIntent(k, intent)
    /\ journal' = IF Created(k)
                  THEN [journal EXCEPT ![k] = [status  |-> "prepared",
                                               intent  |-> intent,
                                               receipt |-> NoReceipt]]
                  ELSE journal

-----------------------------------------------------------------------------
(* transition(key, status, receipt): a SETTLED row ignores every other       *)
(* status, and a receipt of None keeps the one already stored.               *)

\* Mutant: SETTLED is not kept.
UpdatedAlways(op, status, receipt) ==
    [op EXCEPT !.status  = status,
               !.receipt = IF receipt = NoReceipt THEN @ ELSE receipt]

Updated(op, status, receipt) ==
    IF op.status = "settled" /\ status # "settled"
    THEN op
    ELSE [op EXCEPT !.status  = status,
                    !.receipt = IF receipt = NoReceipt THEN @ ELSE receipt]

Transition(k, status, receipt) ==
    /\ ~Created(k)
    /\ journal' = [journal EXCEPT ![k] = Updated(@, status, receipt)]

\* The calls graph.py makes: SETTLED always carries the receipt that settles,
\* DISPUTED carries one when the platform gave it, the others carry none.
TransitionCalls ==
    {c \in TransitionStatuses \X (Receipts \cup {NoReceipt}) :
        /\ c[1] = "settled" => c[2] # NoReceipt
        /\ c[2] # NoReceipt => c[1] \in {"settled", "disputed"}}

Next ==
    \/ \E k \in Keys, i \in Intents : Prepare(k, i)
    \/ \E k \in Keys, c \in TransitionCalls : Transition(k, c[1], c[2])

Spec == Init /\ [][Next]_journal

-----------------------------------------------------------------------------
\* Every key holds either no operation or one of the program's operations.
TypeOK == journal \in [Keys -> OutboundOperation]

\* A SETTLED purchase has its receipt, so recording it never falls through to
\* the "remains unknown" branch (graph.py:450 tests both).
SettledHasReceipt ==
    \A k \in Keys : journal[k].status = "settled" => journal[k].receipt # NoReceipt
=============================================================================
