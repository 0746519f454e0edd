------------------------------- MODULE Ledger -------------------------------
(***************************************************************************)
(* The seller's durable ledger (ledger.py): service orders under their     *)
(* idempotency keys, the identities of the interaction events they carry,  *)
(* and the audit trail of identity conflicts.  Every method is one SQLite  *)
(* transaction under the ledger's lock, hence one step.                    *)
(*                                                                         *)
(* An event is its identity key (source, task, subject and event_id) and   *)
(* its content hash.  A batch is a list of events, less the repeats that   *)
(* validate_events drops before an order is recorded: its order counts     *)
(* when two orders are compared, while for the identities it decides only  *)
(* which of several conflicts is the one audited.  A trade_id is           *)
(* abstracted to the idempotency key it was issued for.                    *)
(***************************************************************************)
EXTENDS Integers, FiniteSets, Sequences, Functions

CONSTANTS
    OrderKeys,            \* idempotency keys of orders
    Buyers, Services,
    Amounts,              \* declared amounts
    EventKeys, Contents,  \* identity keys and content hashes
    Batches,              \* the event lists that orders carry
    NoTrade, NoContent    \* no row

VARIABLES
    trades,        \* table trades
    identities,    \* table event_identities
    conflicts      \* table event_conflicts, without its row ids

ledgerVars == <<trades, identities, conflicts>>

Event == [key : EventKeys, content : Contents]
Trade == [buyer : Buyers, service : Services, amount : Amounts, events : Batches,
          status : {"accepted", "delivered"}]

ASSUME LedgerAssumption ==
    /\ NoTrade \notin Trade
    /\ NoContent \notin Contents
    /\ Batches \subseteq Seq(Event)
    /\ \A batch \in Batches : IsInjective(batch)
    /\ Amounts \subseteq Nat

LedgerInit ==
    /\ trades = [k \in OrderKeys |-> NoTrade]
    /\ identities = [e \in EventKeys |-> NoContent]
    /\ conflicts = {}

LedgerTypeOK ==
    /\ trades \in [OrderKeys -> Trade \cup {NoTrade}]
    /\ identities \in [EventKeys -> Contents \cup {NoContent}]
    /\ conflicts \subseteq EventKeys \X Contents \X Contents

-----------------------------------------------------------------------------
(* validate_events, of the events of a batch.                                *)

\* What an event is compared with: the stored hash, else an earlier event.
Previous(key, events) ==
    IF identities[key] # NoContent THEN {identities[key]}
    ELSE {e.content : e \in {d \in events : d.key = key}}

\* The conflicts events can be refused for: <<key, previous, incoming>>.
ConflictsOf(events) ==
    {c \in EventKeys \X Contents \X Contents :
        /\ [key |-> c[1], content |-> c[3]] \in events
        /\ c[2] \in Previous(c[1], events) \ {c[3]}}

\* No conflict: every new identity is registered.
Register(events) ==
    /\ ConflictsOf(events) = {}
    /\ identities' = [key \in EventKeys |->
                        IF [key |-> key, content |-> identities[key]] \in events
                           \/ ~\E e \in events : e.key = key
                        THEN identities[key]
                        ELSE (CHOOSE e \in events : e.key = key).content]
    /\ UNCHANGED <<trades, conflicts>>

\* A conflict: the audit entry is committed before EventConflictError is raised,
\* and nothing of them is registered.
Refuse(events) ==
    /\ \E c \in ConflictsOf(events) : conflicts' = conflicts \cup {c}
    /\ UNCHANGED <<trades, identities>>

-----------------------------------------------------------------------------
(* record, update_status.                                                    *)

\* Mutant: the metadata, hence the input, is not compared.
SameOrderAnyInput(key, trade) ==
    trades[key] = NoTrade
      \/ [trades[key] EXCEPT !.status = "accepted", !.events = trade.events] = trade

\* comparable_fields: everything of an order but its id, status and date.
SameOrder(key, trade) ==
    trades[key] = NoTrade \/ [trades[key] EXCEPT !.status = "accepted"] = trade

\* Mutant: INSERT OR REPLACE.
RecordReplacing(key, trade) ==
    /\ trades' = [trades EXCEPT ![key] = trade]
    /\ UNCHANGED <<identities, conflicts>>

\* A key that is taken keeps its row: the stored receipt is returned for the same
\* order and ValueError is raised for another.
Record(key, trade) ==
    /\ trades' = IF trades[key] = NoTrade THEN [trades EXCEPT ![key] = trade] ELSE trades
    /\ UNCHANGED <<identities, conflicts>>

Deliver(key) ==
    /\ trades' = [trades EXCEPT ![key].status = "delivered"]
    /\ UNCHANGED <<identities, conflicts>>

HasBuyer(buyer) == \E k \in OrderKeys : trades[k] # NoTrade /\ trades[k].buyer = buyer
=============================================================================
