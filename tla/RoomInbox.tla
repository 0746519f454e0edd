----------------------------- MODULE RoomInbox -----------------------------
(***************************************************************************)
(* Reading a SharedNet room durably: SharedNetRoomClient.receive_pending   *)
(* over the room_inbox and room_cursors tables of a file-backed Ledger.    *)
(* The room is an append-only log; message s of it has sequence s.  A page *)
(* of messages is fetched, stored with the receive cursor in one           *)
(* transaction, and handed to the consumer until each is acknowledged.     *)
(* Raw wait and join move a cursor of their own, in the client's memory.   *)
(*                                                                         *)
(* A message is its sequence number; room[s] is its message_id, or Hole    *)
(* when the room shows this member no message at s.  Since the payload     *)
(* that is stored holds the sequence, one id at two sequences is the "same *)
(* id, other payload" case; a message itself does not change in the log.   *)
(***************************************************************************)
EXTENDS Integers, FiniteSets, Sequences, FiniteSetsExt, Functions

CONSTANTS
    MessageIds, NoId,   \* a message may come without an id
    Hole,               \* a sequence with no message for this member
    MaxMessages,        \* bound: messages said in the room
    PageLimit,          \* messages the room returns at once
    MaxFailures         \* bound: crashes and failing handlers

ASSUME RoomAssumption ==
    /\ {MaxMessages, MaxFailures} \subseteq Nat
    /\ PageLimit \in Nat \ {0}
    /\ NoId \notin MessageIds
    /\ Hole \notin MessageIds \cup {NoId}

VARIABLES
    room,          \* the room's log, on the platform
    stored,        \* room_inbox: sequences of the messages saved
    acknowledged,  \* room_inbox rows with acknowledged = 1
    cursor,        \* room_cursors
    last,          \* the client's _last_sequence
    page,          \* the page fetched and not yet stored, or NoPage
    batch,         \* what receive_pending returned, first message next
    done,          \* the first message of the batch has been processed
    handled,       \* times the consumer has processed each message
    failures

vars == <<room, stored, acknowledged, cursor, last, page, batch, done, handled, failures>>

Sequence == 1 .. MaxMessages
Page == [items : SUBSET Sequence, cursor : 0 .. MaxMessages]
NoPage == [items |-> {}, cursor |-> -1]

Init ==
    /\ room = <<>>
    /\ stored = {} /\ acknowledged = {}
    /\ cursor = 0 /\ last = 0
    /\ page = NoPage /\ batch = <<>> /\ done = FALSE
    /\ handled = [s \in Sequence |-> 0]
    /\ failures = 0

-----------------------------------------------------------------------------
(* The room (external).                                                      *)

Say(id) ==
    /\ Len(room) < MaxMessages
    /\ room' = Append(room, id)
    /\ UNCHANGED <<stored, acknowledged, cursor, last, page, batch, done, handled, failures>>

\* The messages from a to b.
Shown(a, b) == {s \in a .. b : room[s] # Hole}

\* What the room may answer to wait(after), as (items, cursor): cursor is the largest of
\* next_cursor and the sequences, which may lie past the last message, over a Hole.
\* Messages that the member already has may be sent again.  Two things are assumed of
\* the room: the cursor passes no later message that the answer does not hold, and when
\* there are later messages the answer holds one.
Answers(after) ==
    {answer \in Page :
        LET fresh == Shown(after + 1, answer.cursor)
        IN  /\ answer.cursor \in after .. Len(room)
            /\ answer.items \subseteq Shown(1, answer.cursor)
            /\ fresh \subseteq answer.items
            /\ Cardinality(answer.items) =< PageLimit
            /\ fresh = {} => Shown(after + 1, Len(room)) = {}}

-----------------------------------------------------------------------------
(* SharedNetRoomClient.                                                      *)

\* _advance_cursor.
Advanced(answer) == Max({last, answer.cursor})

\* join's history, or a raw wait: inspection, which must not cost receive_pending
\* a message.
Inspect ==
    /\ \E answer \in Answers(last) : last' = Advanced(answer)
    /\ UNCHANGED <<room, stored, acknowledged, cursor, page, batch, done, handled, failures>>

\* Mutant: acknowledged messages stay pending.
PendingAll == stored

Pending == stored \ acknowledged

Idle == page = NoPage /\ batch = <<>>

\* sorted by sequence: the i-th message is the one with i - 1 before it.
Sorted(messages) ==
    [i \in 1 .. Cardinality(messages) |->
        CHOOSE s \in messages : Cardinality({r \in messages : r < s}) = i - 1]

\* receive_pending, something is pending: no request is made.
ReturnPending ==
    /\ Idle
    /\ Pending # {}
    /\ batch' = Sorted(Pending)
    /\ UNCHANGED <<room, stored, acknowledged, cursor, last, page, done, handled, failures>>

\* Mutant: the client's own cursor is used.
FetchAfterLast ==
    /\ Idle
    /\ Pending = {}
    /\ \E answer \in Answers(last) : page' = answer /\ last' = Advanced(answer)
    /\ UNCHANGED <<room, stored, acknowledged, cursor, batch, done, handled, failures>>

\* receive_pending, nothing is pending: wait after the durable cursor.
Fetch ==
    /\ Idle
    /\ Pending = {}
    /\ \E answer \in Answers(cursor) : page' = answer /\ last' = Advanced(answer)
    /\ UNCHANGED <<room, stored, acknowledged, cursor, batch, done, handled, failures>>

\* receive_messages raises: an id is missing, or known with another payload.
Rejected(items) ==
    \E s \in items :
        \/ room[s] = NoId
        \/ \E r \in stored \cup (items \cap 1 .. (s - 1)) : r # s /\ room[r] = room[s]

\* Mutant: the bad messages are dropped and the cursor moves on.
StoreWhatFits ==
    /\ page # NoPage
    /\ stored' = stored \cup {s \in page.items : ~Rejected({s})}
    /\ cursor' = Max({cursor, page.cursor})
    /\ page' = NoPage
    /\ UNCHANGED <<room, acknowledged, last, batch, done, handled, failures>>

\* Mutant: INSERT OR REPLACE, a message sent again is pending again.
StoreReplacing ==
    /\ page # NoPage
    /\ IF Rejected(page.items)
       THEN UNCHANGED <<stored, acknowledged, cursor>>
       ELSE /\ stored' = stored \cup page.items
            /\ acknowledged' = acknowledged \ page.items
            /\ cursor' = Max({cursor, page.cursor})
    /\ page' = NoPage
    /\ UNCHANGED <<room, last, batch, done, handled, failures>>

\* One transaction: the messages and the cursor, or neither.  INSERT OR IGNORE: a
\* message sent again keeps its row, acknowledged or not.
Store ==
    /\ page # NoPage
    /\ IF Rejected(page.items)
       THEN UNCHANGED <<stored, cursor>>
       ELSE /\ stored' = stored \cup page.items
            /\ cursor' = Max({cursor, page.cursor})
    /\ page' = NoPage
    /\ UNCHANGED <<room, acknowledged, last, batch, done, handled, failures>>

-----------------------------------------------------------------------------
(* The consumer (external): one per room, handling then acknowledging.       *)

Handle ==
    /\ batch # <<>> /\ ~done
    /\ handled' = [handled EXCEPT ![Head(batch)] = @ + 1]
    /\ done' = TRUE
    /\ UNCHANGED <<room, stored, acknowledged, cursor, last, page, batch, failures>>

\* acknowledge_message.
Acknowledge ==
    /\ batch # <<>> /\ done
    /\ acknowledged' = acknowledged \cup {Head(batch)}
    /\ batch' = Tail(batch)
    /\ done' = FALSE
    /\ UNCHANGED <<room, stored, cursor, last, page, handled, failures>>

\* Handling fails: nothing is acknowledged and the rest of the batch is put off.
HandlerFails ==
    /\ batch # <<>> /\ ~done
    /\ failures < MaxFailures
    /\ failures' = failures + 1
    /\ batch' = <<>>
    /\ UNCHANGED <<room, stored, acknowledged, cursor, last, page, handled, done>>

\* The process dies wherever it is and starts again on the same inbox file.
Crash ==
    /\ failures < MaxFailures
    /\ failures' = failures + 1
    /\ last' = 0 /\ page' = NoPage /\ batch' = <<>> /\ done' = FALSE
    /\ UNCHANGED <<room, stored, acknowledged, cursor, handled>>

Consume == ReturnPending \/ Fetch \/ Store \/ Handle \/ Acknowledge

Next ==
    \/ \E id \in MessageIds \cup {NoId, Hole} : Say(id)
    \/ Inspect
    \/ Consume
    \/ HandlerFails
    \/ Crash

\* The consumer calls receive_pending in a loop (EVENT_IDENTITY_CHANGE.md 25-31).
Spec == Init /\ [][Next]_vars
FairSpec == Spec /\ WF_vars(Consume)

-----------------------------------------------------------------------------
(* Properties.                                                               *)

\* Every variable keeps its type; rows are acknowledged only once stored.
InboxTypeOK ==
    /\ room \in Seq(MessageIds \cup {NoId, Hole}) /\ Len(room) =< MaxMessages
    /\ stored \subseteq Shown(1, Len(room)) /\ acknowledged \subseteq stored
    /\ cursor \in 0 .. Len(room) /\ last \in 0 .. Len(room)
    /\ page \in Page \cup {NoPage}
    /\ batch \in Seq(Sequence) /\ Range(batch) \subseteq stored \ acknowledged
    /\ done \in BOOLEAN
    /\ handled \in [Sequence -> 0 .. MaxFailures + 1]
    /\ failures \in 0 .. MaxFailures

\* The durable cursor never passes a message that is not in the inbox: no crash, raw
\* wait, join, rejected page, hole or message sent again makes receive_pending skip one
\* (ledger.py 66-79, adapter 276-277).
NothingSkipped == Shown(1, cursor) \subseteq stored

\* Messages are processed for the first time in the order of the room, and a later one
\* not before the earlier ones are acknowledged, whatever fails in between.
InRoomOrder ==
    [][\A s \in Sequence :
        handled'[s] # handled[s] => Shown(1, s - 1) \subseteq acknowledged]_vars

\* An acknowledged message is never handed over and processed again, and one that is
\* not acknowledged is repeated only after a failure.
RepeatedOnlyAfterFailure ==
    [][\A s \in Sequence :
        handled'[s] # handled[s] => s \notin acknowledged /\ handled[s] =< failures]_vars

\* Every message of a room whose messages are well identified is acknowledged in the
\* end, whatever failures there were: nothing is lost between the fetch, the inbox and
\* the consumer.
EveryMessageAcknowledged ==
    \A s \in Sequence :
        []((s \in Shown(1, Len(room))) =>
               <>(s \in acknowledged \/ Rejected(Shown(1, Len(room)))))
=============================================================================
