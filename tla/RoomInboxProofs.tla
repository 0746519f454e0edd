--------------------------- MODULE RoomInboxProofs ---------------------------
(***************************************************************************)
(* Theorems about the durable reading of a room: for any number of         *)
(* messages, ids and failures and any page size.                           *)
(***************************************************************************)
EXTENDS RoomInbox, FiniteSetTheorems, SequenceTheorems, TLAPS

\* The inbox is the messages up to the durable cursor, what the consumer has
\* acknowledged is a prefix of it, a page in flight continues it, and a batch in hand
\* is the rest of it in order.
InboxExact ==
    /\ stored = Shown(1, cursor)
    /\ \A s \in acknowledged : \A r \in stored : r < s => r \in acknowledged
    /\ page # NoPage =>
         /\ batch = <<>>
         /\ page.cursor \in cursor .. Len(room)
         /\ page.items \subseteq Shown(1, page.cursor)
         /\ Shown(cursor + 1, page.cursor) \subseteq page.items
    /\ batch # <<>> => Range(batch) = Pending
    /\ \A i, j \in 1 .. Len(batch) : i < j => batch[i] < batch[j]

\* Every processing but one is paid for by a failure; the one may be of an
\* acknowledged message or of the first of the batch.
HandledBound ==
    /\ done => batch # <<>>
    /\ \A s \in Sequence :
         /\ handled[s] =< failures + 1
         /\ s \notin acknowledged /\ ~(done /\ s = Head(batch)) => handled[s] =< failures

InboxInvariant == InboxTypeOK /\ InboxExact /\ HandledBound

\* FiniteSetsExt!Max of two numbers.
LEMMA MaxOfTwo ==
  ASSUME NEW x \in Int, NEW y \in Int
  PROVE  Max({x, y}) = IF x >= y THEN x ELSE y
  BY DEF Max

\* Sequences are numbers.
LEMMA SequenceNat == Sequence \subseteq Nat
  BY DEF Sequence

\* A message said in the room leaves the earlier ones as they are.
LEMMA ShownStays ==
  ASSUME InboxTypeOK, NEW id \in MessageIds \cup {NoId, Hole}, Say(id),
         NEW a \in Nat \ {0}, NEW b \in 0 .. Len(room)
  PROVE  Shown(a, b)' = Shown(a, b)
  <1>1. /\ room \in Seq(MessageIds \cup {NoId, Hole}) /\ room' = Append(room, id)
        /\ Len(room) \in Nat
    BY DEF Say, InboxTypeOK
  <1>2. \A s \in a .. b : s \in 1 .. Len(room) /\ room'[s] = room[s]
    BY <1>1
  <1>. QED BY <1>2 DEF Shown

\* The client's own cursor stays within the room.
LEMMA AdvancedWithinRoom ==
  ASSUME InboxTypeOK, NEW after \in 0 .. Len(room), NEW answer \in Answers(after)
  PROVE  Advanced(answer) \in 0 .. Len(room)
  <1>1. answer.cursor \in 0 .. Len(room) /\ last \in 0 .. Len(room) /\ Len(room) \in Nat
    BY DEF InboxTypeOK, Answers
  <1>. QED BY <1>1, MaxOfTwo DEF Advanced

\* Sorting messages keeps each once, the earlier ones first: how many messages come
\* before a message numbers the messages from 1 on.
LEMMA SortedMessages ==
  ASSUME NEW S \in SUBSET Nat, IsFiniteSet(S)
  PROVE  /\ Sorted(S) \in Seq(S) /\ Range(Sorted(S)) = S
         /\ \A i, j \in 1 .. Len(Sorted(S)) : i < j => Sorted(S)[i] < Sorted(S)[j]
  <1>. DEFINE Before(s) == {r \in S : r < s}
              n == Cardinality(S)
              rank == [s \in S |-> Cardinality(Before(s)) + 1]
  <1>1. n \in Nat /\ IsFiniteSet(1 .. n) /\ Cardinality(1 .. n) = n
    BY FS_CardinalityType, FS_Interval
  <1>2. ASSUME NEW s \in S
        PROVE  /\ IsFiniteSet(Before(s)) /\ Cardinality(Before(s)) \in Nat
               /\ Cardinality(Before(s)) + 1 =< n
    <2>1. Before(s) \in SUBSET S /\ s \notin Before(s)
      OBVIOUS
    <2>2. /\ IsFiniteSet(Before(s)) /\ Cardinality(Before(s)) =< n
          /\ (n = Cardinality(Before(s)) => S = Before(s))
      BY <2>1, FS_Subset
    <2>3. Cardinality(Before(s)) \in Nat
      BY <2>2, FS_CardinalityType
    <2>. HIDE DEF Before, n
    <2>. QED BY <1>1, <2>1, <2>2, <2>3
  <1>3. ASSUME NEW r \in S, NEW s \in S, r < s
        PROVE  rank[r] < rank[s]
    <2>1. Before(r) \in SUBSET Before(s) /\ r \in Before(s) /\ r \notin Before(r)
      <3>1. \A t \in S : t < r => t < s
        <4>1. ASSUME NEW t \in S, t < r PROVE t < s
          <5>1. t \in Nat /\ r \in Nat /\ s \in Nat
            OBVIOUS
          <5>. QED BY <1>3, <4>1, <5>1
        <4>. QED BY <4>1
      <3>2. r \in Nat /\ ~(r < r)
        OBVIOUS
      <3>. QED BY <1>3, <3>1, <3>2
    <2>2. /\ Cardinality(Before(r)) =< Cardinality(Before(s))
          /\ (Cardinality(Before(s)) = Cardinality(Before(r)) => Before(s) = Before(r))
      BY <1>2, <2>1, FS_Subset
    <2>3. Cardinality(Before(r)) \in Nat /\ Cardinality(Before(s)) \in Nat
      BY <1>2
    <2>. HIDE DEF Before
    <2>. QED BY <2>1, <2>2, <2>3
  <1>4. rank \in [S -> 1 .. n]
    <2>1. ASSUME NEW s \in S PROVE Cardinality(Before(s)) + 1 \in 1 .. n
      <3>. HIDE DEF Before, n
      <3>. QED BY <1>1, <1>2
    <2>. QED BY <2>1
  <1>5. ASSUME NEW s \in S, NEW i \in 1 .. n
        PROVE  Cardinality(Before(s)) = i - 1 <=> rank[s] = i
    <2>1. Cardinality(Before(s)) \in Nat
      BY <1>2
    <2>. HIDE DEF Before, n
    <2>. QED BY <1>1, <2>1
  <1>6. Sorted(S) = [i \in 1 .. n |-> CHOOSE s \in S : Cardinality(Before(s)) = i - 1]
    BY DEF Sorted
  <1>. HIDE DEF rank
  <1>7. \A r, s \in S : rank[r] = rank[s] => r = s
    <2>1. ASSUME NEW r \in S, NEW s \in S, rank[r] = rank[s] PROVE r = s
      <3>1. ~(r < s) /\ ~(s < r) /\ r \in Nat /\ s \in Nat
        <4>. HIDE DEF n
        <4>. QED BY <1>1, <1>3, <1>4, <2>1
      <3>. QED BY <3>1
    <2>. QED BY <2>1
  <1>8. \A i \in 1 .. n : \E s \in S : rank[s] = i
    <2>. HIDE DEF n
    <2>1. rank \in Injection(S, 1 .. n)
      BY <1>4, <1>7 DEF Injection, IsInjective
    <2>2. n = Cardinality(S)
      BY DEF n
    <2>3. rank \in Surjection(S, 1 .. n)
      BY <1>1, <2>1, <2>2, FS_Injection
    <2>. QED BY <2>3 DEF Surjection
  <1>9. ASSUME NEW i \in 1 .. n
        PROVE  Sorted(S)[i] \in S /\ rank[Sorted(S)[i]] = i
    <2>1. PICK s \in S : rank[s] = i
      BY <1>8
    <2>. DEFINE t == CHOOSE q \in S : Cardinality(Before(q)) = i - 1
    <2>2. Cardinality(Before(s)) = i - 1
      BY <1>5, <2>1
    <2>3. t \in S /\ Cardinality(Before(t)) = i - 1
      <3>. HIDE DEF Before, n
      <3>. QED BY <2>2
    <2>4. Sorted(S)[i] = t
      <3>. HIDE DEF Before, n
      <3>. QED BY <1>6
    <2>5. rank[t] = i
      <3>. HIDE DEF t
      <3>. QED BY <1>5, <2>3
    <2>. HIDE DEF t
    <2>. QED BY <2>3, <2>4, <2>5
  <1>10. DOMAIN Sorted(S) = 1 .. n /\ Sorted(S) = [i \in 1 .. n |-> Sorted(S)[i]]
    <2>. HIDE DEF Before, n
    <2>. QED BY <1>6
  <1>. HIDE DEF Before, n
  <1>11. Sorted(S) \in Seq(S) /\ Len(Sorted(S)) = n
    BY <1>1, <1>9, <1>10
  <1>12. Range(Sorted(S)) = S
    <2>1. ASSUME NEW s \in S PROVE \E i \in 1 .. n : Sorted(S)[i] = s
      <3>1. rank[s] \in 1 .. n
        BY <1>4
      <3>. QED BY <1>7, <1>9, <3>1
    <2>. QED BY <1>9, <1>10, <2>1 DEF Range
  <1>13. ASSUME NEW i \in 1 .. n, NEW j \in 1 .. n, i < j
         PROVE  Sorted(S)[i] < Sorted(S)[j]
    <2>. DEFINE r == Sorted(S)[i]
                t == Sorted(S)[j]
    <2>1. r \in S /\ t \in S /\ rank[r] = i /\ rank[t] = j
      BY <1>9
    <2>. HIDE DEF r, t
    <2>2. ~(t < r) /\ t # r /\ r \in Nat /\ t \in Nat
      BY <1>1, <1>3, <1>13, <2>1
    <2>3. r < t
      BY <2>2
    <2>. QED BY <2>3 DEF r, t
  <1>. QED BY <1>11, <1>12, <1>13

-----------------------------------------------------------------------------
(* Invariance.                                                               *)

\* A consumer starts with an empty inbox.
LEMMA InboxInit == Init => InboxInvariant
  <1>. SUFFICES ASSUME Init PROVE InboxInvariant
    OBVIOUS
  <1>1. InboxTypeOK
    <2>1. room \in Seq(MessageIds \cup {NoId, Hole}) /\ Len(room) = 0 /\ batch \in Seq(Sequence)
      BY DEF Init
    <2>2. Range(batch) = {}
      BY DEF Init, Range
    <2>3. MaxFailures \in Nat /\ MaxMessages \in Nat
      BY RoomAssumption
    <2>4. handled \in [Sequence -> 0 .. MaxFailures + 1] /\ failures \in 0 .. MaxFailures
      BY <2>3 DEF Init
    <2>5. cursor \in 0 .. Len(room) /\ last \in 0 .. Len(room) /\ Len(room) =< MaxMessages
      BY <2>1, <2>3 DEF Init
    <2>6. /\ stored \subseteq Shown(1, Len(room)) /\ acknowledged \subseteq stored
          /\ page \in Page \cup {NoPage} /\ done \in BOOLEAN
      BY DEF Init
    <2>. QED BY <2>1, <2>2, <2>4, <2>5, <2>6 DEF InboxTypeOK
  <1>2. InboxExact
    <2>1. Shown(1, cursor) = {} /\ Len(batch) = 0
      BY DEF Init, Shown
    <2>. QED BY <2>1 DEF Init, InboxExact
  <1>3. HandledBound
    BY DEF Init, HandledBound
  <1>. QED BY <1>1, <1>2, <1>3 DEF InboxInvariant

\* A message said in the room moves nothing else.
LEMMA SayKeeps ==
  ASSUME InboxInvariant, NEW id \in MessageIds \cup {NoId, Hole}, Say(id)
  PROVE  InboxInvariant'
  <1>1. /\ room' \in Seq(MessageIds \cup {NoId, Hole}) /\ Len(room') = Len(room) + 1
        /\ Len(room) \in Nat /\ room' = Append(room, id)
        /\ UNCHANGED <<stored, acknowledged, cursor, last, page, batch, done, handled,
                       failures>>
    BY DEF Say, InboxInvariant, InboxTypeOK
  <1>2. /\ cursor \in 0 .. Len(room) /\ Len(room) \in 0 .. Len(room) /\ cursor + 1 \in Nat \ {0}
        /\ page # NoPage => page.cursor \in 0 .. Len(room)
    BY <1>1 DEF InboxInvariant, InboxTypeOK, InboxExact
  <1>3. \A a \in Nat \ {0} : \A b \in 0 .. Len(room) : Shown(a, b)' = Shown(a, b)
    BY ShownStays DEF InboxInvariant
  <1>4. InboxTypeOK'
    <2>1. Shown(1, Len(room)) \subseteq Shown(1, Len(room))'
      <3>1. \A s \in 1 .. Len(room) : room'[s] = room[s] /\ s \in 1 .. Len(room')
        BY <1>1 DEF InboxInvariant, InboxTypeOK
      <3>. QED BY <3>1 DEF Shown
    <2>2. stored' \subseteq Shown(1, Len(room))'
      BY <1>1, <2>1 DEF InboxInvariant, InboxTypeOK
    <2>3. Len(room') =< MaxMessages
      BY <1>1, RoomAssumption DEF Say
    <2>. QED BY <1>1, <2>2, <2>3 DEF InboxInvariant, InboxTypeOK
  <1>5. InboxExact'
    <2>1. stored' = Shown(1, cursor)'
      <3>1. Shown(1, cursor)' = Shown(1, cursor)
        BY <1>1, <1>2, <1>3
      <3>. QED BY <1>1, <3>1 DEF InboxInvariant, InboxExact
    <2>2. ASSUME page # NoPage
          PROVE  /\ page.cursor \in cursor .. Len(room')
                 /\ page.items \subseteq Shown(1, page.cursor)'
                 /\ Shown(cursor + 1, page.cursor)' \subseteq page.items
      <3>1. page.cursor \in 0 .. Len(room) /\ page.cursor \in cursor .. Len(room)
            /\ cursor \in Nat
        BY <1>1, <1>2, <2>2 DEF InboxInvariant, InboxExact
      <3>2. /\ Shown(1, page.cursor)' = Shown(1, page.cursor)
            /\ Shown(cursor + 1, page.cursor)' = Shown(cursor + 1, page.cursor)
        BY <1>1, <1>2, <1>3, <3>1
      <3>. QED BY <1>1, <2>2, <3>1, <3>2 DEF InboxInvariant, InboxExact
    <2>. QED BY <1>1, <2>1, <2>2 DEF InboxInvariant, InboxExact, Pending
  <1>6. HandledBound'
    BY <1>1 DEF InboxInvariant, HandledBound
  <1>. QED BY <1>4, <1>5, <1>6 DEF InboxInvariant

\* A raw read moves only the client's own cursor.
LEMMA InspectKeeps ==
  ASSUME InboxInvariant, Inspect
  PROVE  InboxInvariant'
  <1>1. last' \in 0 .. Len(room)
    BY AdvancedWithinRoom DEF Inspect, InboxInvariant, InboxTypeOK
  <1>2. InboxTypeOK'
    BY <1>1 DEF Inspect, InboxInvariant, InboxTypeOK, Shown
  <1>3. InboxExact' /\ HandledBound'
    BY DEF Inspect, InboxInvariant, InboxExact, HandledBound, Shown, Pending
  <1>. QED BY <1>2, <1>3 DEF InboxInvariant

\* What is pending is handed over in order.
LEMMA ReturnPendingKeeps ==
  ASSUME InboxInvariant, ReturnPending
  PROVE  InboxInvariant'
  <1>1. /\ MaxMessages \in Nat /\ Len(room) =< MaxMessages /\ Len(room) \in Nat
        /\ stored \subseteq Shown(1, Len(room))
    BY RoomAssumption DEF InboxInvariant, InboxTypeOK
  <1>2. Pending \subseteq Nat /\ Pending \subseteq Sequence
    <2>1. \A s \in stored : s \in Nat /\ s \in 1 .. MaxMessages
      BY <1>1 DEF Shown
    <2>. QED BY <2>1 DEF Pending, Sequence
  <1>3. IsFiniteSet(Pending)
    <2>1. IsFiniteSet(Sequence)
      BY <1>1, FS_Interval DEF Sequence
    <2>. QED BY <1>2, <2>1, FS_Subset
  <1>4. /\ batch' \in Seq(Pending) /\ Range(batch') = Pending
        /\ \A i, j \in 1 .. Len(batch') : i < j => batch'[i] < batch'[j]
    BY <1>2, <1>3, SortedMessages DEF ReturnPending
  <1>5. UNCHANGED <<room, stored, acknowledged, cursor, last, page, done, handled, failures>>
        /\ page = NoPage /\ batch = <<>>
    BY DEF ReturnPending, Idle
  <1>6. InboxTypeOK'
    <2>1. batch' \in Seq(Sequence)
      <3>1. /\ Len(batch') \in Nat /\ batch' = [i \in 1 .. Len(batch') |-> batch'[i]]
            /\ \A i \in 1 .. Len(batch') : batch'[i] \in Pending
        BY <1>4
      <3>. QED BY <1>2, <3>1
    <2>. QED BY <1>4, <1>5, <2>1 DEF InboxInvariant, InboxTypeOK, Pending, Shown
  <1>7. InboxExact'
    BY <1>4, <1>5 DEF InboxInvariant, InboxExact, Pending, Shown
  <1>8. HandledBound'
    <2>1. ~done
      BY <1>5 DEF InboxInvariant, HandledBound
    <2>. QED BY <1>5, <2>1 DEF InboxInvariant, HandledBound
  <1>. QED BY <1>6, <1>7, <1>8 DEF InboxInvariant

\* A page is fetched from the durable cursor on.
LEMMA FetchKeeps ==
  ASSUME InboxInvariant, Fetch
  PROVE  InboxInvariant'
  <1>1. cursor \in 0 .. Len(room) /\ last \in 0 .. Len(room) /\ Len(room) \in Nat
    BY DEF InboxInvariant, InboxTypeOK
  <1>2. PICK answer \in Answers(cursor) : page' = answer /\ last' = Advanced(answer)
    BY DEF Fetch
  <1>3. /\ page' \in Page /\ page'.cursor \in cursor .. Len(room)
        /\ page'.items \subseteq Shown(1, page'.cursor)
        /\ Shown(cursor + 1, page'.cursor) \subseteq page'.items
        /\ last' \in 0 .. Len(room)
    BY <1>1, <1>2, AdvancedWithinRoom DEF Answers, InboxInvariant
  <1>4. UNCHANGED <<room, stored, acknowledged, cursor, batch, done, handled, failures>>
        /\ batch = <<>>
    BY DEF Fetch, Idle
  <1>5. InboxTypeOK'
    BY <1>3, <1>4 DEF InboxInvariant, InboxTypeOK, Shown
  <1>6. InboxExact'
    BY <1>1, <1>3, <1>4 DEF InboxInvariant, InboxExact, Shown
  <1>7. HandledBound'
    BY <1>4 DEF InboxInvariant, HandledBound
  <1>. QED BY <1>5, <1>6, <1>7 DEF InboxInvariant

\* The inbox and its cursor grow together.
LEMMA StoreKeeps ==
  ASSUME InboxInvariant, Store
  PROVE  InboxInvariant'
  <1>1. /\ page \in Page /\ batch = <<>> /\ page.cursor >= cursor /\ page.cursor =< Len(room)
        /\ page.items \subseteq Shown(1, page.cursor)
        /\ Shown(cursor + 1, page.cursor) \subseteq page.items
        /\ cursor \in Nat /\ page.cursor \in Nat /\ Len(room) \in Nat
        /\ cursor =< Len(room)
    BY RoomAssumption DEF Store, InboxInvariant, InboxTypeOK, InboxExact, Page
  <1>2. /\ page' = NoPage
        /\ UNCHANGED <<room, acknowledged, last, batch, done, handled, failures>>
    BY DEF Store
  <1>3. /\ stored = Shown(1, cursor)
        /\ \/ UNCHANGED <<stored, cursor>>
           \/ stored' = Shown(1, page.cursor) /\ cursor' = page.cursor
    <2>1. stored = Shown(1, cursor)
      BY DEF InboxInvariant, InboxExact
    <2>2. Max({cursor, page.cursor}) = page.cursor
      BY <1>1, MaxOfTwo
    <2>3. Shown(1, page.cursor) = Shown(1, cursor) \cup Shown(cursor + 1, page.cursor)
      BY <1>1 DEF Shown
    <2>4. Shown(1, cursor) \cup page.items = Shown(1, page.cursor)
      BY <1>1, <2>3
    <2>. QED BY <2>1, <2>2, <2>4 DEF Store
  <1>4. cursor' \in 0 .. Len(room) /\ cursor' >= cursor /\ stored' = Shown(1, cursor')
    BY <1>1, <1>3
  <1>5. stored \subseteq stored' /\ \A r \in stored' : r \notin stored => r > cursor
    BY <1>1, <1>3, <1>4 DEF Shown
  <1>6. InboxExact'
    <2>1. ASSUME NEW s \in acknowledged, NEW r \in stored', r < s PROVE r \in acknowledged
      <3>1. s \in stored /\ s \in Nat /\ s =< cursor
        BY <1>1, <1>3 DEF InboxInvariant, InboxTypeOK, Shown
      <3>2. r \in stored
        BY <1>1, <1>4, <1>5, <2>1, <3>1 DEF Shown
      <3>. QED BY <2>1, <3>2 DEF InboxInvariant, InboxExact
    <2>2. Shown(1, cursor)' = Shown(1, cursor')
      BY <1>2 DEF Shown
    <2>. QED BY <1>1, <1>2, <1>4, <2>1, <2>2 DEF InboxExact
  <1>7. HandledBound'
    BY <1>2 DEF InboxInvariant, HandledBound
  <1>8. InboxTypeOK'
    <2>1. stored' \subseteq Shown(1, Len(room))'
      BY <1>1, <1>2, <1>4 DEF Shown
    <2>. QED BY <1>2, <1>4, <1>5, <2>1 DEF InboxInvariant, InboxTypeOK
  <1>. QED BY <1>6, <1>7, <1>8 DEF InboxInvariant

\* The first of a batch is the first message that is not acknowledged.
LEMMA HeadIsNext ==
  ASSUME InboxInvariant, batch # <<>>
  PROVE  /\ Head(batch) \in Sequence
         /\ Head(batch) \in stored \ acknowledged
         /\ \A r \in stored : r < Head(batch) => r \in acknowledged
         /\ page = NoPage
  <1>1. batch \in Seq(Sequence) /\ page = NoPage /\ Range(batch) = stored \ acknowledged
    BY DEF InboxInvariant, InboxTypeOK, InboxExact, Pending
  <1>2. Len(batch) >= 1 /\ Head(batch) = batch[1] /\ batch[1] \in Sequence
        /\ DOMAIN batch = 1 .. Len(batch) /\ Len(batch) \in Nat /\ 1 \in 1 .. Len(batch)
    BY <1>1
  <1>3. Head(batch) \in stored \ acknowledged
    BY <1>1, <1>2 DEF Range
  <1>4. ASSUME NEW r \in stored, r < Head(batch), r \notin acknowledged PROVE FALSE
    <2>1. PICK i \in 1 .. Len(batch) : batch[i] = r
      BY <1>1, <1>2, <1>4 DEF Range
    <2>2. \A j \in 1 .. Len(batch) : 1 < j => batch[1] < batch[j]
      BY <1>2 DEF InboxInvariant, InboxExact
    <2>3. i = 1 \/ 1 < i
      OBVIOUS
    <2>4. batch[1] \in Nat /\ batch[i] \in Nat
      <3>1. batch[1] \in Sequence /\ batch[i] \in Sequence
        BY <1>1, <1>2
      <3>. QED BY <3>1, SequenceNat
    <2>. QED BY <1>2, <1>4, <2>1, <2>2, <2>3, <2>4
  <1>. QED BY <1>1, <1>2, <1>3, <1>4

\* Processing counts once, against the failures there were.
LEMMA HandleKeeps ==
  ASSUME InboxInvariant, Handle
  PROVE  InboxInvariant'
  <1>1. Head(batch) \in Sequence /\ Head(batch) \notin acknowledged
    BY HeadIsNext DEF Handle
  <1>2. /\ handled' = [handled EXCEPT ![Head(batch)] = @ + 1]
        /\ done' = TRUE /\ ~done /\ batch # <<>>
        /\ UNCHANGED <<room, stored, acknowledged, cursor, last, page, batch, failures>>
    BY DEF Handle
  <1>3. handled \in [Sequence -> 0 .. MaxFailures + 1] /\ failures \in 0 .. MaxFailures
        /\ MaxFailures \in Nat
    BY RoomAssumption DEF InboxInvariant, InboxTypeOK
  <1>4. handled[Head(batch)] =< failures
    BY <1>1, <1>2 DEF InboxInvariant, HandledBound
  <1>5. handled'[Head(batch)] =< failures + 1
        /\ handled'[Head(batch)] \in 0 .. MaxFailures + 1
    BY <1>1, <1>2, <1>3, <1>4
  <1>6. handled' \in [Sequence -> 0 .. MaxFailures + 1]
    BY <1>2, <1>3, <1>5
  <1>7. InboxTypeOK'
    BY <1>2, <1>6 DEF InboxInvariant, InboxTypeOK, Shown
  <1>8. InboxExact'
    BY <1>2 DEF InboxInvariant, InboxExact, Pending, Shown
  <1>9. HandledBound'
    <2>1. ASSUME NEW s \in Sequence, s # Head(batch)
          PROVE  /\ handled'[s] =< failures + 1
                 /\ s \notin acknowledged => handled'[s] =< failures
      BY <1>2, <1>3, <2>1 DEF InboxInvariant, HandledBound
    <2>. QED BY <1>2, <1>5, <2>1 DEF HandledBound
  <1>. QED BY <1>7, <1>8, <1>9 DEF InboxInvariant

\* Acknowledging the first of the batch extends the acknowledged prefix by one.
LEMMA AcknowledgeKeeps ==
  ASSUME InboxInvariant, Acknowledge
  PROVE  InboxInvariant'
  <1>1. /\ Head(batch) \in Sequence /\ Head(batch) \in stored \ acknowledged
        /\ \A r \in stored : r < Head(batch) => r \in acknowledged
        /\ page = NoPage
    BY HeadIsNext DEF Acknowledge
  <1>2. /\ acknowledged' = acknowledged \cup {Head(batch)}
        /\ batch' = Tail(batch) /\ done' = FALSE /\ done
        /\ UNCHANGED <<room, stored, cursor, last, page, handled, failures>>
    BY DEF Acknowledge
  <1>3. /\ batch \in Seq(Sequence) /\ batch # <<>> /\ Range(batch) = stored \ acknowledged
        /\ \A i, j \in 1 .. Len(batch) : i < j => batch[i] < batch[j]
    BY DEF Acknowledge, InboxInvariant, InboxTypeOK, InboxExact, Pending
  <1>4. /\ batch' \in Seq(Sequence) /\ Len(batch') = Len(batch) - 1
        /\ \A i \in 1 .. Len(batch') : batch'[i] = batch[i + 1]
        /\ Len(batch) \in Nat /\ Len(batch) >= 1 /\ Head(batch) = batch[1]
        /\ DOMAIN batch = 1 .. Len(batch) /\ DOMAIN batch' = 1 .. Len(batch')
    BY <1>2, <1>3, HeadTailProperties
  <1>5. \A i, j \in 1 .. Len(batch') : i < j => batch'[i] < batch'[j]
    <2>1. \A i \in 1 .. Len(batch') : i + 1 \in 1 .. Len(batch)
      BY <1>4
    <2>2. ASSUME NEW i \in 1 .. Len(batch'), NEW j \in 1 .. Len(batch'), i < j
          PROVE  batch'[i] < batch'[j]
      <3>1. i + 1 < j + 1
        BY <2>2
      <3>2. batch[i + 1] < batch[j + 1]
        BY <1>3, <2>1, <3>1
      <3>. QED BY <1>4, <3>2
    <2>. QED BY <2>2
  <1>6. Range(batch') = stored \ acknowledged'
    <2>1. ASSUME NEW i \in 1 .. Len(batch')
          PROVE  batch'[i] \in Range(batch) /\ batch'[i] # Head(batch)
      <3>1. i + 1 \in 1 .. Len(batch) /\ 1 \in 1 .. Len(batch) /\ 1 < i + 1
        BY <1>4
      <3>2. batch[1] < batch[i + 1] /\ batch[1] \in Sequence /\ batch[i + 1] \in Sequence
        BY <1>3, <3>1
      <3>3. batch[1] # batch[i + 1]
        <4>1. batch[1] \in Nat /\ batch[i + 1] \in Nat
          BY <3>2, SequenceNat
        <4>. QED BY <3>2, <4>1
      <3>. QED BY <1>4, <3>1, <3>3 DEF Range
    <2>2. ASSUME NEW s \in Range(batch), s # Head(batch) PROVE s \in Range(batch')
      <3>1. PICK j \in 1 .. Len(batch) : batch[j] = s
        BY <1>4, <2>2 DEF Range
      <3>2. j # 1
        BY <1>4, <2>2, <3>1
      <3>3. j - 1 \in 1 .. Len(batch') /\ (j - 1) + 1 = j
        BY <1>4, <3>2
      <3>. QED BY <1>4, <3>1, <3>3 DEF Range
    <2>3. Range(batch') = Range(batch) \ {Head(batch)}
      <3>1. \A s : s \in Range(batch') <=> \E i \in 1 .. Len(batch') : batch'[i] = s
        BY <1>4 DEF Range
      <3>. QED BY <2>1, <2>2, <3>1
    <2>. QED BY <1>2, <1>3, <2>3
  <1>7. InboxExact'
    <2>1. ASSUME NEW s \in acknowledged', NEW r \in stored, r < s PROVE r \in acknowledged'
      BY <1>1, <1>2, <2>1 DEF InboxInvariant, InboxExact
    <2>. QED BY <1>1, <1>2, <1>5, <1>6, <2>1 DEF InboxInvariant, InboxExact, Pending, Shown
  <1>8. InboxTypeOK'
    <2>1. acknowledged' \subseteq stored
      BY <1>1, <1>2 DEF InboxInvariant, InboxTypeOK
    <2>. QED BY <1>2, <1>4, <1>6, <2>1 DEF InboxInvariant, InboxTypeOK, Shown
  <1>9. HandledBound'
    <2>1. ASSUME NEW s \in Sequence, s \notin acknowledged'
          PROVE  handled[s] =< failures
      BY <1>2, <2>1 DEF InboxInvariant, HandledBound
    <2>. QED BY <1>2, <2>1 DEF InboxInvariant, HandledBound
  <1>. QED BY <1>7, <1>8, <1>9 DEF InboxInvariant

\* A failure drops what is in memory and pays for one more processing.
LEMMA FailureKeeps ==
  ASSUME InboxInvariant, failures < MaxFailures, failures' = failures + 1,
         last' \in 0 .. Len(room), page' \in {page, NoPage}, batch' = <<>>, done' = FALSE,
         UNCHANGED <<room, stored, acknowledged, cursor, handled>>
  PROVE  InboxInvariant'
  <1>1. failures \in Nat /\ MaxFailures \in Nat
        /\ handled \in [Sequence -> 0 .. MaxFailures + 1]
    BY RoomAssumption DEF InboxInvariant, InboxTypeOK
  <1>2. InboxTypeOK'
    <2>1. batch' \in Seq(Sequence) /\ Range(batch') = {}
      BY DEF Range
    <2>2. failures' \in 0 .. MaxFailures
      BY <1>1
    <2>. QED BY <2>1, <2>2 DEF InboxInvariant, InboxTypeOK, Shown
  <1>3. InboxExact'
    BY DEF InboxInvariant, InboxExact, Pending, Shown
  <1>4. HandledBound'
    <2>1. ASSUME NEW s \in Sequence PROVE handled[s] =< failures + 1
      BY DEF InboxInvariant, HandledBound
    <2>2. ASSUME NEW s \in Sequence PROVE handled[s] =< (failures + 1) + 1
      <3>1. handled[s] \in Nat
        BY <1>1
      <3>. QED BY <1>1, <2>1, <3>1
    <2>. QED BY <2>1, <2>2 DEF HandledBound
  <1>. QED BY <1>2, <1>3, <1>4 DEF InboxInvariant

\* Every step keeps the invariant.
LEMMA InboxStep == InboxInvariant /\ [Next]_vars => InboxInvariant'
  <1>. SUFFICES ASSUME InboxInvariant, [Next]_vars PROVE InboxInvariant'
    OBVIOUS
  <1>1. CASE \E id \in MessageIds \cup {NoId, Hole} : Say(id)
    BY <1>1, SayKeeps
  <1>2. CASE Inspect
    BY <1>2, InspectKeeps
  <1>3. CASE ReturnPending
    BY <1>3, ReturnPendingKeeps
  <1>4. CASE Fetch
    BY <1>4, FetchKeeps
  <1>5. CASE Store
    BY <1>5, StoreKeeps
  <1>6. CASE Handle
    BY <1>6, HandleKeeps
  <1>7. CASE Acknowledge
    BY <1>7, AcknowledgeKeeps
  <1>8. CASE HandlerFails
    BY <1>8, FailureKeeps DEF HandlerFails, InboxInvariant, InboxTypeOK
  <1>9. CASE Crash
    <2>1. 0 \in 0 .. Len(room)
      BY DEF InboxInvariant, InboxTypeOK
    <2>. QED BY <1>9, <2>1, FailureKeeps DEF Crash
  <1>10. CASE UNCHANGED vars
    BY <1>10 DEF vars, InboxInvariant, InboxTypeOK, InboxExact, HandledBound, Pending, Shown
  <1>. QED
    BY <1>1, <1>2, <1>3, <1>4, <1>5, <1>6, <1>7, <1>8, <1>9, <1>10 DEF Next, Consume

-----------------------------------------------------------------------------
(* Theorems.                                                                 *)

\* The invariant that carries the theorems below.
THEOREM InboxInvariance == Spec => []InboxInvariant
  BY InboxInit, InboxStep, PTL DEF Spec

\* Types; a batch holds pending messages only, and rows are acknowledged only once
\* stored.
THEOREM InboxTypeCorrect == Spec => []InboxTypeOK
  <1>1. InboxInvariant => InboxTypeOK
    BY DEF InboxInvariant
  <1>. QED BY <1>1, InboxInvariance, PTL

\* The durable cursor never passes a message that is not in the inbox, whatever
\* crashes, raw reads, rejected pages and failing handlers there are.
THEOREM NothingEverSkipped == Spec => []NothingSkipped
  <1>1. InboxInvariant => NothingSkipped
    BY DEF InboxInvariant, InboxExact, NothingSkipped
  <1>. QED BY <1>1, InboxInvariance, PTL

\* Only Handle processes a message, and it processes the first of the batch.
LEMMA OnlyHandleProcesses ==
  ASSUME InboxInvariant, [Next]_vars, NEW s \in Sequence, handled'[s] # handled[s]
  PROVE  Handle /\ s = Head(batch)
  <1>1. handled' # handled
    OBVIOUS
  <1>2. Handle
    BY <1>1 DEF Next, Consume, vars, Say, Inspect, ReturnPending, Fetch, Store,
                Acknowledge, HandlerFails, Crash
  <1>3. handled \in [Sequence -> 0 .. MaxFailures + 1]
    BY DEF InboxInvariant, InboxTypeOK
  <1>. QED BY <1>2, <1>3 DEF Handle

\* A message is processed only once every earlier one is acknowledged, whatever fails
\* in between.
THEOREM ProcessedInRoomOrder == Spec => InRoomOrder
  <1>1. ASSUME InboxInvariant, [Next]_vars, NEW s \in Sequence, handled'[s] # handled[s]
        PROVE  Shown(1, s - 1) \subseteq acknowledged
    <2>1. Handle /\ s = Head(batch)
      BY <1>1, OnlyHandleProcesses
    <2>2. s \in stored /\ \A r \in stored : r < s => r \in acknowledged
      BY <1>1, <2>1, HeadIsNext DEF Handle
    <2>3. stored = Shown(1, cursor) /\ cursor \in Nat
      BY <1>1 DEF InboxInvariant, InboxExact, InboxTypeOK
    <2>4. \A r \in Shown(1, s - 1) : r \in stored /\ r < s
      BY <2>2, <2>3 DEF Shown
    <2>. QED BY <2>2, <2>4
  <1>2. InboxInvariant /\ [Next]_vars =>
          [\A s \in Sequence :
             handled'[s] # handled[s] => Shown(1, s - 1) \subseteq acknowledged]_vars
    BY <1>1
  <1>. QED BY <1>2, InboxInvariance, PTL DEF Spec, InRoomOrder

\* An acknowledged message is never processed again, and one that is not is repeated
\* at most once per failure.
THEOREM RepeatsNeedFailures == Spec => RepeatedOnlyAfterFailure
  <1>1. ASSUME InboxInvariant, [Next]_vars, NEW s \in Sequence, handled'[s] # handled[s]
        PROVE  s \notin acknowledged /\ handled[s] =< failures
    <2>1. Handle /\ s = Head(batch)
      BY <1>1, OnlyHandleProcesses
    <2>2. s \notin acknowledged
      BY <1>1, <2>1, HeadIsNext DEF Handle
    <2>. QED BY <1>1, <2>1, <2>2 DEF Handle, InboxInvariant, HandledBound
  <1>2. InboxInvariant /\ [Next]_vars =>
          [\A s \in Sequence :
             handled'[s] # handled[s] => s \notin acknowledged /\ handled[s] =< failures]_vars
    BY <1>1
  <1>. QED BY <1>2, InboxInvariance, PTL DEF Spec, RepeatedOnlyAfterFailure
=============================================================================
