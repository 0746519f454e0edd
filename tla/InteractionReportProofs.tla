----------------------- MODULE InteractionReportProofs -----------------------
(***************************************************************************)
(* A replay is neutral for every trace and every set of events.  The       *)
(* report is a function of the unique events by position, so it is enough  *)
(* that a replay adds neither a unique event nor a conflict.               *)
(***************************************************************************)
EXTENDS InteractionReport, FunctionTheorems, FiniteSetTheorems, NaturalsInduction,
        WellFoundedInduction, TLAPS

\* A trace is a nonempty sequence of events.
TraceOK == trace \in Seq(Events) /\ Len(trace) > 0

\* Recording, replaying and overtaking keep it one.
THEOREM TraceCorrect == Spec => []TraceOK
<1>1. Init => TraceOK
    BY DEF Init, TraceOK
<1>2. TraceOK /\ [Next]_trace => TraceOK'
  <2> SUFFICES ASSUME TraceOK, [Next]_trace PROVE TraceOK'
    OBVIOUS
  <2>1. CASE \E e \in Events : Submit(e)
    BY <2>1 DEF TraceOK, Submit
  <2>2. CASE \E i \in DOMAIN trace : SendAgain(i)
    BY <2>2 DEF TraceOK, SendAgain
  <2>3. CASE \E i \in DOMAIN trace : Overtake(i)
    BY <2>3 DEF TraceOK, Overtake
  <2>4. CASE UNCHANGED trace
    BY <2>4 DEF TraceOK
  <2> QED
    BY <2>1, <2>2, <2>3, <2>4 DEF Next
<1> QED
    BY <1>1, <1>2, PTL DEF Spec

\* deduplicate_events skips a replay: the kept positions and their events stay.
LEMMA ReplayIsSkipped ==
    ASSUME NEW events \in Seq(Events), NEW i \in DOMAIN events
    PROVE  Unique(Append(events, events[i])) = Unique(events)
<1> DEFINE longer == Append(events, events[i])
<1>1. /\ DOMAIN events = 1 .. Len(events) /\ Len(events) \in Nat
      /\ DOMAIN longer = 1 .. (Len(events) + 1)
      /\ \A k \in DOMAIN events : longer[k] = events[k]
      /\ longer[Len(events) + 1] = events[i]
    OBVIOUS
<1> HIDE DEF longer
<1>2. Len(events) + 1 \notin Kept(longer)
    BY <1>1 DEF Kept
<1>3. \A k \in DOMAIN events : k \in Kept(longer) <=> k \in Kept(events)
    BY <1>1 DEF Kept
<1>4. Kept(longer) = Kept(events)
  <2>1. Kept(longer) \subseteq DOMAIN longer /\ Kept(events) \subseteq DOMAIN events
    BY DEF Kept
  <2>2. Kept(longer) \subseteq DOMAIN events
    BY <2>1, <1>1, <1>2
  <2>3. \A k : k \in Kept(longer) <=> k \in Kept(events)
    BY <2>1, <2>2, <1>3
  <2> QED
    BY <2>3
<1>5. \A k \in Kept(events) : longer[k] = events[k]
    BY <1>1 DEF Kept
<1> QED
    BY <1>4, <1>5 DEF Unique, longer

\* It is never a conflict, and hides none.
LEMMA ReplayIsNoConflict ==
    ASSUME NEW events \in Seq(Events), NEW i \in DOMAIN events
    PROVE  Conflicting(Append(events, events[i])) <=> Conflicting(events)
<1> DEFINE longer == Append(events, events[i])
<1>1. /\ DOMAIN events = 1 .. Len(events) /\ Len(events) \in Nat
      /\ DOMAIN longer = 1 .. (Len(events) + 1)
      /\ \A k \in DOMAIN events : longer[k] = events[k]
      /\ longer[Len(events) + 1] = events[i]
    OBVIOUS
<1> HIDE DEF longer
<1>2. ASSUME NEW k \in DOMAIN longer
      PROVE  \E j \in DOMAIN events : longer[k] = events[j]
    BY <1>1
<1>3. ASSUME NEW j \in DOMAIN events
      PROVE  \E k \in DOMAIN longer : longer[k] = events[j]
    BY <1>1
<1>4. Conflicting(longer) => Conflicting(events)
    BY <1>2 DEF Conflicting
<1>5. Conflicting(events) => Conflicting(longer)
    BY <1>3 DEF Conflicting
<1> QED
    BY <1>4, <1>5 DEF longer

\* An event that arrives again changes no field of the report, whatever the trace holds
\* and however long it is (deduplicate_events, event_identity.py).
THEOREM ReplaysAreNeutral == Spec => ReplayChangesNothing
<1>1. TraceOK /\ [Next]_trace =>
        [\A i \in DOMAIN trace :
            trace' = Append(trace, trace[i]) => Outcome(trace') = Outcome(trace)]_trace
  <2> SUFFICES ASSUME TraceOK, NEW i \in DOMAIN trace, trace' = Append(trace, trace[i])
               PROVE  Outcome(trace') = Outcome(trace)
    OBVIOUS
  <2>1. trace \in Seq(Events)
    BY DEF TraceOK
  <2>2. Unique(trace') = Unique(trace)
    BY <2>1, ReplayIsSkipped
  <2>3. Conflicting(trace') <=> Conflicting(trace)
    BY <2>1, ReplayIsNoConflict
  <2> QED
    BY <2>2, <2>3 DEF Outcome
<1> QED
    BY <1>1, TraceCorrect, PTL DEF Spec, ReplayChangesNothing

-----------------------------------------------------------------------------
(* The order of arrival.                                                     *)

\* Sets that correspond under a bijection have one size.
LEMMA SameSize ==
    ASSUME NEW S, NEW T, NEW m \in Bijection(S, T), IsFiniteSet(S),
           NEW A \in SUBSET S, NEW B \in SUBSET T, \A k \in S : k \in A <=> m[k] \in B
    PROVE  Cardinality(A) = Cardinality(B)
<1> DEFINE g == [k \in A |-> m[k]]
<1>1. /\ m \in [S -> T]
      /\ \A a, b \in S : m[a] = m[b] => a = b
      /\ \A t \in T : \E s \in S : m[s] = t
    BY Fun_BijectionProperties
<1>2. g \in [A -> B] /\ \A a, b \in A : g[a] = g[b] => a = b
    BY <1>1
<1>3. \A t \in B : \E s \in A : g[s] = t
    BY <1>1
<1>4. g \in Bijection(A, B)
    BY <1>2, <1>3, Fun_IsBij
<1>5. ExistsBijection(A, B)
    BY <1>4, Fun_ExistsBij
<1>6. IsFiniteSet(A)
    BY FS_Subset
<1> QED
    BY <1>5, <1>6, FS_Bijection

\* Two lists of the same events, in the same order as far as time goes, have the
\* same metrics.
LEMMA SameMetrics ==
    ASSUME NEW u, NEW v, NEW m \in Bijection(DOMAIN v, DOMAIN u), IsFiniteSet(DOMAIN v),
           \A k \in DOMAIN v : v[k] = u[m[k]],
           \A j, k \in DOMAIN v : Before(v, j, k) <=> Before(u, m[j], m[k])
    PROVE  Metrics(v) = Metrics(u)
<1>1. /\ \A k \in DOMAIN v : m[k] \in DOMAIN u
      /\ \A t \in DOMAIN u : \E k \in DOMAIN v : m[k] = t
    BY Fun_BijectionProperties
<1>2. ASSUME NEW stage PROVE Has(v, stage) <=> Has(u, stage)
    BY <1>1 DEF Has
<1>3. /\ Delivered(v) <=> Delivered(u)
      /\ Disputed(v) <=> Disputed(u)
      /\ Terminal(v) <=> Terminal(u)
      /\ ConflictingTerminals(v) <=> ConflictingTerminals(u)
      /\ Completed(v) <=> Completed(u)
    BY <1>2 DEF Delivered, Disputed, Terminal, ConflictingTerminals, Completed
<1>4. Ordered(v) <=> Ordered(u)
    BY <1>1 DEF Ordered
<1>5. ASSUME NEW stages PROVE TimesOf(v, stages) = TimesOf(u, stages)
    BY <1>1 DEF TimesOf
<1>6. Latency(v) = Latency(u)
    BY <1>5 DEF Latency, Starts, Finishes
<1>7. Valid(v) = Valid(u)
    BY <1>1, SameSize DEF Valid
<1>8. Count(v) = Count(u)
    BY <1>1, SameSize DEF Count
<1>9. ProvenanceCounts(v) = ProvenanceCounts(u)
  <2>1. ASSUME NEW p \in DOMAIN Weight
        PROVE  Cardinality({i \in DOMAIN v : v[i].provenance = p})
                 = Cardinality({i \in DOMAIN u : u[i].provenance = p})
      BY <1>1, SameSize
  <2> QED
      BY <2>1 DEF ProvenanceCounts
<1>10. EvidenceWeight(v) = EvidenceWeight(u)
  <2>1. {Weight[v[i].provenance] : i \in DOMAIN v} = {Weight[u[i].provenance] : i \in DOMAIN u}
      BY <1>1
  <2> QED
      BY <2>1 DEF EvidenceWeight
<1>11. Eligible(v) <=> Eligible(u)
    BY <1>1, <1>3 DEF Eligible
<1>12. SchemaRate(v) = SchemaRate(u) /\ Raw(v) = Raw(u)
    BY <1>3, <1>4, <1>6, <1>7, <1>8 DEF SchemaRate, Raw, If
<1>13. Score(v) = Score(u)
    BY <1>8, <1>12 DEF Score
<1>14. (\E i \in DOMAIN v : v[i].evidence = NoEvidence)
         <=> (\E i \in DOMAIN u : u[i].evidence = NoEvidence)
    BY <1>1
\* The same as equations, for the fields of records.
<1>15. /\ Completed(v) = Completed(u)
       /\ Delivered(v) = Delivered(u)
       /\ Disputed(v) = Disputed(u)
       /\ (~Terminal(v)) = (~Terminal(u))
       /\ (~Delivered(v)) = (~Delivered(u))
       /\ ConflictingTerminals(v) = ConflictingTerminals(u)
    BY <1>3 DEF Completed, Delivered, Disputed, Terminal, ConflictingTerminals, Has
<1>16. /\ Ordered(v) = Ordered(u)
       /\ (~Ordered(v)) = (~Ordered(u))
    BY <1>4 DEF Ordered
<1>17. /\ Eligible(v) = Eligible(u)
       /\ (~Eligible(v)) = (~Eligible(u))
    BY <1>11 DEF Eligible, Terminal, ConflictingTerminals, Has
<1>18. /\ (~Has(v, "task_started")) = (~Has(u, "task_started"))
       /\ (~Has(v, "task_completed")) = (~Has(u, "task_completed"))
       /\ Has(v, "task_failed") = Has(u, "task_failed")
    BY <1>2 DEF Has
<1>19. (\E i \in DOMAIN v : v[i].evidence = NoEvidence)
         = (\E i \in DOMAIN u : u[i].evidence = NoEvidence)
    BY <1>14
<1>20. RiskFlags(v) = RiskFlags(u)
  <2>1. Risks(v) = Risks(u)
      BY <1>6, <1>7, <1>8, <1>10, <1>15, <1>16, <1>17, <1>18, <1>19, Zenon DEF Risks
  <2> QED
      BY <2>1 DEF RiskFlags
<1> QED
    BY <1>6, <1>9, <1>10, <1>12, <1>13, <1>15, <1>16, <1>17, <1>20, Zenon DEF Metrics

\* Where the message at position k came from when those at i and i + 1 change places.
From(i, k) == IF k = i THEN i + 1 ELSE IF k = i + 1 THEN i ELSE k

\* The trace after message i was overtaken.
Overtaken(events, i) == [events EXCEPT ![i] = events[i + 1], ![i + 1] = events[i]]

\* Position by position, and its events have their places in the same range.
LEMMA OvertakenByPosition ==
    ASSUME NEW events \in Seq(Events), NEW i \in DOMAIN events, i + 1 \in DOMAIN events
    PROVE  /\ DOMAIN Overtaken(events, i) = DOMAIN events
           /\ DOMAIN events = 1 .. Len(events) /\ Len(events) \in Nat
           /\ \A k \in DOMAIN events :
                /\ From(i, k) \in DOMAIN events
                /\ From(i, From(i, k)) = k
                /\ Overtaken(events, i)[k] = events[From(i, k)]
<1>1. DOMAIN events = 1 .. Len(events) /\ Len(events) \in Nat
    OBVIOUS
<1> QED
    BY <1>1 DEF Overtaken, From

\* A conflict does not depend on the order.
LEMMA OvertakenConflicts ==
    ASSUME NEW events \in Seq(Events), NEW i \in DOMAIN events, i + 1 \in DOMAIN events
    PROVE  Conflicting(Overtaken(events, i)) <=> Conflicting(events)
<1> DEFINE after == Overtaken(events, i)
<1>1. /\ DOMAIN after = DOMAIN events
      /\ \A k \in DOMAIN events :
            /\ From(i, k) \in DOMAIN events
            /\ From(i, From(i, k)) = k
            /\ after[k] = events[From(i, k)]
    BY OvertakenByPosition
<1> HIDE DEF after
<1>2. \A k \in DOMAIN events : events[k] = after[From(i, k)]
    BY <1>1
<1>3. Conflicting(after) => Conflicting(events)
    BY <1>1 DEF Conflicting
<1>4. Conflicting(events) => Conflicting(after)
    BY <1>1, <1>2 DEF Conflicting
<1> QED
    BY <1>3, <1>4 DEF after

\* Unless two messages of one time change places, nothing does but the positions: the
\* events at i and i + 1 have two keys, or they would conflict.
LEMMA OvertakenMetrics ==
    ASSUME NEW events \in Seq(Events), NEW i \in DOMAIN events, i + 1 \in DOMAIN events,
           events[i].at # events[i + 1].at, ~Conflicting(events)
    PROVE  Metrics(Unique(Overtaken(events, i))) = Metrics(Unique(events))
<1> DEFINE after == Overtaken(events, i)
           u == Unique(events)
           v == Unique(after)
           m == [k \in Kept(after) |-> From(i, k)]
<1>1. /\ DOMAIN after = DOMAIN events
      /\ DOMAIN events = 1 .. Len(events) /\ Len(events) \in Nat
      /\ \A k \in DOMAIN events :
            /\ From(i, k) \in DOMAIN events
            /\ From(i, From(i, k)) = k
            /\ after[k] = events[From(i, k)]
    BY OvertakenByPosition
<1>2. Key(events[i]) # Key(events[i + 1])
    BY DEF Conflicting, Content
<1>3. /\ DOMAIN u = Kept(events) /\ \A k \in Kept(events) : u[k] = events[k]
      /\ DOMAIN v = Kept(after) /\ \A k \in Kept(after) : v[k] = after[k]
    BY DEF Unique
<1>4. Kept(after) \subseteq DOMAIN events /\ Kept(events) \subseteq DOMAIN events
    BY <1>1 DEF Kept
<1> HIDE DEF after, u, v
\* Messages other than the two keep their order.
<1>5. ASSUME NEW j \in DOMAIN events, NEW k \in DOMAIN events, ~(j = i /\ k = i + 1),
             ~(j = i + 1 /\ k = i)
      PROVE  j < k <=> From(i, j) < From(i, k)
  <2>1. i \in Int /\ j \in Int /\ k \in Int
      BY <1>1
  <2> QED
      BY <2>1, <1>5 DEF From
<1>6. ASSUME NEW k \in DOMAIN events
      PROVE  k \in Kept(after) <=> From(i, k) \in Kept(events)
  <2>1. ASSUME NEW j \in DOMAIN events
        PROVE  (j < k => Key(after[j]) # Key(after[k]))
                 <=> (From(i, j) < From(i, k) => Key(events[From(i, j)]) # Key(events[From(i, k)]))
    <3>1. CASE (j = i /\ k = i + 1) \/ (j = i + 1 /\ k = i)
        BY <3>1, <1>1, <1>2 DEF From
    <3>2. CASE ~((j = i /\ k = i + 1) \/ (j = i + 1 /\ k = i))
        BY <3>2, <1>1, <1>5
    <3> QED
        BY <3>1, <3>2
  <2>2. ASSUME NEW j \in DOMAIN events
        PROVE  \E l \in DOMAIN events : j = From(i, l)
      BY <1>1
  <2>3. (\A j \in DOMAIN events : j < k => Key(after[j]) # Key(after[k]))
          <=> (\A j \in DOMAIN events :
                 j < From(i, k) => Key(events[j]) # Key(events[From(i, k)]))
      BY <1>1, <2>1, <2>2
  <2> QED
      BY <1>1, <2>3 DEF Kept
<1>7. m \in Bijection(DOMAIN v, DOMAIN u)
  <2>1. m \in [DOMAIN v -> DOMAIN u]
      BY <1>3, <1>4, <1>6
  <2>2. \A a, b \in DOMAIN v : m[a] = m[b] => a = b
      BY <1>1, <1>3, <1>4
  <2>3. ASSUME NEW t \in DOMAIN u PROVE \E k \in DOMAIN v : m[k] = t
    <3>1. From(i, t) \in DOMAIN events /\ From(i, From(i, t)) = t
        BY <1>1, <1>3, <1>4
    <3>2. From(i, t) \in Kept(after)
        BY <3>1, <1>3, <1>6
    <3> QED
        BY <3>1, <3>2, <1>3
  <2> QED
      BY <2>1, <2>2, <2>3, Fun_IsBij
<1>8. \A k \in DOMAIN v : v[k] = u[m[k]]
    BY <1>1, <1>3, <1>4, <1>6
<1>9. ASSUME NEW j \in DOMAIN v, NEW k \in DOMAIN v
      PROVE  Before(v, j, k) <=> Before(u, m[j], m[k])
  <2>1. /\ j \in DOMAIN events /\ k \in DOMAIN events
        /\ m[j] = From(i, j) /\ m[k] = From(i, k)
        /\ v[j] = u[m[j]] /\ v[k] = u[m[k]]
      BY <1>3, <1>4, <1>8
  <2>2. CASE (j = i /\ k = i + 1) \/ (j = i + 1 /\ k = i)
    <3>1. v[j].at # v[k].at
        BY <2>1, <2>2, <1>1, <1>3 DEF From
    <3> QED
        BY <2>1, <3>1 DEF Before
  <2>3. CASE ~((j = i /\ k = i + 1) \/ (j = i + 1 /\ k = i))
    <3>1. j < k <=> m[j] < m[k]
        BY <2>1, <2>3, <1>5
    <3> QED
        BY <2>1, <3>1 DEF Before
  <2> QED
      BY <2>2, <2>3
<1>10. IsFiniteSet(DOMAIN v)
  <2>1. IsFiniteSet(DOMAIN events)
      BY <1>1, FS_Interval
  <2> QED
      BY <2>1, <1>3, <1>4, FS_Subset
<1> HIDE DEF m
<1>11. Metrics(v) = Metrics(u)
    BY <1>7, <1>8, <1>9, <1>10, SameMetrics
<1> QED
    BY <1>11 DEF u, v, after

\* However long the trace is, messages of two times that change places change neither
\* whether it conflicts nor any field but evidence_ids (telemetry.py 57-59).
THEOREM ArrivalOrderDecidesNothing == Spec => ArrivalOrderIsIrrelevant
<1>1. TraceOK /\ [Next]_trace =>
        [\A i \in DOMAIN trace :
            i + 1 \in DOMAIN trace /\ Overtake(i) /\ trace[i].at # trace[i + 1].at =>
                IF Conflicting(trace) THEN Conflicting(trace')
                ELSE /\ ~Conflicting(trace')
                     /\ Metrics(Unique(trace')) = Metrics(Unique(trace))]_trace
  <2> SUFFICES ASSUME TraceOK, NEW i \in DOMAIN trace, i + 1 \in DOMAIN trace, Overtake(i),
                      trace[i].at # trace[i + 1].at
               PROVE  IF Conflicting(trace) THEN Conflicting(trace')
                      ELSE /\ ~Conflicting(trace')
                           /\ Metrics(Unique(trace')) = Metrics(Unique(trace))
    OBVIOUS
  <2>1. trace \in Seq(Events)
    BY DEF TraceOK
  <2>2. trace' = Overtaken(trace, i)
    BY DEF Overtake, Overtaken
  <2>3. Conflicting(trace') <=> Conflicting(trace)
    BY <2>1, <2>2, OvertakenConflicts
  <2>4. ~Conflicting(trace) => Metrics(Unique(trace')) = Metrics(Unique(trace))
    BY <2>1, <2>2, OvertakenMetrics
  <2> QED
    BY <2>3, <2>4
<1> QED
    BY <1>1, TraceCorrect, PTL DEF Spec, ArrivalOrderIsIrrelevant

-----------------------------------------------------------------------------
(* What the public service may say.                                          *)

\* The first message of a trace is always kept: a report is never on no events.
LEMMA FirstIsKept ==
    ASSUME NEW events \in Seq(Events), Len(events) > 0
    PROVE  1 \in DOMAIN Unique(events)
<1>1. DOMAIN events = 1 .. Len(events) /\ Len(events) \in Nat
    OBVIOUS
<1> QED
    BY <1>1 DEF Unique, Kept

\* Public submissions enter as self_reported (seller.py accept_order, deliver); whatever
\* they claim and however often they are sent, the report is not reputation eligible
\* and bears the lowest weight.
THEOREM PublicReportsAreNotEligible ==
    ASSUME \A e \in Events : e.provenance = "self_reported"
    PROVE  Spec => [](~Eligible(Unique(trace)) /\ EvidenceWeight(Unique(trace)) = 15)
<1>1. TraceOK => ~Eligible(Unique(trace)) /\ EvidenceWeight(Unique(trace)) = 15
  <2> SUFFICES ASSUME TraceOK
               PROVE  ~Eligible(Unique(trace)) /\ EvidenceWeight(Unique(trace)) = 15
    OBVIOUS
  <2> DEFINE u == Unique(trace)
  <2>1. 1 \in DOMAIN u
    BY FirstIsKept DEF TraceOK
  <2>2. \A i \in DOMAIN u : u[i].provenance = "self_reported"
    BY DEF TraceOK, Unique, Kept
  <2> HIDE DEF u
  <2>3. ~Eligible(u)
    BY <2>1, <2>2 DEF Eligible, TrustedSources
  <2>4. {Weight[u[i].provenance] : i \in DOMAIN u} = {15}
    BY <2>1, <2>2 DEF Weight
  <2>5. EvidenceWeight(u) = 15
    BY <2>4 DEF EvidenceWeight, Min
  <2> QED
    BY <2>3, <2>5 DEF u
<1> QED
    BY <1>1, TraceCorrect, PTL DEF Spec

-----------------------------------------------------------------------------
(* A dispute costs more than a valid event can earn.                         *)

\* Integer division rounds down, by less than the divisor.
LEMMA DivisionBounds ==
    ASSUME NEW n \in Int, NEW d \in Int, d > 0
    PROVE  /\ n \div d \in Int
           /\ d * (n \div d) =< n
           /\ n < d * (n \div d) + d
    OBVIOUS

\* A smaller ratio is not rounded to a larger number.
LEMMA RoundedMonotonic ==
    ASSUME NEW a \in Int, NEW b \in Int, NEW c \in Int, NEW d \in Int, b > 0, d > 0,
           a * d =< c * b
    PROVE  Rounded(a, b) =< Rounded(c, d)
<1> DEFINE p == Rounded(a, b)
           q == Rounded(c, d)
<1>1. /\ p \in Int /\ (2 * b) * p =< 2 * a + b
      /\ q \in Int /\ 2 * c + d < (2 * d) * q + 2 * d
    BY DivisionBounds DEF Rounded
<1> HIDE DEF p, q
<1> SUFFICES ASSUME q + 1 =< p PROVE FALSE
    BY <1>1 DEF p, q
<1>2. \A x, y, z \in Int : z > 0 /\ x =< y => z * x =< z * y
    OBVIOUS
<1>3. \A x, y, z \in Int : z > 0 /\ x < y => z * x < z * y
    OBVIOUS
<1>4. d * ((2 * b) * p) =< d * (2 * a + b)
    BY <1>1, <1>2
<1>5. b * (2 * c + d) < b * ((2 * d) * q + 2 * d)
    BY <1>1, <1>3
<1>6. (b * d) * (q + 1) =< (b * d) * p
  <2>1. b * d \in Int /\ b * d > 0
    OBVIOUS
  <2> QED
    BY <1>1, <1>2, <2>1
<1>7. /\ d * ((2 * b) * p) = 2 * ((b * d) * p)
      /\ d * (2 * a + b) = 2 * (a * d) + b * d
      /\ b * (2 * c + d) = 2 * (c * b) + b * d
      /\ b * ((2 * d) * q + 2 * d) = 2 * ((b * d) * (q + 1))
    BY <1>1
<1>8. /\ a * d \in Int /\ c * b \in Int /\ b * d \in Int
      /\ (b * d) * p \in Int /\ (b * d) * (q + 1) \in Int
    BY <1>1
<1> QED
    BY <1>4, <1>5, <1>6, <1>7, <1>8

\* Raw from the number of events, their points, how many are valid, and the latency.
RawOf(count, points, valid, latency) == 2000 * count * points + 40000 * valid + count * latency

\* Of c events v are valid.  One valid event more earns less than the dispute costs.
LEMMA DisputeArithmetic ==
    ASSUME NEW c \in Nat, c >= 1, NEW v \in 0 .. c, NEW w \in {v, v + 1},
           NEW k \in Nat, NEW j \in Nat, j =< k, NEW l \in Nat
    PROVE  RawOf(c + 1, j - 25, w, l) * c =< RawOf(c, k, v, l) * (c + 1)
<1> DEFINE P == c * (c + 1)
<1>1. P \in Nat /\ P >= c + c
    OBVIOUS
<1>2. RawOf(c + 1, j - 25, w, l) * c
        = 2000 * (P * j) - 50000 * P + 40000 * (w * c) + P * l
    BY DEF RawOf
<1>3. RawOf(c, k, v, l) * (c + 1)
        = 2000 * (P * k) + 40000 * (v * c) + 40000 * v + P * l
    BY DEF RawOf
<1> HIDE DEF P
<1>4. P * j =< P * k /\ P * j \in Int /\ P * k \in Int /\ P * l \in Int
    BY <1>1
<1>5. w * c =< v * c + c /\ w * c \in Int /\ v * c \in Int
    OBVIOUS
<1> QED
    BY <1>1, <1>2, <1>3, <1>4, <1>5

\* A finite set of numbers has a largest and a smallest one, FiniteSetsExt!Max and Min.
LEMMA MaxMinExist ==
    ASSUME NEW S \in SUBSET Int, IsFiniteSet(S), S # {}
    PROVE  Max(S) \in S /\ Min(S) \in S
<1> DEFINE Bounded(s) == /\ \E x \in s : \A y \in s : x >= y
                         /\ \E x \in s : \A y \in s : x =< y
           R == StrictSubsetOrdering(S)
           T == {s \in SUBSET S : s # {} /\ ~Bounded(s)}
<1>1. Bounded(S)
  <2> SUFFICES ASSUME T # {} PROVE FALSE
    OBVIOUS
  <2>1. IsWellFoundedOn(R, SUBSET S)
    BY FS_StrictSubsetOrderingWellFounded, FS_FiniteSubsetsOfFinite
  <2>2. T \subseteq SUBSET S
    OBVIOUS
  <2> HIDE DEF R, T
  <2>3. PICK s \in T : \A t \in T : <<t, s>> \notin R
    BY <2>1, <2>2, WFMin
  <2>4. s \subseteq S /\ s # {} /\ ~Bounded(s)
    BY <2>3 DEF T
  <2>5. PICK x \in s : TRUE
    BY <2>4
  <2>6. s \ {x} = {} \/ Bounded(s \ {x})
    <3>1. s \ {x} \in SUBSET S /\ <<s \ {x}, s>> \in R
        BY <2>4, <2>5 DEF R, StrictSubsetOrdering
    <3> QED
        BY <2>3, <3>1 DEF T
  <2>7. \A y \in s : y \in Int
    BY <2>4
  <2>8. CASE s \ {x} = {}
    BY <2>4, <2>5, <2>7, <2>8
  <2>9. CASE Bounded(s \ {x})
    <3>1. PICK m \in s \ {x} : \A y \in s \ {x} : m >= y
        BY <2>9
    <3>2. PICK k \in s \ {x} : \A y \in s \ {x} : k =< y
        BY <2>9
    <3>3. \E z \in s : \A y \in s : z >= y
      <4>1. CASE m >= x
          BY <2>7, <3>1, <4>1
      <4>2. CASE x >= m
          BY <2>5, <2>7, <3>1, <4>2
      <4> QED
          BY <2>5, <2>7, <4>1, <4>2
    <3>4. \E z \in s : \A y \in s : z =< y
      <4>1. CASE k =< x
          BY <2>7, <3>2, <4>1
      <4>2. CASE x =< k
          BY <2>5, <2>7, <3>2, <4>2
      <4> QED
          BY <2>5, <2>7, <4>1, <4>2
    <3> QED
        BY <2>4, <3>3, <3>4
  <2> QED
    BY <2>6, <2>8, <2>9
<1> QED
    BY <1>1 DEF Max, Min

\* The larger of two numbers.
LEMMA MaxOfTwo ==
    ASSUME NEW x \in Int, NEW y \in Int
    PROVE  Max({x, y}) = IF x >= y THEN x ELSE y
BY DEF Max

\* What the unique events of a report are.
UniqueEvents(u) ==
    /\ IsFiniteSet(DOMAIN u) /\ DOMAIN u # {} /\ DOMAIN u \subseteq Nat
    /\ \A k \in DOMAIN u : u[k] \in Event

\* The times at which something happened are finitely many.
LEMMA TimesFinite ==
    ASSUME NEW u, UniqueEvents(u), NEW stages
    PROVE  IsFiniteSet(TimesOf(u, stages)) /\ TimesOf(u, stages) \subseteq Int
<1> DEFINE S == {k \in DOMAIN u : u[k].stage \in stages}
           f == [k \in S |-> u[k].at]
<1>1. IsFiniteSet(S)
    BY FS_Subset DEF UniqueEvents
<1>2. f \in Surjection(S, TimesOf(u, stages))
  <2>1. TimesOf(u, stages) = {u[k].at : k \in S}
    BY DEF TimesOf
  <2> HIDE DEF S
  <2> QED
    BY <2>1 DEF Surjection
<1>3. ASSUME NEW k \in DOMAIN u PROVE u[k].at \in Int
  <2>1. u[k] \in Event
    BY DEF UniqueEvents
  <2>2. u[k].at \in Times
    BY <2>1 DEF Event
  <2>3. Times \subseteq Int
    BY ReportAssumption
  <2> QED
    BY <2>2, <2>3
<1> QED
    BY <1>1, <1>2, <1>3, FS_Surjection DEF TimesOf

\* A latency is a number, and so are the points it earns.
LEMMA LatencyPoints ==
    ASSUME NEW u, UniqueEvents(u)
    PROVE  /\ Latency(u) \in Int
           /\ Latency(u) >= 0 => Max({0, 20000 - Latency(u)}) \in Nat
<1>1. Latency(u) \in Int
  <2>1. CASE Starts(u) = {} \/ Finishes(u) = {}
    BY <2>1 DEF Latency
  <2>2. CASE Starts(u) # {} /\ Finishes(u) # {}
    <3>1. Max(Finishes(u)) \in Int /\ Min(Starts(u)) \in Int
        BY <2>2, TimesFinite, MaxMinExist DEF Starts, Finishes
    <3> QED
        BY <2>2, <3>1, MaxOfTwo DEF Latency
  <2> QED
    BY <2>1, <2>2
<1> QED
    BY <1>1, MaxOfTwo

\* Recording a dispute as event n of a report that had none lowers its score.
LEMMA DisputeLowersScore ==
    ASSUME NEW u, UniqueEvents(u), NEW v, UniqueEvents(v), NEW n, n \notin DOMAIN u,
           DOMAIN v = DOMAIN u \cup {n}, \A k \in DOMAIN u : v[k] = u[k],
           v[n].stage = "disputed", ~Disputed(u)
    PROVE  Score(v) =< Score(u)
<1>1. /\ Count(u) \in Nat /\ Count(u) >= 1 /\ Count(v) = Count(u) + 1
  <2>1. Count(u) \in Nat /\ Count(u) # 0
    BY FS_CardinalityType, FS_EmptySet DEF UniqueEvents, Count
  <2>2. Count(v) = Count(u) + 1
    BY FS_AddElement DEF UniqueEvents, Count
  <2> QED
    BY <2>1, <2>2
<1>2. /\ Valid(u) \in 0 .. Count(u) /\ Valid(v) \in {Valid(u), Valid(u) + 1}
  <2> DEFINE before == {i \in DOMAIN u : u[i].valid}
             after == {i \in DOMAIN v : v[i].valid}
  <2>1. after = before \/ after = before \cup {n}
    OBVIOUS
  <2>2. IsFiniteSet(before) /\ n \notin before
    BY FS_Subset DEF UniqueEvents
  <2>3. Cardinality(before) \in Nat /\ Cardinality(before) =< Count(u)
    BY <2>2, FS_CardinalityType, FS_Subset DEF UniqueEvents, Count
  <2>4. Valid(u) = Cardinality(before) /\ Valid(v) = Cardinality(after)
    BY DEF Valid
  <2> HIDE DEF before, after
  <2>5. CASE after = before
    BY <1>1, <2>3, <2>4, <2>5
  <2>6. CASE after = before \cup {n}
    <3>1. Cardinality(before \cup {n}) = Cardinality(before) + 1
        BY <2>2, FS_AddElement
    <3> QED
        BY <1>1, <2>3, <2>4, <2>6, <3>1
  <2> QED
    BY <2>1, <2>5, <2>6
<1>3. ASSUME NEW stage, stage # "disputed" PROVE Has(v, stage) <=> Has(u, stage)
    BY <1>3 DEF Has
<1>4. /\ Delivered(v) <=> Delivered(u)
      /\ Completed(v) <=> Completed(u)
    BY <1>3 DEF Delivered, Completed
<1>5. Ordered(v) => Ordered(u)
    BY DEF Ordered, Before
<1>6. Disputed(v)
    BY DEF Disputed, Has
<1>7. ASSUME NEW stages, "disputed" \notin stages PROVE TimesOf(v, stages) = TimesOf(u, stages)
    BY <1>7 DEF TimesOf
<1>8. Latency(v) = Latency(u)
    BY <1>7 DEF Latency, Starts, Finishes
<1> DEFINE c == Count(u)
           l == If(Latency(u) >= 0, Max({0, 20000 - Latency(u)}))
           Points(x) == If(Completed(x), 40) + If(Delivered(x), 15) + If(Ordered(x), 15)
<1>9. l \in Nat
    BY LatencyPoints DEF If
<1>10. /\ Points(u) \in Nat /\ Points(v) \in Nat /\ Points(v) =< Points(u)
    BY <1>4, <1>5 DEF If
<1>11. Raw(u) = RawOf(c, Points(u), Valid(u), l)
  <2>1. If(Latency(u) >= 0, Count(u) * Max({0, 20000 - Latency(u)})) = c * l
    BY <1>1 DEF If
  <2> HIDE DEF l
  <2>2. If(Disputed(u), 25) = 0
    BY DEF If
  <2> QED
    BY <1>1, <1>2, <1>9, <1>10, <2>1, <2>2 DEF Raw, If, RawOf
<1>12. Raw(v) = RawOf(c + 1, Points(v) - 25, Valid(v), l)
  <2>1. If(Latency(v) >= 0, Count(v) * Max({0, 20000 - Latency(v)})) = (c + 1) * l
    BY <1>1, <1>8 DEF If
  <2> HIDE DEF l
  <2>2. If(Disputed(v), 25) = 25
    BY <1>6 DEF If
  <2>3. If(Completed(v), 40) + If(Delivered(v), 15) + If(Ordered(v), 15) - If(Disputed(v), 25)
          = Points(v) - 25
    BY <1>6 DEF If
  <2> HIDE DEF Points
  <2>4. Raw(v) = 2000 * Count(v) * (Points(v) - 25) + 40000 * Valid(v) + (c + 1) * l
    BY <2>1, <2>3 DEF Raw
  <2> QED
    BY <1>1, <2>4 DEF RawOf
<1> HIDE DEF c, l, Points
<1>13. c \in Nat /\ c >= 1 /\ Valid(u) \in 0 .. c
    BY <1>1, <1>2 DEF c
<1>14. Raw(v) * c =< Raw(u) * (c + 1)
  <2>1. /\ c \in Nat /\ c >= 1 /\ Valid(u) \in 0 .. c
        /\ Valid(v) \in {Valid(u), Valid(u) + 1}
        /\ Points(u) \in Nat /\ Points(v) \in Nat /\ Points(v) =< Points(u)
        /\ l \in Nat
    BY <1>2, <1>9, <1>10, <1>13
  <2> QED
    BY <1>11, <1>12, <2>1, DisputeArithmetic
<1>15. Raw(u) \in Int /\ Raw(v) \in Int
    BY <1>2, <1>9, <1>10, <1>11, <1>12, <1>13 DEF RawOf
<1>16. Raw(u) >= 0
    BY <1>2, <1>9, <1>10, <1>11, <1>13 DEF RawOf
<1>17. (100 * Max({0, Raw(v)})) * (2000 * c) =< (100 * Max({0, Raw(u)})) * (2000 * (c + 1))
  <2>1. Max({0, Raw(u)}) = Raw(u)
    BY <1>15, <1>16, MaxOfTwo
  <2>2. Max({0, Raw(v)}) * c =< Raw(u) * (c + 1)
    BY <1>13, <1>14, <1>15, <1>16, MaxOfTwo
  <2>3. Max({0, Raw(v)}) \in Int
    BY <1>15, MaxOfTwo
  <2> QED
    BY <1>13, <1>15, <2>1, <2>2, <2>3
<1> QED
  <2>1. Max({0, Raw(u)}) \in Int /\ Max({0, Raw(v)}) \in Int
    BY <1>15, MaxOfTwo
  <2>2. /\ 100 * Max({0, Raw(v)}) \in Int /\ 100 * Max({0, Raw(u)}) \in Int
        /\ 2000 * c \in Int /\ 2000 * c > 0
        /\ 2000 * (c + 1) \in Int /\ 2000 * (c + 1) > 0
    BY <1>13, <2>1
  <2>3. Rounded(100 * Max({0, Raw(v)}), 2000 * (c + 1)) =< Rounded(100 * Max({0, Raw(u)}), 2000 * c)
    BY <1>17, <2>2, RoundedMonotonic
  <2> QED
    BY <1>1, <2>3 DEF Score, c

\* Every event of a trace without conflicts is represented by the first of its key.
LEMMA StagesAreKept ==
    ASSUME NEW events \in Seq(Events), ~Conflicting(events), NEW stage
    PROVE  Has(Unique(events), stage) <=> \E i \in DOMAIN events : events[i].stage = stage
<1>1. DOMAIN Unique(events) = Kept(events) /\ Kept(events) \subseteq DOMAIN events
      /\ \A k \in Kept(events) : Unique(events)[k] = events[k]
    BY DEF Unique, Kept
<1>2. ASSUME NEW i \in DOMAIN events
      PROVE  \E j \in Kept(events) : events[j].stage = events[i].stage
  <2> DEFINE T == {j \in DOMAIN events : Key(events[j]) = Key(events[i])}
  <2>1. T \subseteq Nat /\ T # {} /\ DOMAIN events \subseteq Nat
    OBVIOUS
  <2> HIDE DEF T
  <2>2. PICK j \in T : \A k \in T : <<k, j>> \notin OpToRel(<, Nat)
    BY <2>1, NatLessThanWellFounded, WFMin
  <2>3. j \in DOMAIN events /\ Key(events[j]) = Key(events[i])
    BY <2>2 DEF T
  <2>4. ASSUME NEW k \in DOMAIN events, k < j PROVE Key(events[k]) # Key(events[j])
    <3>1. <<k, j>> \in OpToRel(<, Nat)
        BY <2>1, <2>3, <2>4 DEF OpToRel
    <3> QED
        BY <2>2, <2>3, <3>1 DEF T
  <2>5. j \in Kept(events)
    BY <2>3, <2>4 DEF Kept
  <2>6. Content(events[j]) = Content(events[i])
    BY <2>3 DEF Conflicting
  <2> QED
    BY <2>5, <2>6 DEF Content
<1> QED
    BY <1>1, <1>2 DEF Has

\* The unique events of a trace are finitely many, and at least one.
LEMMA UniqueTyped ==
    ASSUME NEW events \in Seq(Events), Len(events) > 0
    PROVE  UniqueEvents(Unique(events))
<1>1. DOMAIN events = 1 .. Len(events) /\ Len(events) \in Nat
    OBVIOUS
<1>2. DOMAIN Unique(events) \subseteq DOMAIN events
      /\ \A k \in DOMAIN Unique(events) : Unique(events)[k] = events[k]
    BY DEF Unique, Kept
<1>3. IsFiniteSet(DOMAIN events)
    BY <1>1, FS_Interval
<1>4. IsFiniteSet(DOMAIN Unique(events))
    BY <1>2, <1>3, FS_Subset
<1> QED
    BY <1>1, <1>2, <1>4, FirstIsKept, ReportAssumption DEF UniqueEvents

\* An event that is submitted is one more unique event, or a replay.
LEMMA SubmittedIsAdded ==
    ASSUME NEW events \in Seq(Events), NEW e \in Events,
           ~Conflicting(Append(events, e))
    PROVE  \/ Unique(Append(events, e)) = Unique(events)
           \/ /\ Len(events) + 1 \notin DOMAIN Unique(events)
              /\ DOMAIN Unique(Append(events, e)) = DOMAIN Unique(events) \cup {Len(events) + 1}
              /\ \A k \in DOMAIN Unique(events) :
                   Unique(Append(events, e))[k] = Unique(events)[k]
              /\ Unique(Append(events, e))[Len(events) + 1] = e
<1> DEFINE longer == Append(events, e)
           n == Len(events) + 1
<1>1. /\ DOMAIN events = 1 .. Len(events) /\ Len(events) \in Nat
      /\ DOMAIN longer = 1 .. n
      /\ \A k \in DOMAIN events : longer[k] = events[k]
      /\ longer[n] = e
    OBVIOUS
<1> HIDE DEF longer
<1>2. \A k \in DOMAIN events : k \in Kept(longer) <=> k \in Kept(events)
    BY <1>1 DEF Kept
<1>3. Kept(longer) \subseteq DOMAIN events \cup {n} /\ Kept(events) \subseteq DOMAIN events
      /\ n \notin DOMAIN events
    BY <1>1 DEF Kept
<1>4. /\ DOMAIN Unique(longer) = Kept(longer) /\ DOMAIN Unique(events) = Kept(events)
      /\ \A k \in Kept(longer) : Unique(longer)[k] = longer[k]
      /\ \A k \in Kept(events) : Unique(events)[k] = events[k]
    BY DEF Unique
<1>5. CASE n \in Kept(longer)
  <2>1. Kept(longer) = Kept(events) \cup {n}
    BY <1>2, <1>3, <1>5
  <2> QED
    BY <1>1, <1>3, <1>4, <2>1 DEF longer
<1>6. CASE n \notin Kept(longer)
  <2>1. Kept(longer) = Kept(events)
    BY <1>2, <1>3, <1>6
  <2>2. \A k \in Kept(events) : longer[k] = events[k]
    BY <1>1, <1>3
  <2>3. Unique(longer) = Unique(events)
    BY <2>1, <2>2 DEF Unique
  <2> QED
    BY <2>3 DEF longer
<1> QED
    BY <1>5, <1>6

\* To record a dispute never raises the score, however long the trace is: the one valid
\* event more earns less than the 25 points the dispute costs.
THEOREM DisputesNeverHelp == Spec => DisputeNeverHelps
<1>1. ASSUME TraceOK, TraceOK', [Next]_trace, ~Conflicting(trace), ~Conflicting(trace'),
             ~Disputed(Unique(trace)), Disputed(Unique(trace'))
      PROVE  Score(Unique(trace')) =< Score(Unique(trace))
  <2>1. trace \in Seq(Events) /\ trace' \in Seq(Events) /\ Len(trace) > 0 /\ Len(trace') > 0
    BY <1>1 DEF TraceOK
  <2>2. /\ \A i \in DOMAIN trace : trace[i].stage # "disputed"
        /\ \E i \in DOMAIN trace' : trace'[i].stage = "disputed"
    BY <1>1, <2>1, StagesAreKept DEF Disputed
  <2>3. PICK e \in Events : Submit(e)
    <3>1. CASE \E i \in DOMAIN trace : SendAgain(i)
        BY <2>1, <2>2, <3>1 DEF SendAgain
    <3>2. ASSUME NEW i \in DOMAIN trace, Overtake(i) PROVE FALSE
      <4>1. trace' = Overtaken(trace, i) /\ i + 1 \in DOMAIN trace
          BY <3>2 DEF Overtake, Overtaken
      <4>2. DOMAIN trace' = DOMAIN trace
            /\ \A k \in DOMAIN trace : From(i, k) \in DOMAIN trace /\ trace'[k] = trace[From(i, k)]
          BY <2>1, <4>1, OvertakenByPosition
      <4> QED
          BY <2>2, <4>2
    <3>3. CASE UNCHANGED trace
        BY <2>2, <3>3
    <3> QED
        BY <1>1, <3>1, <3>2, <3>3 DEF Next
  <2>4. trace' = Append(trace, e)
    BY <2>3 DEF Submit
  <2>5. e.stage = "disputed"
    BY <2>1, <2>2, <2>4
  <2>6. UniqueEvents(Unique(trace)) /\ UniqueEvents(Unique(trace'))
    BY <2>1, UniqueTyped
  <2>7. Unique(trace') # Unique(trace)
    BY <1>1
  <2> DEFINE n == Len(trace) + 1
             u == Unique(trace)
             v == Unique(trace')
  <2>8. /\ n \notin DOMAIN u /\ DOMAIN v = DOMAIN u \cup {n}
        /\ \A k \in DOMAIN u : v[k] = u[k]
        /\ v[n] = e
    BY <1>1, <2>1, <2>4, <2>7, SubmittedIsAdded
  <2> HIDE DEF n, u, v
  <2>9. UniqueEvents(u) /\ UniqueEvents(v) /\ ~Disputed(u)
    BY <1>1, <2>6 DEF u, v
  <2>10. Score(v) =< Score(u)
    BY <2>5, <2>8, <2>9, DisputeLowersScore
  <2> QED
    BY <2>10 DEF u, v
<1>2. TraceOK /\ TraceOK' /\ [Next]_trace =>
        [LET reported == ~Conflicting(trace) /\ ~Conflicting(trace') IN
         reported /\ ~Disputed(Unique(trace)) /\ Disputed(Unique(trace')) =>
             Score(Unique(trace')) =< Score(Unique(trace))]_trace
    BY <1>1
<1> QED
    BY <1>2, TraceCorrect, PTL DEF Spec, DisputeNeverHelps
=============================================================================
