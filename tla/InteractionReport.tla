--------------------------- MODULE InteractionReport ---------------------------
(***************************************************************************)
(* The product the seller sells: the report on a list of interaction       *)
(* events (event_identity.py, telemetry.py).  A trace grows as an agent    *)
(* records events; on its way to the service a message may be sent again   *)
(* and may be overtaken by the next one.  Outcome is what the service      *)
(* answers for the trace as it arrived.                                    *)
(*                                                                         *)
(* All events are of one task and one subject, as evaluate_interaction_    *)
(* trace demands.  An event's hashes are part of its evidence.             *)
(***************************************************************************)
EXTENDS Integers, Sequences, FiniteSetsExt

CONSTANTS
    Events,       \* the events an agent may record
    Ids, NoId,    \* event_id: explicit, or absent as in older callers
    Sources,      \* source_id
    Evidence, NoEvidence,
    Times,        \* occurred_at in milliseconds
    MaxEvents     \* bound: messages of a trace

\* _STAGE_ORDER.
StageOrder ==
    [task_created |-> 0, request_received |-> 1, quote_declared |-> 2, task_started |-> 3,
     artifact_delivered |-> 4, buyer_acknowledged |-> 5, task_completed |-> 6,
     task_failed |-> 6, disputed |-> 7]

\* _PROVENANCE_WEIGHT in hundredths.
Weight == [platform |-> 100, observed |-> 90, bilateral |-> 60, self_reported |-> 15]
TrustedSources == {"platform", "observed"}

Event ==
    [id : Ids \cup {NoId}, source : Sources, stage : DOMAIN StageOrder, at : Times,
     valid : BOOLEAN, provenance : DOMAIN Weight, evidence : Evidence \cup {NoEvidence}]

ASSUME ReportAssumption ==
    /\ Events \subseteq Event
    /\ Times \subseteq Nat
    /\ NoId \notin Ids /\ NoEvidence \notin Evidence
    /\ MaxEvents \in Nat

-----------------------------------------------------------------------------
(* Identity: identity, deduplicate_events.                                   *)

\* model_dump without event_id and source_id; the digest of it is the content hash.
Content(e) ==
    <<e.stage, e.at, e.valid, e.provenance, e.evidence>>

Key(e) == IF e.id # NoId THEN <<e.source, "explicit", e.id>>
          ELSE <<e.source, "legacy-sha256", Content(e)>>

\* EventConflictError: some key comes with two contents.
Conflicting(events) ==
    \E i, j \in DOMAIN events :
        Key(events[i]) = Key(events[j]) /\ Content(events[i]) # Content(events[j])

\* Mutant: nothing is recognised as a replay.
KeptAll(events) == DOMAIN events

\* The positions that are kept: the first of each key.
Kept(events) ==
    {i \in DOMAIN events : \A j \in DOMAIN events : j < i => Key(events[j]) # Key(events[i])}

Unique(events) == [i \in Kept(events) |-> events[i]]

-----------------------------------------------------------------------------
(* evaluate_interaction_trace, on the unique events by their positions.      *)

Has(u, stage) == \E i \in DOMAIN u : u[i].stage = stage

\* Mutant: the events are not sorted.
BeforeAsReceived(u, i, j) == i < j

\* sorted by occurred_at is stable.
Before(u, i, j) == u[i].at < u[j].at \/ (u[i].at = u[j].at /\ i < j)

Ordered(u) ==
    \A i, j \in DOMAIN u : Before(u, i, j) => StageOrder[u[i].stage] =< StageOrder[u[j].stage]

Delivered(u) == Has(u, "artifact_delivered")
Disputed(u) == Has(u, "disputed")
Terminal(u) == Has(u, "task_completed") \/ Has(u, "task_failed")
ConflictingTerminals(u) == Has(u, "task_completed") /\ Has(u, "task_failed")
Completed(u) == Delivered(u) /\ Has(u, "task_completed") /\ ~Has(u, "task_failed")

TimesOf(u, stages) == {u[i].at : i \in {k \in DOMAIN u : u[k].stage \in stages}}
Starts(u) == TimesOf(u, {"request_received", "task_started"})
Finishes(u) == TimesOf(u, {"task_completed", "task_failed"})

\* -1 stands for None.
Latency(u) == IF Starts(u) = {} \/ Finishes(u) = {} THEN -1
              ELSE Max({0, Max(Finishes(u)) - Min(Starts(u))})

Valid(u) == Cardinality({i \in DOMAIN u : u[i].valid})
Count(u) == Cardinality(DOMAIN u)

\* round(a / b, n) of a ratio already multiplied by 10 ** n; halves go up, where
\* Python's go to the even digit or follow the binary value.
Rounded(a, b) == (2 * a + b) \div (2 * b)

\* schema_valid_rate in ten-thousandths.
SchemaRate(u) == Rounded(10000 * Valid(u), Count(u))

If(condition, points) == IF condition THEN points ELSE 0

\* Mutant: a dispute costs nothing.
RawUndisputed(u) ==
    2000 * Count(u) * (If(Completed(u), 40) + If(Delivered(u), 15) + If(Ordered(u), 15))
    + 40000 * Valid(u)
    + If(Latency(u) >= 0, Count(u) * Max({0, 20000 - Latency(u)}))

\* The score times 2000 * Count(u): completion, delivery, order, the schema rate,
\* 10 - latency_ms / 2000, the dispute.
Raw(u) ==
    2000 * Count(u) * (If(Completed(u), 40) + If(Delivered(u), 15) + If(Ordered(u), 15)
                       - If(Disputed(u), 25))
    + 40000 * Valid(u)
    + If(Latency(u) >= 0, Count(u) * Max({0, 20000 - Latency(u)}))

\* execution_score in hundredths; it cannot exceed 100.
Score(u) == Rounded(100 * Max({0, Raw(u)}), 2000 * Count(u))

EvidenceWeight(u) == Min({Weight[u[i].provenance] : i \in DOMAIN u})

Eligible(u) ==
    /\ Terminal(u) /\ ~ConflictingTerminals(u)
    /\ \A i \in DOMAIN u : u[i].provenance \in TrustedSources

ProvenanceCounts(u) ==
    [p \in DOMAIN Weight |-> Cardinality({i \in DOMAIN u : u[i].provenance = p})]

Risks(u) ==
    [missing_terminal_task_state |-> ~Terminal(u),
     artifact_not_delivered |-> ~Delivered(u),
     invalid_stage_order |-> ~Ordered(u),
     schema_validation_failure |-> Valid(u) < Count(u),
     interaction_disputed |-> Disputed(u),
     conflicting_terminal_task_state |-> ConflictingTerminals(u),
     evidence_not_reputation_eligible |-> ~Eligible(u),
     task_start_not_recorded |-> ~Has(u, "task_started"),
     completion_not_recorded |-> ~Has(u, "task_completed"),
     task_explicitly_failed |-> Has(u, "task_failed"),
     latency_not_computable |-> Latency(u) = -1,
     evidence_reference_missing |->
         \E i \in DOMAIN u : u[i].evidence = NoEvidence,
     weak_evidence_source |-> EvidenceWeight(u) < 90,
     credit_settlement_not_evaluated |-> TRUE]

RiskFlags(u) == LET risks == Risks(u) IN {flag \in DOMAIN risks : risks[flag]}

\* Every field but evidence_ids; confidence goes with the weight.
Metrics(u) ==
    [completed |-> Completed(u), delivered |-> Delivered(u), ordered |-> Ordered(u),
     schema_valid_rate |-> SchemaRate(u), disputed |-> Disputed(u),
     end_to_end_latency_ms |-> Latency(u), execution_score |-> Score(u),
     evidence_weight |-> EvidenceWeight(u), reputation_eligible |-> Eligible(u),
     provenance_counts |-> ProvenanceCounts(u), risk_flags |-> RiskFlags(u)]

\* The references in submitted order.
EvidenceIds(u) ==
    LET cited == {i \in DOMAIN u : u[i].evidence # NoEvidence}
        Nth(n) == CHOOSE i \in cited : Cardinality({k \in cited : k =< i}) = n
    IN [n \in 1 .. Cardinality(cited) |-> u[Nth(n)].evidence]

Conflict == [conflict |-> TRUE]

\* 409 event_identity_conflict, or the report.
Outcome(events) ==
    IF Conflicting(events) THEN Conflict
    ELSE [metrics |-> Metrics(Unique(events)), evidence_ids |-> EvidenceIds(Unique(events))]

-----------------------------------------------------------------------------
(* Traces.                                                                   *)

VARIABLE trace    \* the events in the order in which they arrive

Init == \E e \in Events : trace = <<e>>

Submit(e) ==
    /\ Len(trace) < MaxEvents
    /\ trace' = Append(trace, e)

\* The message of an event is delivered a second time.
SendAgain(i) ==
    /\ Len(trace) < MaxEvents
    /\ trace' = Append(trace, trace[i])

\* It is overtaken by the message after it.
Overtake(i) ==
    /\ i + 1 \in DOMAIN trace
    /\ trace' = [trace EXCEPT ![i] = trace[i + 1], ![i + 1] = trace[i]]

Next ==
    \/ \E e \in Events : Submit(e)
    \/ \E i \in DOMAIN trace : SendAgain(i) \/ Overtake(i)

Spec == Init /\ [][Next]_trace

-----------------------------------------------------------------------------
(* Properties.                                                               *)

\* "Replaying one logical event no longer changes the score" (EVENT_IDENTITY_CHANGE.md):
\* whatever the trace holds, an event that arrives again changes no field of the
\* report, and turns no report into a conflict.
ReplayChangesNothing ==
    [][\A i \in DOMAIN trace :
        trace' = Append(trace, trace[i]) => Outcome(trace') = Outcome(trace)]_trace

\* The order of arrival decides nothing but the order of evidence_ids, unless two events
\* bear the same time (test_arrival_order_does_not_change_metrics_with_distinct_
\* timestamps), replays and missing event ids included.
ArrivalOrderIsIrrelevant ==
    [][\A i \in DOMAIN trace :
        i + 1 \in DOMAIN trace /\ Overtake(i) /\ trace[i].at # trace[i + 1].at =>
            IF Conflicting(trace) THEN Conflicting(trace')
            ELSE /\ ~Conflicting(trace')
                 /\ Metrics(Unique(trace')) = Metrics(Unique(trace))]_trace

\* To record a dispute never raises the score, although a valid event more raises the
\* schema rate (telemetry.py 89-96).
DisputeNeverHelps ==
    [][LET reported == ~Conflicting(trace) /\ ~Conflicting(trace') IN
       reported /\ ~Disputed(Unique(trace)) /\ Disputed(Unique(trace')) =>
           Score(Unique(trace')) =< Score(Unique(trace))]_trace
=============================================================================
