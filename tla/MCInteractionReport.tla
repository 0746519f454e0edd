------------------------- MODULE MCInteractionReport -------------------------
(* Instance of InteractionReport for TLC.                                    *)
EXTENDS InteractionReport

CONSTANTS i1, i2, node, public, v1, v2

Ev(id, stage, at, valid, provenance, evidence) ==
    [id |-> id, source |-> IF provenance = "self_reported" THEN public ELSE node,
     stage |-> stage, at |-> at, valid |-> valid, provenance |-> provenance,
     evidence |-> evidence]

\* The stages of a task in order and out of order; an id that comes with two contents;
\* one that two sources use; an event that is late by more than the 20 seconds that
\* earn latency points; every kind of source; invalid events.
MCEvents ==
    {Ev(NoId, "request_received", 0, TRUE, "observed", v1),
     Ev(NoId, "request_received", 0, FALSE, "observed", v1),
     Ev(i1, "task_started", 1000, TRUE, "observed", v1),
     Ev(i1, "task_started", 1000, FALSE, "observed", v1),
     Ev(i1, "task_started", 1000, TRUE, "self_reported", NoEvidence),
     Ev(NoId, "artifact_delivered", 1000, TRUE, "platform", v2),
     Ev(i2, "artifact_delivered", 4000, TRUE, "bilateral", NoEvidence),
     Ev(NoId, "task_completed", 4000, TRUE, "observed", v2),
     Ev(NoId, "task_completed", 30000, FALSE, "platform", v2),
     Ev(NoId, "task_failed", 1000, TRUE, "observed", NoEvidence),
     Ev(NoId, "disputed", 4000, TRUE, "observed", NoEvidence),
     Ev(i2, "disputed", 0, TRUE, "observed", NoEvidence)}

MCTimes == {0, 1000, 4000, 30000}
=============================================================================
