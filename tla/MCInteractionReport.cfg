\* Every trace of up to four messages of twelve events.  A trace that is full stops.
SPECIFICATION Spec
CHECK_DEADLOCK FALSE
CONSTANTS
    Events <- MCEvents
    Ids = {i1, i2}
    NoId = NoId
    Sources = {node, public}
    Evidence = {v1, v2}
    NoEvidence = NoEvidence
    Times <- MCTimes
    MaxEvents = 4
    i1 = i1
    i2 = i2
    node = node
    public = public
    v1 = v1
    v2 = v2
PROPERTIES ReplayChangesNothing ArrivalOrderIsIrrelevant DisputeNeverHelps
