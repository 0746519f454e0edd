SPECIFICATION FairSpec
CHECK_DEADLOCK FALSE
CONSTANTS
    MessageIds = {m1, m2, m3}
    NoId = NoId
    Hole = Hole
    MaxMessages = 4
    PageLimit = 2
    MaxFailures = 2
INVARIANTS InboxTypeOK NothingSkipped
PROPERTIES InRoomOrder RepeatedOnlyAfterFailure EveryMessageAcknowledged
