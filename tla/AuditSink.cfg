\* Two replicas on SQLite: overlapping passes, failed posts, restarts.
SPECIFICATION FairSpec
CONSTANTS
  Replicas = {r1, r2}
  Nobody = Nobody
  Gone = Gone
  OneWriter = TRUE
  MaxId = 3
  Batch = 2
  MaxFaults = 2
INVARIANTS
  TypeOK
  NeverDropped
  RepeatHasCause
PROPERTIES
  InOrder
  EventuallyDelivered
CHECK_DEADLOCK FALSE
