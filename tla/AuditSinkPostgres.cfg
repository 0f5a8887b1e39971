\* One replica on Postgres: transactions commit in another order than they insert.
SPECIFICATION Spec
CONSTANTS
  Replicas = {r1}
  Nobody = Nobody
  Gone = Gone
  OneWriter = FALSE
  MaxId = 2
  Batch = 2
  MaxFaults = 0
INVARIANT
  NeverDropped
CHECK_DEADLOCK FALSE
