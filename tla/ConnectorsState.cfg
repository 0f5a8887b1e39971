\* One replica: two syncs of its process share last_state.
SPECIFICATION Spec
CONSTANTS
  r1 = r1  r2 = r2  q1 = q1  q2 = q2  c1 = c1  c2 = c2
  Replicas = {r1}
  Requests = {q1}
  Connectors = {c1}
  Nobody = Nobody
  Gone = Gone
  NoConnector = NoConnector
  Interval = 1
  StuckAfter = 1
  MaxWait = 1
  RunAge = 0
  MaxVersion = 1
  MaxFaults = 0
INVARIANTS
  ValidatorHasData
CHECK_DEADLOCK FALSE
