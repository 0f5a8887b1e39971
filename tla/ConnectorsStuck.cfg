\* One replica, no faults: the stuck-run rule and a sync that has just begun.
SPECIFICATION Spec
CONSTANTS
  r1 = r1  r2 = r2  q1 = q1  q2 = q2  c1 = c1  c2 = c2
  Replicas = {r1}
  Requests = {q1}
  Connectors = {c1}
  Nobody = Nobody
  Gone = Gone
  NoConnector = NoConnector
  Interval = 2
  StuckAfter = 1
  MaxWait = 1
  RunAge = 1
  MaxVersion = 1
  MaxFaults = 0
PROPERTIES
  NeverPreempted
CHECK_DEADLOCK FALSE
