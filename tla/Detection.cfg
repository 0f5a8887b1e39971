\* Two drains at once, one thread each, against two ingest clients.
SPECIFICATION Spec
SYMMETRY Interchangeable
CONSTANTS
  e1 = e1  e2 = e2  e3 = e3  e4 = e4
  d1 = d1  d2 = d2  c1 = c1  c2 = c2  l1 = l1
  NoWorker = NoWorker
  Engine = Engine
  Events <- FourEvents
  Workers <- MCWorkers
  Drains = {d1, d2}
  NThreads = 1
  Clients = {c1, c2}
  Listeners = {}
  Burst = {}
  Threshold = 2
  Window = 1
  PoolBatch = 2
  InlineLimit = 1
  MaxLines = 2
  MaxBacklog = 1
  Lease = 1
  MaxTime = 3
  MaxFails = 1
INVARIANTS
  TypeOK
  DetectedIffProcessed
  RepeatHasCause
  BatchesDisjoint
  DrainComplete
  BacklogBounded
CHECK_DEADLOCK FALSE
