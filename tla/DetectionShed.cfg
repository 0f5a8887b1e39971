\* Live mode: no engine tick and no drain, only clients that retry.
SPECIFICATION RetrySpec
CONSTANTS
  e1 = e1  e2 = e2  e3 = e3  e4 = e4
  d1 = d1  d2 = d2  c1 = c1  c2 = c2  l1 = l1
  NoWorker = NoWorker
  Engine = Engine
  Events <- ThreeEvents
  Workers <- MCWorkers
  Drains = {}
  NThreads = 1
  Clients = {c1}
  Listeners = {}
  Burst <- ThreeEvents
  Threshold = 2
  Window = 1
  PoolBatch = 2
  InlineLimit = 1
  MaxLines = 2
  MaxBacklog = 1
  Lease = 1
  MaxTime = 2
  MaxFails = 1
PROPERTY
  SheddingEnds
CHECK_DEADLOCK FALSE
