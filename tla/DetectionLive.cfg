\* One drain with two threads, fed by a listener.
SPECIFICATION FairSpec
CONSTANTS
  e1 = e1  e2 = e2  e3 = e3  e4 = e4
  d1 = d1  d2 = d2  c1 = c1  c2 = c2  l1 = l1
  NoWorker = NoWorker
  Engine = Engine
  Events <- ThreeEvents
  Workers <- MCWorkers
  Drains = {d1}
  NThreads = 2
  Clients = {}
  Listeners = {l1}
  Burst = {}
  Threshold = 2
  Window = 1
  PoolBatch = 1
  InlineLimit = 1
  MaxLines = 2
  MaxBacklog = 1
  Lease = 1
  MaxTime = 4
  MaxFails = 1
PROPERTIES
  BacklogDrains
  AtLeastOnce
CHECK_DEADLOCK FALSE
