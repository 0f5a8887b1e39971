\* Collectors, IOC lifecycle, hunts and webhooks, side by side.
SPECIFICATION Spec
CONSTANTS
  Inodes = {1, 2}
  MaxGen = 1
  MaxLen = 3
  ShipBatch = 1
  MaxAgentFaults = 2
  Pullers = {p1, p2}
  MaxKey = 3
  MaxObjects = 2
  MaxPullFaults = 1
  MaxTakeovers = 1
  Watchers = {w1, w2}
  WatchGen = 1
  WatchLen = 2
  MaxWatchFaults = 1
  MaxHandovers = 1
  Observations = {e1, e2}
  SrcIp = {e1, e2}
  DestIp = {e2}
  DestHost = {}
  Url = {}
  Matchers = {m1, m2}
  Decayers = {d1}
  NoPass = NoPass
  MaxActs = 2
  Hooks = {k1, k2}
  NoHook = NoHook
  Deliveries = {t1, t2}
  MaxAttempts = 2
  MaxSwitches = 2
  Clues = {c1, c2}
  Hunters = {h1, h2, q1}
  Requests = {q1}
  MaxSecond = 2
  Every = 1
  Window = 1
  PageSize = 1
  MaxStrays = 1
INVARIANTS
  TypeOK
  NoLineSkipped
  RepeatsArePaidFor
  NothingOvertaken
  RepeatsAreExplained
  PassedLineAccounted
  RepeatsFollowHandover
  KnownGoodKept
  SightedOncePerPlace
  OneStandingAlert
  PauseHolds
  NewsReported
  RepeatsBounded
PROPERTIES
  CatchesUp
  BucketDrained
  SightingRevives
CHECK_DEADLOCK FALSE
