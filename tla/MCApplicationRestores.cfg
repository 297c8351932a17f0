SPECIFICATION Spec
CONSTANTS
  p1 = p1  e1 = e1 e2 = e2 e3 = e3  t1 = t1 t2 = t2 c1 = c1 r1 = r1 r2 = r2
  x1 = x1 x2 = x2 x3 = x3 x4 = x4
  none = none  bare = bare
  Paths = {p1}
  Peers = {a}
  Instances <- MCInstances
  InitializeCalls <- MCCalls
  InvalidCalls = {2}
  Validates = TRUE
  MaxVersion = 2
  HookChanges = 1
  Thunks = {1, 2, 3}
  Effects = {e1, e2, e3}
  pathOfEffect <- MCPathOfEffect
  Swaps <- MCSwaps
  Cids = {t1, t2, c1, r1, r2}
  MaxRecentTips = 2
  MaxCrossLinks = 1
  Commits = {t1, t2}
  Changes = {c1}
  RemoteTree <- MCRemoteTree
  MaxPending = 1
  MaxDeliveries = 1
  PinCids = {x1, x2, x3, x4}
  MalformedCids = {x4}
  PublishedDocs = {d1, d2}
  PublishedTrees <- MCPublishedTrees
  MaxPublished = 3
  MaxConcurrentPins = 2
  RelayPeers = {q1, q2}
  PermanentTopics = {seed}
  OpenTopics = {u1, u2, u3}
  RefusedTopics = {sys}
  MaxAutoTopics = 2
PROPERTY DeliveryRestoresAlways
CONSTRAINT Bounded
CHECK_DEADLOCK FALSE
