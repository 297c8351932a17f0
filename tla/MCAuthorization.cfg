SPECIFICATION MCSpec
CONSTANTS
  founder = founder
  writer = writer
  Replicas = {founder, writer}
  Changes <- MCChanges
  genesisAuthorizedKeys = {founder}
  undefined = undefined
  MaxCalls = 5
  MaxQueue = 2
  Keys = {root, delegate}
  Root = root
  Abilities = {"/doc/write", "/doc/read", "/doc/history"}
  maxDepth = 2
  MaxTokens = 3
  Granted = {"/doc/read"}
  MaxFaults = 1
  Admins = {1, 2, 3}
  Users = {user}
  Backend = "yjs"
  MaxOps = 3
  nobody = nobody
  MaxEpochs = 3
  noEpoch = noEpoch
INVARIANTS
  ChainSound  MergedListIsRight LineageKnown
PROPERTIES
  ImplementsLog CallsSettle
CHECK_DEADLOCK FALSE
