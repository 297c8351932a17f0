SPECIFICATION MCSpec
CONSTANTS
  Parts = {"manager", "query", "schema", "gossip"}
  Paths = {"d"}
  Indexes <- MCIndexes
  collection <- MCCollection
  Documents <- MCDocuments
  MaxOperations = 4
  Operations = {"define", "change", "track", "untrack", "dispose", "rebuild", "subscribe"}
  none = none
  Strings <- MCStrings
  Numbers = {0, 1}
  MaxUnit = 3
  isoTimestamp <- MCIsoTimestamp
  Calls = {1, 2, 3, 4}
  tab <- MCTab
  indexName <- MCIndexName
  fields <- MCFields
  MAX_OPEN_ATTEMPTS = 2
  Peers = {"p", "q", "r"}
  Terms = {"t"}
  filterSizeInBits <- MCFilterSize
  positions <- MCPositions
  Owner = "q"
  Listener = "p"
  MaxRestarts = 1
INVARIANTS
  SerialCallsIndex HooksCurrent  SerialSchema

  
CHECK_DEADLOCK FALSE
