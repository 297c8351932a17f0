SPECIFICATION Spec
CONSTANTS
  Members = {1, 2, 3, 4}
  MaxOps = 4
  Joiners = {2, 3}
  FounderClient = 5
  JoinerClient <- MCJoinerClient
  DocClients = {1, 8}
  FullHistory = FALSE
  MaxPending = 1
  MaxCalls = 3
  MaxLoads = 1
  MaxKeys = 4
CONSTRAINT Bounded
INVARIANTS
   KeysAreConfined  
CHECK_DEADLOCK FALSE
