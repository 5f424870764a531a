SPECIFICATION TerminalSpec
CONSTANTS
  QueueCapacity = 3
  MaxPairs = 2
  MaxEndpoints = 6
  MaxPending = 1
  MaxActions = 2
  ManagerCalls <- MCManagerCalls
  MasterCalls <- MCMasterCalls
  SlaveCalls <- MCSlaveCalls
  MaxRequests = 3
  TtydStarts <- MCTtydStarts
  MaxEvents = 1
  OutputBytes = 2
  ChunkBytes = 2
  MaxFailures = 2
  KeyClass <- MCKeyClass
  MaxInputs = 3
  Strokes <- MCStrokes
  MaxStarts = 2
  MaxSubscriptions = 2
INVARIANTS BindingsExact RespondersHeldOnce WatchesServed WritesInOrder NoStuckModifier KernelTerminalAlone 
CHECK_DEADLOCK FALSE
