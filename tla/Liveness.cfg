SPECIFICATION LiveSpec
CONSTANTS
  Calls = {c1, c2}
  KernelCalls = {c1}
  Oneway = {}
  Deadlined = {}
  Shared = {c1}
  Faulty = {}
  Receivers = {r1}
  Workers = {}
  Takers = {}
  KernelWorkers = {k1}
  NoCall = NoCall
  MaxMessages = 2
  MaxGlobal = 5
  Attempts = 2
  MaxFaults = 3
INVARIANT NoStaleEndpoint
PROPERTIES  FrontendRestored
CHECK_DEADLOCK FALSE
