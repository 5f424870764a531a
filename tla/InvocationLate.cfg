SPECIFICATION Spec
CONSTANTS
  Calls = {c1}
  KernelCalls = {c1}
  Oneway = {}
  Deadlined = {c1}
  Shared = {}
  Faulty = {}
  Receivers = {}
  Workers = {}
  Takers = {t1}
  KernelWorkers = {k1}
  NoCall = NoCall
  MaxMessages = 1
  MaxGlobal = 2
INVARIANTS NotDeliveredMeansNotExecuted
CHECK_DEADLOCK FALSE
