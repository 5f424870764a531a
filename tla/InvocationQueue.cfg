SPECIFICATION Spec
CONSTANTS
  Calls = {c1, c2}
  KernelCalls = {}
  Oneway = {c1}
  Deadlined = {c1}
  Shared = {c2}
  Faulty = {c2}
  Receivers = {r1, r2}
  Workers = {}
  Takers = {}
  KernelWorkers = {}
  NoCall = NoCall
  MaxMessages = 2
  MaxGlobal = 4
SYMMETRY Symmetry
INVARIANTS NotDeliveredMeansNotExecuted DeliveredOnce NoCallLost AccountingExact
CHECK_DEADLOCK FALSE
