SPECIFICATION Spec
CONSTANTS
  Calls = {c1}
  KernelCalls = {}
  Oneway = {}
  Deadlined = {}
  Shared = {c1}
  Faulty = {}
  Receivers = {r1}
  Workers = {w1, w2}
  Takers = {t1, t2}
  KernelWorkers = {}
  NoCall = NoCall
  MaxMessages = 1
  MaxGlobal = 2
SYMMETRY Symmetry
INVARIANTS AckedReplyIsTheResult TakenOnce
PROPERTIES ImplementsObjectCall
CHECK_DEADLOCK FALSE
