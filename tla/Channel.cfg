CONSTANTS
  Channels = {a, b}
  Threads = {t1, t2}
  NoEnd = NoEnd
  NoThread = NoThread
  Starts <- MCStarts
  Waits <- MCWaits
  MaxMessages = 1
  MaxResources = 1
  GlobalMax = 2
SYMMETRY MCSymmetry
SPECIFICATION Spec
INVARIANTS CountersExact NoDanglingState WakeupReachesWaiter
PROPERTY CollectionExact
CHECK_DEADLOCK FALSE
