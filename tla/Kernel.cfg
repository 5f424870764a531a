SPECIFICATION KernelSpec
CONSTANTS
  r1 = r1
  t1 = t1
  c1 = c1
  c2 = c2
  Cpus = {c1, c2}
  Threads = {r1, t1}
  RealTime = {r1}
  Idle = Idle
  NoThread = NoThread
  Span = 1
  CallCapacity = 2
  MaxStops = 1
  VfsImage <- MCVfsImage
  VfsCalls <- MCVfsCalls
  MaxSymlinkDeep = 1
  PageUnits = 2
  MaxPathDeep = 9
  MaxPayload = 2
  MaxRam = 9
  MaxDentries = 7
  MaxOpens = 2
  MaxVfsCalls = 4
  Fan = 2
  Depth = 3
  Bottom = 1
  HeapPages = 2
  MaxFrames = 20
  Spaces = {1, 2}
  Image <- MCImage
  Frontends = {1}
  MmStarts <- MCMmStarts
  MmCalls <- MCMmCalls
  MaxMmCalls = 3
  SdWorkers = {1, 2}
  Owners = {101, 102}
  Admins = {101, 102}
  Managers = {101}
  Objects <- MCObjects
  UniqueObjects <- MCUniqueObjects
  Channels = {"l1", "l2"}
  OwnerOf <- MCOwnerOf
  MaxUri = 12
  SdRequests <- MCSdRequests
  MaxSdCalls = 3
  DpWorkers = {1, 2}
  Slots = 2
  SlotBytes = 1
  MemoryBytes = 2
  ReadOnly = FALSE
  WordBits = 2
  Sizes = {0, 1, 2}
  MaxPushes = 4
  MaxWrites = 1
  Keystrokes <- MCKeystrokes
  kb_cache_count = 2
  TaskletHandlers = 2
  MaxStrokes = 2
  FxThreads = {1, 2, 3}
  FxWords = {1}
  FxWaiters = {1, 2}
  MaxFxCalls = 3
  KmallocSizes <- MCKmallocSizes
  PageSize = 4096
  SlabHeader = 96
  HeapSizes = {1, 8000, 8192}
  HeapStarts <- MCHeapStarts
  MaxHeapCalls = 3
INVARIANTS
  
  WakeReachesWaiter
  StrandedOnlyInWindow
  
  AddressSpacesApart
  RootsGivenBack
  
  KeyNeverWaits
  
  
  HeapExact
CHECK_DEADLOCK FALSE
