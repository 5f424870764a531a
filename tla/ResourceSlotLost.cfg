SPECIFICATION Spec
CONSTANTS
  p = p
  q = q
  end = end
  view = view
  client = client
  Tables = {p}
  Objects = {view}
  Batches = {b1}
  NoObject = NoObject
  NoTable = NoTable
  Unique <- MCUnique
  Inheritable <- MCInheritable
  Terminal = {}
  Granted <- MCGranted
  Requests <- MCRequests
  MaxEntries = 2
  HandleSpace = 4
INVARIANT NoSlotLost
CHECK_DEADLOCK FALSE
