SPECIFICATION Spec
CONSTANTS
  p = p
  q = q
  end = end
  view = view
  client = client
  Tables = {p, q}
  Objects = {end, view}
  Batches = {b1}
  NoObject = NoObject
  NoTable = NoTable
  Unique <- MCUnique
  Inheritable <- MCInheritable
  Terminal = {}
  Granted <- MCGranted
  Requests <- MCRequests
  MaxEntries = 2
  HandleSpace = 4
INVARIANTS CountExact RestoreNeverRefused ReservedSlotsIntact HeldAsGranted
PROPERTIES NoReissue
SYMMETRY Symmetry
CHECK_DEADLOCK FALSE
