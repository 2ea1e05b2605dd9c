CONSTANTS
  p1 = p1
  p2 = p2
  hub = hub
  phone = phone
  acc = acc
  hubs = hubs
  nothing = nothing
  None = None
  Order <- MCOrder
  Hubs <- MCHubs
  Descs <- MCDescs
  HubKind = hubs
  AccKinds <- MCAcc
  NoKind = nothing
  MaxDev = 2
  QueueLen = 2
  Nums = 2
  StrLen = 4
  NameLen = 3
  RawLen = 6
  ManStr = 3
  ManNet = 3
  Early <- MCEarly
  Attaches = 2
  Alike = 1
  Renames = 1
SPECIFICATION Spec
INVARIANTS
  TypeOK
  TableCatchesUp
  ViewFollowsTable
PROPERTIES
  PresentIsKept
  StayersOnce
CHECK_DEADLOCK FALSE
