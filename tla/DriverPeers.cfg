CONSTANTS
  real = real
  sim = sim
  usb0 = usb0
  None = None
  Id <- MCId
  Net <- MCNet
  SimId <- MCSimId
  SimDev <- MCSimDev
  BusDevs <- MCBusDevs
  Requests <- MCRequests
  MaxPeer = 2
  Cap = 3
SPECIFICATION Spec
INVARIANTS
  TypeOK
  SubscriberCatchesUp
  OwnerKeepsClaim
  OneReplyPerCommand
