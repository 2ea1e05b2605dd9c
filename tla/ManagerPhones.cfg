CONSTANTS
  p1 = p1
  p2 = p2
  stick = stick
  usb0 = usb0
  None = None
  Id <- MCId
  Net <- MCNet
  Devices <- MCPhones
  SimLines <- NoSim
  Steps = 4
  QMax = 5
  KnownMax = 2
SPECIFICATION Spec
INVARIANTS
  TypeOK
  MediaFollowsSession
  IdleMeansNoPhone
  QueueFollowsConnection
  PlanInOrder
PROPERTIES
  NoPreemption
  HeadStaysWhileWaiting
  ImplementsProjection
