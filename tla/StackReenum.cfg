CONSTANTS
  real = real
  again = again
  sim = sim
  usb0 = usb0
  None = None
  Id <- MCId
  Net <- MCNet
  SimId <- MCSimId
  SimDev <- MCSimDev
  BusDevs <- PhoneForms
  Plugs <- Phone
  Accessory <- Becomes
  SimLines <- NoUsers
  Steps = 4
  QMax = 5
  KnownMax = 3
  Cap = 9
SPECIFICATION FairStableSpec
PROPERTIES
  ReenumerationEnds
