CONSTANTS
  real = real
  again = again
  sim = sim
  usb0 = usb0
  None = None
  Id <- MCId
  Net <- MCNet
  SimId <- MCSimId
  SimDev <- MCSimDev
  BusDevs <- TwoPlugs
  Plugs <- TwoPlugs
  Accessory <- NothingBecomes
  SimLines <- NoUsers
  Steps = 4
  QMax = 9
  KnownMax = 3
  Cap = 9
SPECIFICATION StableSpec
PROPERTIES
  FailsByOwnHandshake
