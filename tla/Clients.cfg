CONSTANTS
  panel = panel
  ctl = ctl
  None = None
  Apps <- MCApps
  Tools <- MCTools
  Values <- MCValues
  Initial = 48
  MaxPeer = 1
  SockBuf = 4
  PeerBuf = 3
  Backlog = 2
  Presses = 2
  Crashes = 1
SPECIFICATION Spec
INVARIANTS
  TypeOK
  WholeLines
  SubscribersAreTold
PROPERTIES
  AppsCatchUp
