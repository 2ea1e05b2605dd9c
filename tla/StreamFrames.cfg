CONSTANTS
  p1 = p1
  p2 = p2
  None = None
  Connections = 2
  Sources <- MCSources
  MediaLen <- MCMediaLen
  FrameLen = 4
  Header = 2
  PipeLen = 2
  Consumers <- MCConsumers
SPECIFICATION Spec
INVARIANTS
  TypeOK
  ReaderInSync
PROPERTIES
  FrameOfSession
  FrameEnds
  VideoFlows
