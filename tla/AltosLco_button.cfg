CONSTANTS
  NoMessage = NoMessage
  Boxes = {1}
  Channels = {1}
  HasDrag = TRUE
  DragBox = 0
  FirePeriod = 1
  ArmPeriod = 1
  DragStart = 1
  DragStop = 1
SPECIFICATION LcoSpec
INVARIANT FiringMeansPressed
