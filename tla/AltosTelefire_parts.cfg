CONSTANTS
  NoMessage = NoMessage
  Boxes = {1, 2}
  Channels = {1, 2}
  Bits = {1, 2, 3}
  ShortMod = 8
  TickSlack = 1
  ArmTime = 2
  FireLimit = 4
  FireTime = 1
  TwoPorts = TRUE
  Skews = {0, 3}
  HasDrag = TRUE
  DragBox = 0
  FirePeriod = 1
  ArmPeriod = 1
  DragStart = 1
  DragStop = 1
SPECIFICATION PartsSpec
INVARIANT ArmExpires
INVARIANT PinsReleased
INVARIANT OneRocket
