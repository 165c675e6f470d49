CONSTANTS
  NoMessage = NoMessage
  Boxes = {1}
  Channels = {1}
  Bits = {1}
  ShortMod = 4
  TickSlack = 0
  ArmTime = 0
  FireLimit = 1
  FireTime = 1
  TwoPorts = TRUE
  Skews = {0, 1}
  HasDrag = FALSE
  DragBox = 0
  FirePeriod = 1
  ArmPeriod = 1
  DragStart = 0
  DragStop = 0
  MaxReboots = 1
  Watched = {}
SPECIFICATION FairTelefireSpec
PROPERTY SafeIsSafe
PROPERTY ArmArms
