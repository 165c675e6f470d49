CONSTANTS
  NoMessage = NoMessage
  Boxes = {1}
  Channels = {1, 2}
  Bits = {1, 2}
  ShortMod = 4
  TickSlack = 0
  ArmTime = 1
  FireLimit = 3
  FireTime = 1
  TwoPorts = TRUE
  Skews = {0}
  HasDrag = FALSE
  DragBox = 0
  FirePeriod = 1
  ArmPeriod = 1
  DragStart = 0
  DragStop = 0
  MaxReboots = 0
  Watched = {1, 2}
SPECIFICATION TelefireSpec
INVARIANT ArmedByConsent
PROPERTY PinsByConsent
