CONSTANTS
  NoMessage = NoMessage
  Boxes = {1}
  Channels = {1}
  Bits = {1}
  ShortMod = 8
  TickSlack = 1
  ArmTime = 2
  FireLimit = 4
  FireTime = 1
  TwoPorts = FALSE
  Skews = {0}
SPECIFICATION PadSpec
INVARIANT PinsReleased
