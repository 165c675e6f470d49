CONSTANTS
  SeqMod = 3
  MaxLen = 2
  MaxBytes = 3
  MaxRestarts = 1
SPECIFICATION PacketSpec
PROPERTY ImplementsStream
PROPERTY Delivered
