--------------------------- MODULE AltosPadCommand ---------------------------
(***************************************************************************)
(* What TeleFire boxes and the TeleLCO controller share, drivers/ao_pad.h: *)
(* the boxes, their channels and the commands.                             *)
(***************************************************************************)
EXTENDS Integers, FiniteSetsExt

CONSTANTS
  Boxes,        \* the box numbers
  Channels,     \* AO_PAD_ALL_CHANNELS: channel c is bit c-1 of a mask, and every
                \* board has channel 1
  NoMessage

ASSUME CommandAssumption ==
  /\ Boxes \subseteq Nat \ {0} /\ Boxes # {} /\ IsFiniteSet(Boxes)
  /\ Channels \subseteq Nat \ {0} /\ 1 \in Channels /\ IsFiniteSet(Channels)

(* struct ao_pad_command.  Its tick is the sender's clock less offset.     *)
Command(cmd, box, channels, offset) ==
  [cmd |-> cmd, box |-> box, channels |-> channels, offset |-> offset]
=============================================================================
