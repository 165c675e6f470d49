----------------------------- MODULE MCAltosPacket -----------------------------
(* Instances of AltosPacket for TLC.                                       *)
EXTENDS AltosPacket
=============================================================================
