------------------------------ MODULE MCAltosLog ------------------------------
(* Instances of AltosTracker, and so of AltosLog, for TLC.                 *)
EXTENDS AltosTracker

MCRecords == {Flight(n) : n \in 1 .. MaxNumber} \cup {Sensor}

Board(blocks, log_max, memory, tracker) ==
  [blocks |-> blocks, log |-> log_max, memory |-> memory, tracker |-> tracker]

(* TeleMini and TeleMega with their two kinds of memory, and TeleGPS 1.    *)
MCBoards ==
  {Board(2, 2, "flash", FALSE), Board(2, 2, "eeprom", FALSE),
   Board(3, 3, "flash", TRUE)}
=============================================================================
