----------------------------- MODULE MCAltosTask -----------------------------
(* Instances of AltosTask for TLC.                                         *)
EXTENDS AltosTask

CONSTANTS t1, t2, t3

BootTwo   == <<t1, t2>>
BootThree == <<t1, t2, t3>>
=============================================================================
