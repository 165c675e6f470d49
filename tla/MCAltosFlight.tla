---------------------------- MODULE MCAltosFlight ----------------------------
(* Instances of AltosFlight for TLC.                                       *)
EXTENDS AltosFlight
=============================================================================
