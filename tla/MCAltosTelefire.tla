--------------------------- MODULE MCAltosTelefire ---------------------------
(* Instances of AltosTelefire for TLC.                                     *)
EXTENDS AltosTelefire
=============================================================================
