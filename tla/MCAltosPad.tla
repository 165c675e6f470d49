----------------------------- MODULE MCAltosPad ------------------------------
(* Instances of AltosPad for TLC.                                          *)
EXTENDS AltosPad
=============================================================================
