----------------------------- MODULE MCAltosLco ------------------------------
(* Instances of AltosLco for TLC.                                          *)
EXTENDS AltosLco
=============================================================================
