---------------------------- MODULE MCAltosMutex -----------------------------
(* Instances of AltosMutex for TLC.                                        *)
EXTENDS AltosMutex

CONSTANTS t1, t2

BootTwo == <<t1, t2>>
=============================================================================
