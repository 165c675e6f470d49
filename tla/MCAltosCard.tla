------------------------------ MODULE MCAltosCard ------------------------------
(***************************************************************************)
(* An SD card at one of two levels: as the file system that the log and    *)
(* the console use, or as the cache of sectors under it.  The other level  *)
(* is left alone.                                                          *)
(***************************************************************************)
EXTENDS AltosFat, AltosBufio

VARIABLE level   \* "files" or "sectors"

cardVars == <<fatVars, bufioVars, level>>

CardInit ==
  /\ level \in {"files", "sectors"}
  /\ FatInit /\ BufioInit
  /\ level = "files" =>
       LET v == CHOOSE v \in Values : TRUE
       IN (\A s \in Sectors : card[s] = v) /\ (\A b \in Buffers : ao_buffer[b] = v)
  /\ level = "sectors" => root_entries = 1

Files == level = "files" /\ FatNext /\ UNCHANGED <<bufioVars, level>>
Cached == level = "sectors" /\ BufioNext /\ UNCHANGED <<fatVars, level>>

CardSpec == CardInit /\ [][Files \/ Cached]_cardVars
=============================================================================
