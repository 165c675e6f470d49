------------------------------ MODULE AltosConfig ------------------------------
(***************************************************************************)
(* The configuration of a board and the erase marks that share its memory: *)
(* kernel/ao_config.c and the first part of kernel/ao_log.c.  Of the       *)
(* settings there is ao_config.flight_log_max, in blocks.  The memory is a *)
(* block of the flash, which is erased to be written (USE_STORAGE_CONFIG), *)
(* or an EEPROM, whose bytes are rewritten in place (USE_EEPROM_CONFIG).   *)
(* Each write of the structure is one step: the power fails between two.   *)
(* Only boards that fly (HAS_FLIGHT), not trackers, save a mark with it.   *)
(***************************************************************************)
EXTENDS AltosStorage

CONSTANTS
  Sizes,      \* the sizes of a log that a user chooses, in blocks
  MaxErase,   \* LOG_MAX_ERASE
  MaxNumber,  \* bound on the flight number
  Lost,       \* no configuration is saved
  NoMark      \* an erase mark that is not set

ASSUME ConfigAssumption ==
  /\ Sizes \subseteq Nat \ {0}
  /\ \A b \in Boards : b.log \in Sizes
  /\ MaxErase \in Nat \ {0} /\ MaxNumber \in Nat \ {0}
  /\ Lost \notin Sizes /\ NoMark \notin Nat

VARIABLES
  saved,           \* ao_config as saved, or Lost
  marks,           \* the erase marks: a flight number or NoMark
  flight_log_max,  \* ao_config.flight_log_max
  put,             \* the next step of _ao_config_put, "done" if there is none
  ao_flight_number

configVars == <<saved, marks, flight_log_max, put>>

Numbers == 0 .. MaxNumber
Marks == 0 .. MaxErase - 1

ConfigTypeOK ==
  /\ saved \in Sizes \cup {Lost}
  /\ marks \in [Marks -> Numbers \cup {NoMark}]
  /\ flight_log_max \in Sizes
  /\ put \in {"done", "erase", "config", "mark", "clear"}
  /\ ao_flight_number \in Numbers

(* A board as it leaves the factory.                                       *)
ConfigInit ==
  /\ saved = Lost
  /\ marks = [i \in Marks |-> NoMark]
  /\ flight_log_max = board.log
  /\ put = "done"
  /\ ao_flight_number = 0

(* _ao_config_get: what is not a configuration gives the defaults.         *)
ao_config_get == flight_log_max' = IF saved = Lost THEN board.log ELSE saved

Marked == {i \in Marks : marks[i] # NoMark}

(* ao_log_write_erase: mark i; on an EEPROM the first mark replaces all.   *)
ao_log_write_erase(i) ==
  /\ marks' = [marks EXCEPT ![i] = ao_flight_number]
  /\ put' = IF i = 0 /\ board.memory = "eeprom" THEN "clear" ELSE "done"

(* The steps of _ao_config_put.                                            *)
PutErase ==
  /\ put = "erase"
  /\ IF board.memory = "flash"
     THEN saved' = Lost /\ marks' = [i \in Marks |-> NoMark]
     ELSE UNCHANGED <<saved, marks>>
  /\ put' = "config"

PutConfig ==
  /\ put = "config"
  /\ saved' = flight_log_max
  /\ put' = IF ~board.tracker THEN "mark" ELSE "done"
  /\ UNCHANGED marks

PutMark ==
  /\ put = "mark"
  /\ ao_log_write_erase(0)
  /\ UNCHANGED saved

(* The loop of ao_log_write_erase, of which the writes that change a mark  *)
(* are steps.                                                              *)
PutClear ==
  /\ put = "clear"
  /\ IF Marked = {0}
     THEN put' = "done" /\ marks' = marks
     ELSE /\ \E i \in Marked \ {0} :
               /\ \A j \in Marked \ {0} : i <= j
               /\ marks' = [marks EXCEPT ![i] = NoMark]
          /\ put' = put
  /\ UNCHANGED saved

PutStep ==
  /\ PutErase \/ PutConfig \/ PutMark \/ PutClear
  /\ UNCHANGED <<flight_log_max, ao_flight_number>>

(* The first mark that ends the search of ao_log_erase_mark: a free one,   *)
(* or one that holds the flight number already.                            *)
MarkFound(i) ==
  /\ marks[i] \in {NoMark, ao_flight_number}
  /\ \A j \in Marks : j < i => marks[j] \notin {NoMark, ao_flight_number}

ao_log_erase_mark ==
  /\ \/ \E i \in Marks :
          /\ MarkFound(i)
          /\ IF marks[i] = NoMark
             THEN ao_log_write_erase(i)
             ELSE UNCHANGED <<marks, put>>
     \/ /\ ~\E i \in Marks : MarkFound(i)
        /\ put' = "erase"
        /\ UNCHANGED marks
  /\ UNCHANGED <<saved, flight_log_max, ao_flight_number>>

(* A mistake: the first mark, the oldest one.                              *)
FromFirstMark(number) ==
  IF marks[0] = NoMark THEN IF number = 0 THEN 1 ELSE number
  ELSE IF marks[0] > number THEN marks[0] ELSE number

(* ao_log_find_max_erase_flight: the last mark, if it is above number.     *)
FromMarks(number) ==
  LET newer == {m \in {marks[i] : i \in {i \in Marked :
                         \A j \in Marked : j <= i}} : m > number}
      found == IF newer = {} THEN number ELSE CHOOSE m \in newer : TRUE
  IN IF found = 0 THEN 1 ELSE found
=============================================================================
