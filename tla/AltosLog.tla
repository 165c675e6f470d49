-------------------------------- MODULE AltosLog --------------------------------
(***************************************************************************)
(* The logs of a flight computer: kernel/ao_log.c without                  *)
(* FLIGHT_LOG_APPEND and the tasks that use it, the log task               *)
(* (kernel/ao_log_mega.c) and the console.  The memory is cut into slots,  *)
(* one for a flight.  A boot either prepares for a flight, in which the    *)
(* console is off, or is idle.  Power may fail before or in any step.  The  *)
(* console and the slots are those of trackers too (AltosTracker).         *)
(***************************************************************************)
EXTENDS AltosConfig

VARIABLES
  log,                \* what the task that logs does next
  ao_log_running,
  ao_log_current_pos,
  ao_log_end_pos,
  idle,               \* this boot is idle: the console is on
  console,            \* the command in progress
  target,             \* the slot the command erases
  newest,             \* ghost: the highest number that a flight was logged with
  forgot,             \* ghost: marks were lost in _ao_config_put, or made by a
                      \* command that came before the end of ao_log_scan
  layouts             \* ghost: each flight_log_max with which what is in the
                      \* flash was written or erased

taskVars == <<log, ao_log_running, ao_log_current_pos, ao_log_end_pos, idle>>
consoleVars == <<console, target>>
ghostVars == <<newest, forgot>>
logVars == <<storageVars, configVars, ao_flight_number, taskVars, consoleVars,
             ghostVars, layouts>>

Flight(n) == [type |-> "flight", flight |-> n]
Sensor == [type |-> "sensor", flight |-> 0]
IsRecord(c) == c.type \in {"flight", "sensor"}

(***************************************************************************)
(* Slots.                                                                  *)
(***************************************************************************)
SlotsOf(size) == 0 .. Blocks \div size - 1
Slots == SlotsOf(flight_log_max)
BlocksOf(slot) == slot * flight_log_max .. (slot + 1) * flight_log_max - 1
ao_log_pos(slot) == slot * flight_log_max * PerBlock
ao_log_pos_block_end(slot) == (slot + 1) * flight_log_max * PerBlock

(* 0 if the slot is free, its flight number if its first record has one,   *)
(* otherwise a negative number that names the slot.                        *)
ao_log_flight(slot) ==
  LET first == flash[ao_log_pos(slot)] IN
  IF ao_storage_is_erased(slot * flight_log_max) THEN 0
  ELSE IF first.type = "flight" THEN first.flight
  ELSE -(slot + 1)

Flights == {ao_log_flight(slot) : slot \in Slots}
Free == {slot \in Slots : ao_log_flight(slot) = 0}

(* The highest flight number, 0 if there is no flight.                     *)
ao_log_max_flight ==
  CHOOSE n \in Numbers :
    /\ n \in Flights \cup {0}
    /\ \A f \in Flights : f <= n

LogTypeOK ==
  /\ StorageTypeOK
  /\ ConfigTypeOK
  /\ log \in {"scan", "marks", "place", "wait", "flight", "sensor", "landed",
             "loop", "lock", "first", "data"}
  /\ ao_log_running \in BOOLEAN /\ idle \in BOOLEAN
  /\ {ao_log_current_pos, ao_log_end_pos} \subseteq 0 .. Blocks * PerBlock
  /\ console \in {"none", "look", "start", "save", "mark", "marked", "erase",
                 "zap"}
  /\ target \in 0 .. Blocks
  /\ newest \in Numbers
  /\ forgot \in BOOLEAN
  /\ layouts \subseteq Sizes

(* On a tracker the console is always on.                                  *)
IdleBoots == IF board.tracker THEN {TRUE} ELSE BOOLEAN

LogInit ==
  /\ StorageInit
  /\ ConfigInit
  /\ log = "scan"
  /\ ao_log_running = FALSE
  /\ ao_log_current_pos = 0 /\ ao_log_end_pos = 0
  /\ idle \in IdleBoots
  /\ console = "none" /\ target = 0
  /\ newest = 0 /\ forgot = FALSE /\ layouts = {}

(***************************************************************************)
(* The log task: ao_log_scan, in three steps that the console may come     *)
(* between, then the records of a flight.                                  *)
(***************************************************************************)
ScanFlights ==
  /\ log = "scan"
  /\ ao_flight_number' = ao_log_max_flight
  /\ log' = "marks"
  /\ UNCHANGED <<storageVars, configVars, consoleVars, ghostVars, idle,
                 ao_log_running, ao_log_current_pos, ao_log_end_pos>>

(* A mistake: the number of the last flight again.                         *)
ScanSameNumber ==
  /\ log = "marks"
  /\ ao_flight_number' = FromMarks(ao_flight_number)
  /\ log' = "place"
  /\ UNCHANGED <<storageVars, configVars, consoleVars, ghostVars, idle,
                 ao_log_running, ao_log_current_pos, ao_log_end_pos>>

ScanMarks ==
  /\ log = "marks"
  /\ ao_flight_number' =
       FromMarks(IF ao_flight_number = 0 THEN 0 ELSE ao_flight_number + 1)
  /\ log' = "place"
  /\ UNCHANGED <<storageVars, configVars, consoleVars, ghostVars, idle,
                 ao_log_running, ao_log_current_pos, ao_log_end_pos>>

(* The first free slot from the one of the flight number on, going round.  *)
Wanted == (ao_flight_number - 1) % (Blocks \div flight_log_max)
Round(slot) == (slot - Wanted) % (Blocks \div flight_log_max)

ScanPlace ==
  /\ log = "place"
  /\ \/ \E slot \in Free :
          /\ \A other \in Free : Round(slot) <= Round(other)
          /\ ao_log_current_pos' = ao_log_pos(slot)
          /\ ao_log_end_pos' = ao_log_pos_block_end(slot)
     \/ /\ Free = {}
        /\ ao_log_current_pos' = 0
        /\ ao_log_end_pos' = 0
  /\ log' = "wait"
  /\ UNCHANGED <<storageVars, configVars, ao_flight_number, consoleVars,
                 ghostVars, idle, ao_log_running>>

(* The flight task starts the log when the rocket leaves the pad.          *)
ao_log_start ==
  /\ log = "wait" /\ ~idle
  /\ ao_flight_number < MaxNumber
  /\ ao_log_running' = TRUE
  /\ log' = "flight"
  /\ UNCHANGED <<storageVars, configVars, ao_flight_number, consoleVars,
                 ghostVars, idle, ao_log_current_pos, ao_log_end_pos>>

(* A mistake: the log goes on beyond its end.                              *)
WriteOn(record) ==
  /\ ao_log_running
  /\ ao_log_current_pos < Blocks * PerBlock
  /\ ao_storage_write(ao_log_current_pos, record)
  /\ ao_log_current_pos' = ao_log_current_pos + 1
  /\ UNCHANGED <<ao_log_running, ao_log_end_pos>>

(* A log that has come to its end stops, so that it writes nothing over    *)
(* the next slot.                                                          *)
ao_log_write(record) ==
  /\ IF ao_log_running /\ ao_log_current_pos < ao_log_end_pos
     THEN /\ ao_storage_write(ao_log_current_pos, record)
          /\ ao_log_current_pos' = ao_log_current_pos + 1
          /\ ao_log_running' = ao_log_running
     ELSE /\ ao_log_running' = FALSE
          /\ UNCHANGED <<flash, ao_log_current_pos>>
  /\ UNCHANGED ao_log_end_pos

WriteFlight ==
  /\ log = "flight"
  /\ ao_log_write(Flight(ao_flight_number))
  /\ log' = "sensor"
  /\ newest' = IF flash' # flash THEN ao_flight_number ELSE newest
  /\ UNCHANGED <<board, erasing, configVars, ao_flight_number, consoleVars, idle,
                 forgot>>

WriteSensor ==
  /\ log = "sensor" /\ ao_log_running
  /\ ao_log_write(Sensor)
  /\ UNCHANGED <<board, erasing, configVars, ao_flight_number, consoleVars, idle,
                 log, newest, forgot>>

(* The log task sees that the rocket has landed.                           *)
Landed ==
  /\ log = "sensor" /\ ao_log_running
  /\ log' = "landed"
  /\ ao_log_running' = FALSE
  /\ UNCHANGED <<storageVars, configVars, ao_flight_number, consoleVars, idle,
                 ao_log_current_pos, ao_log_end_pos, newest, forgot>>

(***************************************************************************)
(* The console.                                                            *)
(***************************************************************************)
Prompt == idle /\ console = "none"
TooEarly == log \in {"scan", "marks"}

(* ao_log_delete: the first slot with the number given.                    *)
Delete ==
  /\ Prompt
  /\ \E slot \in Slots \ Free :
       /\ \A lower \in Slots : lower < slot =>
            ao_log_flight(lower) # ao_log_flight(slot)
       /\ target' = slot
  /\ console' = "mark"
  /\ forgot' = (forgot \/ TooEarly)
  /\ UNCHANGED <<storageVars, configVars, ao_flight_number, taskVars, newest>>

(* ao_log_erase: first the mark, which may take a whole save, then the     *)
(* blocks of the slot.                                                     *)
DeleteMark ==
  /\ console = "mark"
  /\ ao_log_erase_mark
  /\ console' = "marked"
  /\ UNCHANGED <<storageVars, taskVars, target, ghostVars>>

DeleteErase ==
  /\ console = "marked" /\ put = "done"
  /\ ao_storage_erase(target * flight_log_max, flight_log_max)
  /\ console' = "erase"
  /\ UNCHANGED <<board, flash, configVars, ao_flight_number, taskVars, target,
                 ghostVars>>

EraseStep ==
  /\ EraseBlock \/ EraseFails
  /\ UNCHANGED <<board, configVars, ao_flight_number, taskVars, consoleVars,
                 ghostVars>>

EraseDone ==
  /\ console \in {"erase", "zap"} /\ ~Erasing
  /\ console' = "none" /\ target' = 0
  /\ UNCHANGED <<storageVars, configVars, ao_flight_number, taskVars,
                 ghostVars>>

(* ao_storage_zapall: the whole memory, with no mark; numbers start again. *)
ZapAll ==
  /\ Prompt
  /\ ao_storage_erase(0, Blocks)
  /\ console' = "zap"
  /\ newest' = 0
  /\ UNCHANGED <<board, flash, configVars, ao_flight_number, taskVars, target,
                 forgot>>

(* ao_config_save: a save with nothing to save changes nothing, so that    *)
(* ao_config_dirty is left out.  The user may change some other setting    *)
(* before any save.                                                        *)
Save ==
  /\ Prompt
  /\ put' = "erase"
  /\ console' = "save"
  /\ forgot' = (forgot \/ TooEarly)
  /\ UNCHANGED <<storageVars, saved, marks, flight_log_max, ao_flight_number,
                 taskVars, target, newest>>

Saved ==
  /\ console = "save" /\ put = "done"
  /\ console' = "none"
  /\ UNCHANGED <<storageVars, saved, marks, flight_log_max, put,
                 ao_flight_number, taskVars, target, ghostVars>>

(* A tracker saves its configuration without a mark.                       *)
PutNext ==
  /\ PutStep
  /\ forgot' = (forgot \/ board.tracker)
  /\ UNCHANGED <<storageVars, taskVars, consoleVars, newest>>

(* ao_config_log_set: not while there is a flight.                         *)
SetLogSize ==
  /\ Prompt
  /\ ao_log_max_flight = 0
  /\ flight_log_max' \in Sizes \cap 1 .. Blocks
  /\ UNCHANGED <<storageVars, saved, marks, put, ao_flight_number,
                 taskVars, consoleVars, ghostVars>>

(* Power fails, in the middle of a write or an erase perhaps, and comes    *)
(* back.                                                                   *)
HalfWritten ==
  IF log \in {"flight", "sensor", "first", "data"} /\ ao_log_running
     /\ ao_log_current_pos < ao_log_end_pos
  THEN {[flash EXCEPT ![ao_log_current_pos] = Torn]}
  ELSE {}

PowerCycle ==
  /\ flash' \in {flash} \cup HalfWritten \cup IF Erasing THEN HalfErased ELSE {}
  /\ erasing' = NotErasing
  /\ ao_config_get
  /\ put' = "done"
  /\ ao_flight_number' = 0
  /\ log' = "scan"
  /\ ao_log_running' = FALSE
  /\ ao_log_current_pos' = 0 /\ ao_log_end_pos' = 0
  /\ idle' \in IdleBoots
  /\ console' = "none" /\ target' = 0
  /\ forgot' = (forgot \/ put \notin {"done", "erase"})
  /\ UNCHANGED <<board, saved, marks, newest>>

LogTaskStep ==
  \/ ScanFlights \/ ScanMarks \/ ScanPlace
  \/ ao_log_start \/ WriteFlight \/ WriteSensor \/ Landed

ConsoleStep ==
  \/ Delete \/ DeleteMark \/ DeleteErase \/ EraseStep \/ EraseDone
  \/ ZapAll \/ Save \/ Saved \/ PutNext \/ SetLogSize

NoteLayout ==
  layouts' = IF \A p \in Positions : flash'[p] = Erased THEN {}
             ELSE IF flash' # flash THEN layouts \cup {flight_log_max}
             ELSE layouts

LogNext ==
  /\ LogTaskStep \/ ConsoleStep \/ PowerCycle
  /\ NoteLayout

LogSpec == LogInit /\ [][LogNext]_logVars

(***************************************************************************)
(* What the logs promise.                                                  *)
(***************************************************************************)
(* The flash of a flight computer holds logs of slots of the size in use.  *)
OneLayout == ~board.tracker /\ layouts \subseteq {flight_log_max}

(* A slot that looks free can be written to its end: whatever a power      *)
(* failure left of a log or of its erasing, the slot is still listed.      *)
(* ao_storage_erase says that it works backwards for this.                 *)
PartialEraseListed ==
  OneLayout => \A slot \in Free : \A b \in BlocksOf(slot) :
    ao_storage_is_erased(b)

(* No two logs have the same flight number, as long as the slots are of    *)
(* the size in use: logs in the blocks that slots of another size leave    *)
(* over are not looked at for the number of the next flight.               *)
FlightsDistinct ==
  OneLayout => \A s, t \in Slots : ao_log_flight(s) > 0 /\ s # t =>
    ao_log_flight(s) # ao_log_flight(t)

(* As long as all that is in the flash was written in slots of the size in *)
(* use, a record, once written, is lost only to an erase that was asked    *)
(* for, of the slot it is in.  Without OneLayout it does not hold: after a *)
(* save that a power failure cut short the board has its default size, and *)
(* a slot of it whose first block is erased looks free, whatever smaller   *)
(* logs are behind it; the next flight is written over them.               *)
RecordsKept ==
  [][\A p \in Positions :
       IsRecord(flash[p]) /\ flash'[p] # flash[p] /\ OneLayout =>
         Erasing /\ p \in Block(erasing.at)]_logVars

(* The number of a new flight is above those of all flights before it,     *)
(* erased ones too, as long as no save was interrupted and no command was  *)
(* given before the logs were looked at.                                   *)
NumbersGrow ==
  [][newest' # newest /\ newest' # 0 /\ ~forgot =>
       newest' > newest]_logVars
=============================================================================
