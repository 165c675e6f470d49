------------------------------ MODULE AltosTracker ------------------------------
(***************************************************************************)
(* The log of a tracker: kernel/ao_tracker.c, kernel/ao_log_gps.c and the  *)
(* part of kernel/ao_log.c for FLIGHT_LOG_APPEND.  There is one log, which *)
(* a boot goes on with where the last one ended.  The tracker logs its     *)
(* position when it moves; its console is always on, so that a log can be  *)
(* listed or deleted while it grows.  A behaviour is that of one board, a  *)
(* tracker or not.                                                         *)
(***************************************************************************)
EXTENDS AltosLog

VARIABLES
  log_started,      \* the log has its first record
  tracker_mutex,    \* who holds it
  erasing_current,
  beheaded          \* ghost: the first record of the log may be lost: to a
                    \* power failure, a stopped log, a command that reads it
                    \* or that comes before the end of ao_log_scan, an erase
                    \* that the tracker is not told of

trackerVars == <<log_started, tracker_mutex, erasing_current, beheaded>>
allVars == <<logVars, trackerVars>>

TrackerTypeOK ==
  /\ LogTypeOK
  /\ log_started \in BOOLEAN /\ erasing_current \in BOOLEAN
  /\ beheaded \in BOOLEAN
  /\ tracker_mutex \in {"free", "tracker", "console"}

TrackerInit ==
  /\ log_started = FALSE
  /\ tracker_mutex = "free"
  /\ erasing_current = FALSE
  /\ beheaded = FALSE

(***************************************************************************)
(* ao_log_scan with FLIGHT_LOG_APPEND.                                     *)
(***************************************************************************)
LastPos == Blocks * PerBlock - 1

(* A mistake: the end of the log is its last record.                       *)
FindLast(written) ==
  CHOOSE p \in Positions :
    /\ p \in written \cup {0}
    /\ \A q \in written : q <= p

(* The bisection for the end of the log, between a position that is        *)
(* written and one that may not be: turns[n] is what is left after n turns *)
(* of the loop, which ends when current is full.                           *)
Halved(interval, written) ==
  LET current == (interval.full + interval.empty) \div 2
  IN IF current \in written THEN [interval EXCEPT !.full = current]
     ELSE [interval EXCEPT !.empty = current]

FindEnd(written) ==
  LET turns[n \in 0 .. LastPos] ==
        IF n = 0 THEN [full |-> 0, empty |-> LastPos]
        ELSE Halved(turns[n - 1], written)
      full == turns[LastPos].full
  IN IF full \in written THEN full + 1 ELSE full

Written == {p \in Positions : flash[p] # Erased}

(* What follows the look for a flight number: the end of its log, or a     *)
(* number for the first one.                                               *)
ScanAppend(number) ==
  /\ IF number # 0
     THEN /\ ao_flight_number' = number
          /\ ao_log_current_pos' = FindEnd(Written)
     ELSE /\ ao_flight_number' = FromMarks(0)
          /\ ao_log_current_pos' = ao_log_pos(0)
  /\ ao_log_end_pos' = ao_log_pos_block_end(0)
  /\ log_started' = (number # 0)

(***************************************************************************)
(* The tracker.                                                            *)
(***************************************************************************)
TrackerScan ==
  /\ log = "marks"
  /\ ScanAppend(ao_flight_number)
  /\ log' = "loop"
  /\ UNCHANGED <<storageVars, configVars, consoleVars, ghostVars, idle,
                 ao_log_running, tracker_mutex, erasing_current, beheaded>>

(* A new position: the log runs unless a cable is connected, and the       *)
(* position is logged if the tracker has moved.                            *)
TrackerLoop ==
  /\ log = "loop"
  /\ \E running, moving \in BOOLEAN :
       /\ ao_log_running' = running
       /\ log' = IF running /\ moving THEN "lock" ELSE "loop"
  /\ UNCHANGED <<storageVars, configVars, ao_flight_number, consoleVars,
                 ghostVars, idle, ao_log_current_pos, ao_log_end_pos,
                 trackerVars>>

TrackerLock ==
  /\ log = "lock" /\ tracker_mutex = "free"
  /\ ao_flight_number < MaxNumber
  /\ tracker_mutex' = "tracker"
  /\ log' = IF log_started THEN "data" ELSE "first"
  /\ UNCHANGED <<storageVars, configVars, ao_flight_number, consoleVars,
                 ghostVars, idle, ao_log_running, ao_log_current_pos,
                 ao_log_end_pos, log_started, erasing_current, beheaded>>

(* ao_log_data is also where a command reads the first record of the log,  *)
(* which may come between the making of a record and its writing.          *)
ao_log_data(record) ==
  {record} \cup IF console = "look" THEN {flash[0]} ELSE {}

TrackerFirst ==
  /\ log = "first"
  /\ \E record \in ao_log_data(Flight(ao_flight_number)) : ao_log_write(record)
  /\ log_started' = TRUE
  /\ log' = "data"
  /\ LET headed == flash'[0] = Flight(ao_flight_number) IN
       /\ beheaded' = (beheaded \/ ~headed)
       /\ newest' = IF headed THEN ao_flight_number ELSE newest
  /\ UNCHANGED <<board, erasing, configVars, ao_flight_number, consoleVars, idle,
                 forgot, tracker_mutex, erasing_current>>

TrackerData ==
  /\ log = "data"
  /\ \E record \in ao_log_data(Sensor) : ao_log_write(record)
  /\ tracker_mutex' = "free"
  /\ log' = "loop"
  /\ UNCHANGED <<board, erasing, configVars, ao_flight_number, consoleVars, idle,
                 ghostVars, log_started, erasing_current, beheaded>>

(***************************************************************************)
(* The console.                                                            *)
(***************************************************************************)
(* ao_log_list, or the search of ao_log_delete.                            *)
Look ==
  /\ Prompt
  /\ console' = "look"
  /\ forgot' = (forgot \/ TooEarly)
  /\ beheaded' = (beheaded \/ TooEarly)
  /\ UNCHANGED <<storageVars, configVars, ao_flight_number, taskVars, target,
                 newest, log_started, tracker_mutex, erasing_current>>

Looked ==
  /\ console = "look"
  /\ console' = "none"
  /\ UNCHANGED <<storageVars, configVars, ao_flight_number, taskVars, target,
                 ghostVars, trackerVars>>

(* The flight to delete is found; ao_tracker_erase_start sees whether it   *)
(* is the one that the tracker logs, and then waits for the tracker.       *)
LookDelete ==
  /\ console = "look"
  /\ ao_log_flight(0) # 0
  /\ erasing_current' = (ao_log_flight(0) = ao_flight_number)
  /\ console' = IF erasing_current' THEN "start" ELSE "mark"
  /\ beheaded' = (beheaded \/ ~erasing_current')
  /\ UNCHANGED <<storageVars, configVars, ao_flight_number, taskVars, target,
                 ghostVars, log_started, tracker_mutex>>

(* A mistake: the console does not wait for the tracker.                   *)
EraseStartUnlocked ==
  /\ console = "start"
  /\ ao_flight_number < MaxNumber
  /\ tracker_mutex' = "console"
  /\ ao_log_running' = FALSE
  /\ ao_flight_number' = ao_flight_number + 1
  /\ console' = "mark"
  /\ UNCHANGED <<storageVars, configVars, log, idle, ao_log_current_pos,
                 ao_log_end_pos, target, ghostVars, log_started,
                 erasing_current, beheaded>>

ao_tracker_erase_start ==
  /\ console = "start" /\ tracker_mutex = "free"
  /\ ao_flight_number < MaxNumber
  /\ tracker_mutex' = "console"
  /\ ao_log_running' = FALSE
  /\ ao_flight_number' = ao_flight_number + 1
  /\ console' = "mark"
  /\ UNCHANGED <<storageVars, configVars, log, idle, ao_log_current_pos,
                 ao_log_end_pos, target, ghostVars, log_started,
                 erasing_current, beheaded>>

ao_tracker_erase_end ==
  /\ console = "erase" /\ ~Erasing
  /\ erasing_current
  /\ ScanAppend(ao_log_max_flight)
  /\ tracker_mutex' = "free"
  /\ console' = "none"
  /\ UNCHANGED <<storageVars, configVars, log, ao_log_running, idle, target,
                 ghostVars, erasing_current, beheaded>>

(* The tracker is not told that its log is erased with all the rest.       *)
TrackerZapAll ==
  /\ ZapAll
  /\ beheaded' = TRUE
  /\ UNCHANGED <<log_started, tracker_mutex, erasing_current>>

TrackerPowerCycle ==
  /\ PowerCycle
  /\ log_started' = FALSE /\ erasing_current' = FALSE
  /\ tracker_mutex' = "free"
  /\ beheaded' = \/ beheaded /\ \E p \in Positions : flash'[p] # Erased
                 \/ log = "first" /\ flash' # flash

TrackerTaskStep ==
  \/ ScanFlights /\ UNCHANGED trackerVars
  \/ TrackerScan \/ TrackerLoop \/ TrackerLock \/ TrackerFirst \/ TrackerData

TrackerConsoleStep ==
  \/ Look \/ Looked \/ LookDelete
  \/ ao_tracker_erase_start \/ ao_tracker_erase_end
  \/ TrackerZapAll
  \/ /\ \/ DeleteMark \/ DeleteErase \/ EraseStep
        \/ Save \/ Saved \/ PutNext
        \/ EraseDone /\ ~(console = "erase" /\ erasing_current)
     /\ UNCHANGED trackerVars

TrackerNext ==
  /\ TrackerTaskStep \/ TrackerConsoleStep \/ TrackerPowerCycle
  /\ NoteLayout

Next ==
  \/ ~board.tracker /\ LogNext /\ UNCHANGED trackerVars
  \/ board.tracker /\ TrackerNext

Init == LogInit /\ TrackerInit

Spec == Init /\ [][Next]_allVars

(***************************************************************************)
(* What the log of a tracker promises.                                     *)
(***************************************************************************)
(* A log starts with its FLIGHT record: "We record flight numbers in the   *)
(* first record of the log" (kernel/ao_log.h:28), until that record may be *)
(* lost (beheaded).                                                        *)
FlightFirst ==
  board.tracker /\ ~beheaded =>
    \/ flash[0].type = "flight"
    \/ \A p \in Positions : ~IsRecord(flash[p])

(* Existing data of a tracker is lost only to an erase: "TeleGPS will not  *)
(* overwrite existing flight data" (doc/telegps-using.inc:49), until the   *)
(* first record may be lost (beheaded), and but for the last position: a   *)
(* boot takes a full log to have one place left and writes over it.        *)
TrackKept ==
  [][\A p \in Positions \ {LastPos} :
       board.tracker /\ ~beheaded /\ IsRecord(flash[p])
         /\ flash'[p] # flash[p] =>
       Erasing /\ p \in Block(erasing.at)]_allVars
=============================================================================
