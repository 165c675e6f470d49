------------------------------ MODULE AltosFlight ------------------------------
(***************************************************************************)
(* The flight task of an altimeter: kernel/ao_flight.c, for boards with an *)
(* accelerometer and a barometer (HAS_ACCEL and HAS_BARO).  One sample of  *)
(* the sensors, filtered by kernel/ao_kalman.c, is handled in each time    *)
(* unit.  The sensors are abstracted to the comparisons the task makes.    *)
(***************************************************************************)
EXTENDS Integers, Sequences

CONSTANTS
  BoostMax,     \* BOOST_TICKS_MAX
  Lockout,      \* ao_config.apogee_lockout, 0 for none
  IntervalTime, \* AO_INTERVAL_TICKS
  AvgTime,      \* the samples that surely pull an average over 20 m/s2: those
                \* over 22, as the integer average stops short by up to 2
  MaxMotors     \* bound on ao_motor_number, which stops there

ASSUME FlightAssumption ==
  /\ BoostMax \in Nat /\ Lockout \in Nat
  /\ IntervalTime \in Nat \ {0} /\ AvgTime \in Nat \ {0}
  /\ MaxMotors \in Nat \ {0}

VARIABLES
  ao_flight_state,
  boost_age,            \* ao_sample_tick - ao_boost_tick
  launch_age,           \* ao_sample_tick - ao_launch_tick, up to Lockout
  ao_motor_number,
  interval_left,        \* ao_interval_end - ao_sample_tick, not below 0
  interval_quiet,       \* the heights of the interval are within 4 m
  ao_coast_avg_accel,   \* how near it is to 20 m/s2, over which it is AvgTime
  due,                  \* a sample is waiting for the flight task
  rest,                 \* the samples in a row, up to IntervalTime, for which
                        \* the rocket has been in main and has not moved
  thrust                \* those, up to AvgTime, for which it has been in coast
                        \* and ao_accel over 20 m/s2

flightVars == <<ao_flight_state, boost_age, launch_age, ao_motor_number,
                interval_left, interval_quiet, ao_coast_avg_accel, due, rest,
                thrust>>
intervalVars == <<interval_left, interval_quiet>>

(* enum ao_flight_state, in its order.                                     *)
States == <<"startup", "idle", "pad", "boost", "fast", "coast", "drogue",
            "main", "landed", "invalid">>
Rank(s) == CHOOSE i \in DOMAIN States : States[i] = s
Reached(s) == Rank(ao_flight_state) >= Rank(s)
InFlight(s) == Reached(s) /\ ~Reached("landed")

UpTo(n, limit) == IF n < limit THEN n + 1 ELSE limit

(* What one sample says: ao_accel is under -2.5, over 20 (by enough: see   *)
(* AvgTime) or in between; ao_speed is under 0, over 5 or in between, or   *)
(* AO_MAX_BARO_SPEED and more; ao_height is over 20 m, is at               *)
(* ao_config.main_deploy or under it; ao_avg_height has left the bounds of *)
(* the interval.                                                           *)
Samples ==
  [accel : {"falling", "level", "boosting"},
   speed : {"down", "slow", "up", "fast"},
   above20 : BOOLEAN, under_main : BOOLEAN, moved : BOOLEAN]

FlightInit ==
  /\ ao_flight_state = "startup"
  /\ boost_age = 0 /\ launch_age = 0
  /\ ao_motor_number = 0
  /\ interval_left = 0 /\ interval_quiet = TRUE
  /\ ao_coast_avg_accel = 0
  /\ due = FALSE
  /\ rest = 0 /\ thrust = 0

-----------------------------------------------------------------------------
(* A board that stands upright is to fly, one that lies is idle, and one   *)
(* whose sensors or calibration make no sense is of no use.                *)
Startup ==
  /\ ao_flight_state = "startup"
  /\ ao_flight_state' \in {"pad", "idle", "invalid"}
  /\ UNCHANGED <<boost_age, launch_age, ao_motor_number, intervalVars,
                 ao_coast_avg_accel>>

Pad(d) ==
  /\ ao_flight_state = "pad"
  /\ IF d.above20 \/ (d.accel = "boosting" /\ d.speed \in {"up", "fast"})
       THEN /\ ao_flight_state' = "boost"
            /\ boost_age' = 0 /\ launch_age' = 0
       ELSE UNCHANGED <<ao_flight_state, boost_age, launch_age>>
  /\ UNCHANGED <<ao_motor_number, intervalVars, ao_coast_avg_accel>>

Boost(d) ==
  /\ ao_flight_state = "boost"
  /\ IF d.accel = "falling" \/ boost_age > BoostMax
       THEN /\ ao_flight_state' = "fast"
            /\ ao_coast_avg_accel' \in
                 IF d.accel = "boosting" THEN {AvgTime} ELSE 0 .. AvgTime - 1
            /\ ao_motor_number' = UpTo(ao_motor_number, MaxMotors)
       ELSE UNCHANGED <<ao_flight_state, ao_coast_avg_accel, ao_motor_number>>
  /\ UNCHANGED <<boost_age, launch_age, intervalVars>>

(* The average moves towards the sample, by a 32nd of the way.             *)
NextAverage(d) ==
  IF d.accel = "boosting" THEN UpTo(ao_coast_avg_accel, AvgTime) .. AvgTime
  ELSE IF ao_coast_avg_accel = AvgTime THEN 0 .. AvgTime ELSE 0 .. AvgTime - 1

(* check_re_boost.                                                         *)
CheckReBoost(d) ==
  /\ ao_coast_avg_accel' \in NextAverage(d)
  /\ IF ao_coast_avg_accel' = AvgTime
       THEN ao_flight_state' = "boost" /\ boost_age' = 0
       ELSE UNCHANGED <<ao_flight_state, boost_age>>
  /\ UNCHANGED <<launch_age, ao_motor_number, intervalVars>>

Fast(d) ==
  /\ ao_flight_state = "fast"
  /\ IF d.speed # "fast"
       THEN /\ ao_flight_state' = "coast"
            /\ UNCHANGED <<boost_age, launch_age, ao_motor_number,
                           intervalVars, ao_coast_avg_accel>>
       ELSE CheckReBoost(d)

(* A mistake: a descent is looked at before the lockout.                   *)
CoastApogeeFirst(d) ==
  /\ ao_flight_state = "coast"
  /\ IF d.speed = "down"
       THEN /\ ao_flight_state' = "drogue"
            /\ UNCHANGED <<boost_age, ao_coast_avg_accel>>
       ELSE UNCHANGED <<ao_flight_state, boost_age, ao_coast_avg_accel>>
  /\ UNCHANGED <<launch_age, ao_motor_number, intervalVars>>

(* While apogee is locked out nothing is looked at.                        *)
Coast(d) ==
  /\ ao_flight_state = "coast"
  /\ \/ /\ launch_age < Lockout
        /\ UNCHANGED <<ao_flight_state, boost_age, ao_coast_avg_accel>>
        /\ UNCHANGED <<launch_age, ao_motor_number, intervalVars>>
     \/ /\ launch_age >= Lockout /\ d.speed = "down"
        /\ ao_flight_state' = "drogue"
        /\ UNCHANGED <<boost_age, ao_coast_avg_accel>>
        /\ UNCHANGED <<launch_age, ao_motor_number, intervalVars>>
     \/ /\ launch_age >= Lockout /\ d.speed # "down"
        /\ CheckReBoost(d)

Drogue(d) ==
  /\ ao_flight_state = "drogue"
  /\ IF d.under_main
       THEN /\ ao_flight_state' = "main"
            /\ interval_left' = IntervalTime /\ interval_quiet' = TRUE
       ELSE UNCHANGED <<ao_flight_state, intervalVars>>
  /\ UNCHANGED <<boost_age, launch_age, ao_motor_number, ao_coast_avg_accel>>

(* A mistake: the bounds of the last interval are kept for the next.       *)
MainKeepBounds(d) ==
  /\ ao_flight_state = "main"
  /\ interval_quiet' = (interval_quiet /\ ~d.moved)
  /\ interval_left' = IF interval_left = 0 THEN IntervalTime ELSE interval_left
  /\ ao_flight_state' =
       IF interval_left = 0 /\ interval_quiet' THEN "landed" ELSE "main"
  /\ UNCHANGED <<boost_age, launch_age, ao_motor_number, ao_coast_avg_accel>>

(* A mistake: the bounds are looked at before the interval has ended.      *)
MainNoInterval(d) ==
  /\ ao_flight_state = "main"
  /\ ao_flight_state' = IF interval_quiet /\ ~d.moved THEN "landed" ELSE "main"
  /\ interval_left' = IntervalTime /\ interval_quiet' = TRUE
  /\ UNCHANGED <<boost_age, launch_age, ao_motor_number, ao_coast_avg_accel>>

Main(d) ==
  /\ ao_flight_state = "main"
  /\ LET quiet == interval_quiet /\ ~d.moved IN
       IF interval_left = 0
         THEN /\ ao_flight_state' = IF quiet THEN "landed" ELSE "main"
              /\ interval_left' = IntervalTime /\ interval_quiet' = TRUE
         ELSE /\ interval_quiet' = quiet
              /\ UNCHANGED <<ao_flight_state, interval_left>>
  /\ UNCHANGED <<boost_age, launch_age, ao_motor_number, ao_coast_avg_accel>>

Other ==
  /\ ao_flight_state \in {"idle", "landed", "invalid"}
  /\ UNCHANGED <<ao_flight_state, boost_age, launch_age, ao_motor_number,
                 intervalVars, ao_coast_avg_accel>>

(* What a state looks at of a sample; it handles all samples that differ in *)
(* the rest only in the same way, and they need not be told apart.         *)
Looked(d) ==
  /\ d.above20 => ao_flight_state = "pad"
  /\ d.under_main => ao_flight_state = "drogue"
  /\ d.moved => ao_flight_state = "main"
  /\ \/ d.accel = "falling" /\ d.speed = "down"
     \/ ao_flight_state \in {"pad", "boost", "fast", "coast"}

(* The flight task handles the sample that is due.                         *)
FlightSample ==
  /\ due /\ due' = FALSE
  /\ \E d \in Samples :
       /\ Looked(d)
       /\ \/ Startup \/ Pad(d) \/ Boost(d) \/ Fast(d) \/ Coast(d)
          \/ Drogue(d) \/ Main(d) \/ Other
       /\ rest' = IF ao_flight_state = "main" /\ ~d.moved
                    THEN UpTo(rest, IntervalTime) ELSE 0
       /\ thrust' = IF ao_flight_state = "coast" /\ d.accel = "boosting"
                      THEN UpTo(thrust, AvgTime) ELSE 0

(* Time passes, and brings the next sample.                                *)
FlightTick ==
  /\ ~due /\ due' = TRUE
  /\ boost_age' = IF ao_flight_state = "boost" THEN boost_age + 1 ELSE 0
  /\ launch_age' = IF InFlight("boost") THEN UpTo(launch_age, Lockout)
                                         ELSE launch_age
  /\ interval_left' = IF interval_left > 0 THEN interval_left - 1 ELSE 0
  /\ UNCHANGED <<ao_flight_state, ao_motor_number, interval_quiet,
                 ao_coast_avg_accel, rest, thrust>>

FlightNext == FlightSample \/ FlightTick
FlightSpec == FlightInit /\ [][FlightNext]_flightVars

-----------------------------------------------------------------------------
(* Each variable has the values the code can give it; no boost is longer   *)
(* than its limit and one sample.                                          *)
FlightTypeOK ==
  /\ ao_flight_state \in {States[i] : i \in DOMAIN States}
  /\ boost_age \in 0 .. BoostMax + 1
  /\ launch_age \in 0 .. Lockout
  /\ ao_motor_number \in 0 .. MaxMotors
  /\ interval_left \in 0 .. IntervalTime
  /\ ao_coast_avg_accel \in 0 .. AvgTime
  /\ interval_quiet \in BOOLEAN /\ due \in BOOLEAN
  /\ rest \in 0 .. IntervalTime
  /\ thrust \in 0 .. AvgTime

(* "Landing is detected by getting constant readings ... for a fairly long *)
(* time (AO_INTERVAL_TICKS)" (ao_flight.c): no flight lands that has not   *)
(* been at rest for the time of an interval.                               *)
LandedAtRest ==
  [][ao_flight_state' = "landed" /\ ao_flight_state # "landed"
       => rest' = IntervalTime]_flightVars

(* A rocket at rest under its main parachute does not stay in main: a      *)
(* movement within one interval puts the landing off, and no more.         *)
Lands == []<>(rest = 0)

(* "If the computer detects upwards acceleration again, it will move back  *)
(* to Boost state" (pyro-channels.inc): a rocket whose motor burns for so  *)
(* long that the average shows it is not left in coast.                    *)
ReBoostSeen == thrust = AvgTime => ao_flight_state # "coast"
=============================================================================
