------------------------------ MODULE AltosIgnite ------------------------------
(***************************************************************************)
(* The igniter task of an altimeter, kernel/ao_ignite.c, beside the flight *)
(* task: it fires the two ejection charges as the flight reaches its       *)
(* states.  Tasks are not preempted, so nothing else runs between two      *)
(* sleeps of the igniter, and a change of state while it is not asleep on  *)
(* the state does not wake it.                                             *)
(***************************************************************************)
EXTENDS AltosFlight

CONSTANTS
  FireTime,     \* AO_IGNITER_FIRE_TIME
  ChargeTime,   \* AO_IGNITER_CHARGE_TIME
  Delays        \* the values of ao_config.apogee_delay tried

ASSUME IgniteAssumption ==
  FireTime \in Nat \ {0} /\ ChargeTime \in Nat \ {0} /\ Delays \subseteq Nat

VARIABLES
  ignite_mode, apogee_delay,    \* of ao_config
  igniter,      \* where the igniter task is
  wait_left,    \* what is left of its ao_delay
  tests,        \* the tests of the state it has still to make
  charges,      \* the charges of the present test it has still to fire
  fired,        \* the charges whose fired is set
  pins,         \* the charges whose pin is on
  manual,       \* the charges the command task is firing
  manual_left,  \* what is left of its ao_delay
  apogee_age    \* the time since the pulse of the apogee charge ended, up to
                \* ChargeTime, which it is also before the pulse

configVars == <<ignite_mode, apogee_delay>>
taskVars == <<igniter, wait_left, tests, charges>>
manualVars == <<manual, manual_left>>
igniteVars == <<flightVars, configVars, taskVars, fired, pins, manualVars,
                apogee_age>>

Charges == {"drogue", "main"}
Modes == {"DUAL", "APOGEE", "MAIN", "BOOSTER"}

(* What each mode tests: from which state on it fires which charges.       *)
Test(s, c) == [from |-> s, fire |-> c]

(* A mistake: the later test first.                                        *)
PlanBackward(mode) ==
  IF mode = "DUAL"
    THEN <<Test("main", <<"main">>), Test("drogue", <<"drogue">>)>>
    ELSE <<Test("main", <<"drogue", "main">>)>>

Plan(mode) ==
  CASE mode = "DUAL" ->
         <<Test("drogue", <<"drogue">>), Test("main", <<"main">>)>>
    [] mode = "APOGEE" -> <<Test("drogue", <<"drogue", "main">>)>>
    [] mode = "MAIN" -> <<Test("main", <<"drogue", "main">>)>>
    [] mode = "BOOSTER" ->
         <<Test("fast", <<"main">>), Test("drogue", <<"drogue">>)>>

IgniteInit ==
  /\ FlightInit
  /\ ignite_mode \in Modes /\ apogee_delay \in Delays
  /\ igniter = "asleep" /\ wait_left = 0
  /\ tests = <<>> /\ charges = <<>>
  /\ fired = {} /\ pins = {}
  /\ manual = {} /\ manual_left = 0
  /\ apogee_age = ChargeTime

-----------------------------------------------------------------------------
(* The igniter can run, or its delay has just ended.                       *)
DelayOver == igniter \in {"delay", "fire", "charge"} /\ wait_left = 0
Running == igniter = "running" \/ DelayOver

(* The flight task, which wakes the igniter if it sleeps on the state.     *)
Sampled ==
  /\ FlightSample
  /\ igniter # "running"
  /\ IF igniter = "asleep" /\ ao_flight_state' # ao_flight_state
       THEN igniter' = "woken" /\ tests' = Plan(ignite_mode)
       ELSE UNCHANGED <<igniter, tests>>
  /\ UNCHANGED <<configVars, wait_left, charges, fired, pins, manualVars,
                 apogee_age>>

IgniterWakes ==
  /\ igniter = "woken" /\ igniter' = "running"
  /\ UNCHANGED <<wait_left, tests, charges, fired, pins, apogee_age>>

(* A mistake: the end of the flight is not looked at.                      *)
IgniterTestsReached ==
  /\ igniter = "running" /\ charges = <<>> /\ tests # <<>>
  /\ charges' = IF Reached(Head(tests).from) THEN Head(tests).fire ELSE <<>>
  /\ tests' = Tail(tests)
  /\ UNCHANGED <<igniter, wait_left, fired, pins, apogee_age>>

IgniterTests ==
  /\ igniter = "running" /\ charges = <<>> /\ tests # <<>>
  /\ charges' = IF InFlight(Head(tests).from) THEN Head(tests).fire ELSE <<>>
  /\ tests' = Tail(tests)
  /\ UNCHANGED <<igniter, wait_left, fired, pins, apogee_age>>

IgniterSleeps ==
  /\ igniter = "running" /\ charges = <<>> /\ tests = <<>>
  /\ igniter' = "asleep"
  /\ UNCHANGED <<wait_left, tests, charges, fired, pins, apogee_age>>

(* ao_igniter_fire, up to its first delay.                                 *)
IgniterFires ==
  /\ igniter = "running" /\ charges # <<>>
  /\ LET c == Head(charges) IN
       \/ /\ c \in fired
          /\ charges' = Tail(charges)
          /\ UNCHANGED <<igniter, wait_left, fired, pins>>
       \/ /\ c \notin fired /\ fired' = fired \union {c}
          /\ c = "drogue" /\ apogee_delay > 0 /\ ignite_mode # "MAIN"
          /\ igniter' = "delay" /\ wait_left' = apogee_delay
          /\ UNCHANGED <<pins, charges>>
       \/ /\ c \notin fired /\ fired' = fired \union {c}
          /\ c = "main" \/ apogee_delay = 0 \/ ignite_mode = "MAIN"
          /\ pins' = pins \union {c}
          /\ igniter' = "fire" /\ wait_left' = FireTime
          /\ UNCHANGED charges
  /\ UNCHANGED <<tests, apogee_age>>

ApogeeDelayEnds ==
  /\ igniter = "delay" /\ wait_left = 0
  /\ pins' = pins \union {Head(charges)}
  /\ igniter' = "fire" /\ wait_left' = FireTime
  /\ UNCHANGED <<tests, charges, fired, apogee_age>>

(* A mistake: the igniter goes on as the pulse ends.                       *)
PulseEndsAtOnce ==
  /\ igniter = "fire" /\ wait_left = 0
  /\ pins' = pins \ {Head(charges)}
  /\ igniter' = "charge"
  /\ apogee_age' = IF Head(charges) = "drogue" THEN 0 ELSE apogee_age
  /\ UNCHANGED <<wait_left, tests, charges, fired>>

PulseEnds ==
  /\ igniter = "fire" /\ wait_left = 0
  /\ pins' = pins \ {Head(charges)}
  /\ igniter' = "charge" /\ wait_left' = ChargeTime
  /\ apogee_age' = IF Head(charges) = "drogue" THEN 0 ELSE apogee_age
  /\ UNCHANGED <<tests, charges, fired>>

ChargeEnds ==
  /\ igniter = "charge" /\ wait_left = 0
  /\ igniter' = "running" /\ charges' = Tail(charges)
  /\ UNCHANGED <<wait_left, tests, fired, pins, apogee_age>>

(* Nothing else runs while the igniter does.                               *)
Igniter ==
  /\ \/ IgniterWakes \/ IgniterTests \/ IgniterSleeps \/ IgniterFires
     \/ (ApogeeDelayEnds \/ PulseEnds \/ ChargeEnds)
  /\ UNCHANGED <<flightVars, configVars, manualVars>>

(* "i DoIt" on the console, which is there only on the ground: the command *)
(* task fires a charge, also one that has been fired.                      *)
ManualFire(c) ==
  /\ ao_flight_state \in {"startup", "idle", "invalid"}
  /\ igniter # "running" /\ manual = {}
  /\ fired' = fired \union {c} /\ pins' = pins \union {c}
  /\ manual' = {c} /\ manual_left' = FireTime
  /\ UNCHANGED <<flightVars, configVars, taskVars, apogee_age>>

ManualOver == manual # {} /\ manual_left = 0

ManualEnds ==
  /\ ManualOver /\ igniter # "running"
  /\ pins' = pins \ manual /\ manual' = {}
  /\ UNCHANGED <<flightVars, configVars, taskVars, fired, manual_left,
                 apogee_age>>

CountDown(n) == IF n > 0 THEN n - 1 ELSE 0

(* Time passes when no task can run: their delays are long beside a turn.  *)
IgniteTick ==
  /\ FlightTick
  /\ igniter # "woken" /\ ~Running /\ ~ManualOver
  /\ wait_left' = CountDown(wait_left)
  /\ manual_left' = CountDown(manual_left)
  /\ apogee_age' = UpTo(apogee_age, ChargeTime)
  /\ UNCHANGED <<configVars, igniter, tests, charges, fired, pins, manual>>

IgniteNext ==
  \/ Sampled \/ Igniter
  \/ \E c \in Charges : ManualFire(c)
  \/ ManualEnds
  \/ IgniteTick

(* The tasks that can run do, and time passes.                             *)
IgniteSpec ==
  /\ IgniteInit /\ [][IgniteNext]_igniteVars
  /\ WF_igniteVars(Sampled) /\ WF_igniteVars(Igniter)
  /\ WF_igniteVars(ManualEnds) /\ WF_igniteVars(IgniteTick)

-----------------------------------------------------------------------------
(* Each variable has the values the code can give it, and only the two     *)
(* tasks that fire charges hold a pin.                                     *)
IgniteTypeOK ==
  /\ FlightTypeOK
  /\ ignite_mode \in Modes /\ apogee_delay \in Delays
  /\ igniter \in {"asleep", "woken", "running", "delay", "fire", "charge"}
  /\ wait_left \in Nat /\ manual_left \in 0 .. FireTime
  /\ tests \in Seq([from : {"fast", "drogue", "main"},
                    fire : {<<"drogue">>, <<"main">>, <<"drogue", "main">>}])
  /\ charges \in Seq(Charges)
  /\ igniter \in {"delay", "fire", "charge"} => charges # <<>>
  /\ fired \subseteq Charges
  /\ manual \subseteq Charges
  /\ pins = manual \union IF igniter = "fire" THEN {Head(charges)} ELSE {}
  /\ apogee_age \in 0 .. ChargeTime

(* The igniter fires in flight only, and, when its delays are shorter than *)
(* the detection of the landing, has let go of the pins when the rocket    *)
(* has landed, where people come near it.                                  *)
NoPulseOnGround ==
  pins # manual =>
    \/ InFlight("boost")
    \/ /\ ao_flight_state = "landed"
       /\ apogee_delay + 2 * FireTime + ChargeTime >= IntervalTime

(* "Apogee lockout is the number of seconds after launch where the flight  *)
(* computer will not fire the apogee charge" (config-device.inc).          *)
LockedOut ==
  launch_age < Lockout => "drogue" \notin pins \ manual

(* "If the apogee charge fires below this altitude, then the main charge   *)
(* will fire two seconds after the apogee charge fires"                    *)
(* (config-device.inc): the battery has that time to recover.              *)
ChargesApart ==
  [][\A c \in (pins' \ pins) \ manual' : c = "main" =>
       "drogue" \notin pins /\ apogee_age = ChargeTime]_igniteVars

(* The state from which on a mode fires a charge.                          *)
DueState(mode, c) ==
  IF mode = "APOGEE" \/ (mode # "MAIN" /\ c = "drogue") THEN "drogue"
  ELSE IF mode = "BOOSTER" THEN "fast" ELSE "main"

(* No wake-up that is missed during a pulse or a delay costs a charge:     *)
(* each charge whose state has come is fired, or the rocket lands.         *)
ChargesFire ==
  \A c \in Charges :
    (InFlight(DueState(ignite_mode, c)) /\ c \notin fired)
      ~> (c \in pins \/ ao_flight_state = "landed")
=============================================================================
