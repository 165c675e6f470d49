------------------------------- MODULE AltosPyro -------------------------------
(***************************************************************************)
(* The pyro channels of an altimeter, kernel/ao_pyro.c, beside the flight  *)
(* task: each channel fires once, when all it requires of the flight       *)
(* holds.  The pyro task looks at them every 100 ms, but not while it      *)
(* fires.  What a channel requires of the sensors and of the time is       *)
(* abstracted to whether it holds at a sample.                             *)
(***************************************************************************)
EXTENDS AltosFlight

CONSTANTS
  Pyros,        \* the channels
  PyroConfigs,  \* the configurations tried of a channel: on, whether it
                \* requires anything; from and before, the states; motor;
                \* sensed, whether it requires something of the sensors or
                \* the time; delay, which is 0 if it has none
  PyroTime,     \* ao_config.pyro_time
  GapTime,      \* the 50 ms after a pulse
  Period        \* the 100 ms between two checks

ASSUME PyroAssumption ==
  /\ PyroConfigs \subseteq
       [on : BOOLEAN, sensed : BOOLEAN, motor : Nat, delay : Nat,
        from : {States[i] : i \in DOMAIN States},
        before : {States[i] : i \in DOMAIN States}]
  /\ PyroTime \in Nat \ {0} /\ GapTime \in Nat \ {0} /\ Period \in Nat \ {0}

VARIABLES
  pyro,                 \* ao_config.pyro
  sensed_ok,            \* the channels whose sensors and time are as required
  ao_pyro_fired,
  ao_pyro_inhibited,
  delaying,             \* the channels whose pyro_delay_done is set
  delay_left,           \* and what is left of their delays
  pyro_task,            \* where the pyro task is
  pyro_left,            \* what is left of its delay or of the 100 ms
  pyro_pins,            \* the channels whose pins the task has put on
  manual_pin,           \* the channel the command task is firing
  manual_task,          \* where it is
  doubted               \* the channels that a check has found not ready
                        \* while they were delaying

pyroState == <<sensed_ok, ao_pyro_fired, ao_pyro_inhibited, delaying,
               delay_left>>
pyroTask == <<pyro_task, pyro_left, pyro_pins>>
manualPyro == <<manual_pin, manual_task>>
pyroVars == <<flightVars, pyro, pyroState, pyroTask, manualPyro, doubted>>

PyroInit ==
  /\ FlightInit
  /\ pyro \in [Pyros -> PyroConfigs]
  /\ sensed_ok = {}
  /\ ao_pyro_fired = {} /\ ao_pyro_inhibited = {}
  /\ delaying = {} /\ delay_left = [p \in Pyros |-> 0]
  /\ pyro_task = "asleep" /\ pyro_left = 0 /\ pyro_pins = {}
  /\ manual_pin = {} /\ manual_task = "idle"
  /\ doubted = {}

-----------------------------------------------------------------------------
(* ao_pyro_ready: all the channel requires holds.                          *)
Ready(p) ==
  /\ pyro[p].sensed => p \in sensed_ok
  /\ ao_motor_number >= pyro[p].motor
  /\ Reached(pyro[p].from) /\ ~Reached(pyro[p].before)

(* The flight task; the pyro task waits for the boost asleep on the state. *)
PyroSampled ==
  /\ FlightSample
  /\ sensed_ok' \in SUBSET {p \in Pyros : pyro[p].sensed}
  /\ pyro_task' = IF pyro_task = "asleep" /\ ao_flight_state' # ao_flight_state
                    THEN "woken" ELSE pyro_task
  /\ UNCHANGED <<pyro, ao_pyro_fired, ao_pyro_inhibited, delaying, delay_left,
                 pyro_left, pyro_pins, manualPyro, doubted>>

(* A mistake: the state is not looked at again.                            *)
PyroWakesOnce ==
  /\ pyro_task = "woken"
  /\ pyro_task' = "period" /\ pyro_left' = Period
  /\ UNCHANGED <<pyroState, pyro_pins, doubted>>

PyroWakes ==
  /\ pyro_task = "woken"
  /\ IF Reached("boost") THEN pyro_task' = "period" /\ pyro_left' = Period
                         ELSE pyro_task' = "asleep" /\ UNCHANGED pyro_left
  /\ UNCHANGED <<pyroState, pyro_pins, doubted>>

(* ao_pyro_check.  The channels that still wait:                           *)
Waiting == {p \in Pyros \ (ao_pyro_fired \union ao_pyro_inhibited) : pyro[p].on}

DelayLeft(p) == IF p \in delaying THEN delay_left[p] ELSE pyro[p].delay

(* A mistake: what is required is looked at again only when the delay is   *)
(* over.                                                                   *)
InhibitedAtEnd == {p \in Waiting \cap delaying : ~Ready(p) /\ delay_left[p] = 0}

Inhibited == {p \in Waiting \cap delaying : ~Ready(p)}

Fires == {p \in Waiting : Ready(p) /\ DelayLeft(p) = 0}

(* A mistake: only a channel that is ready counts as waiting.              *)
AnyReady == \E p \in Waiting : Ready(p) \/ p \in delaying

AnyWaiting == Waiting # {}

PyroCheck ==
  /\ LET starts == {p \in Waiting \ delaying : Ready(p)} IN
       /\ delaying' = delaying \union starts
       /\ delay_left' = [p \in Pyros |-> IF p \in starts THEN pyro[p].delay
                                         ELSE delay_left[p]]
  /\ ao_pyro_inhibited' = ao_pyro_inhibited \union Inhibited
  /\ ao_pyro_fired' = ao_pyro_fired \union Fires
  /\ doubted' = doubted \union {p \in Waiting \cap delaying : ~Ready(p)}
  /\ pyro_pins' = Fires
  /\ IF Fires # {} THEN pyro_task' = "pulse" /\ pyro_left' = PyroTime
     ELSE IF AnyWaiting THEN pyro_task' = "period" /\ pyro_left' = Period
     ELSE pyro_task' = "exited" /\ UNCHANGED pyro_left
  /\ UNCHANGED sensed_ok

PyroEnds ==
  /\ pyro_task' = "exited"
  /\ UNCHANGED <<pyroState, pyro_left, pyro_pins, doubted>>

(* ao_pyro_pins_fire after its two delays.                                 *)
PulseOver ==
  /\ pyro_task' = "gap" /\ pyro_left' = GapTime /\ pyro_pins' = {}
  /\ UNCHANGED <<pyroState, doubted>>

GapOver ==
  /\ pyro_task' = "period" /\ pyro_left' = Period
  /\ UNCHANGED <<pyroState, pyro_pins, doubted>>

PyroDue(where) == pyro_task = where /\ pyro_left = 0

PyroTurn ==
  /\ \/ PyroWakes
     \/ PyroDue("period") /\ Reached("landed") /\ PyroEnds
     \/ PyroDue("period") /\ ~Reached("landed") /\ PyroCheck
     \/ PyroDue("pulse") /\ PulseOver
     \/ PyroDue("gap") /\ GapOver
  /\ UNCHANGED <<flightVars, pyro, manualPyro>>

(* "i DoIt" on the console, on the ground: ao_pyro_pins_fire by the        *)
(* command task, which neither looks at what has fired nor notes it.  Its  *)
(* pulse is only said to end.                                              *)
ManualPyro(p) ==
  /\ manual_task = "idle" /\ ao_flight_state \in {"startup", "idle", "invalid"}
  /\ manual_task' = "pulse" /\ manual_pin' = {p}
  /\ UNCHANGED <<flightVars, pyro, pyroState, pyroTask, doubted>>

ManualPyroEnds ==
  /\ manual_task = "pulse"
  /\ manual_task' = "idle" /\ manual_pin' = {}
  /\ UNCHANGED <<flightVars, pyro, pyroState, pyroTask, doubted>>

PyroCountDown(n) == IF n > 0 THEN n - 1 ELSE 0

(* Time passes when no task can run.                                       *)
PyroTick ==
  /\ FlightTick
  /\ pyro_task # "woken" /\ ~\E w \in {"period", "pulse", "gap"} : PyroDue(w)
  /\ pyro_left' = PyroCountDown(pyro_left)
  /\ delay_left' = [p \in Pyros |-> PyroCountDown(delay_left[p])]
  /\ UNCHANGED <<pyro, sensed_ok, ao_pyro_fired, ao_pyro_inhibited, delaying,
                 pyro_task, pyro_pins, manualPyro, doubted>>

PyroNext ==
  \/ PyroSampled \/ PyroTurn
  \/ \E p \in Pyros : ManualPyro(p)
  \/ ManualPyroEnds
  \/ PyroTick

(* The tasks that can run do, and time passes.                             *)
PyroSpec ==
  /\ PyroInit /\ [][PyroNext]_pyroVars
  /\ WF_pyroVars(PyroSampled) /\ WF_pyroVars(PyroTurn) /\ WF_pyroVars(PyroTick)

-----------------------------------------------------------------------------
(* Each variable has the values the code can give it; the task holds pins  *)
(* of channels it has marked as fired, for a pulse.                        *)
PyroTypeOK ==
  /\ pyro \in [Pyros -> PyroConfigs]
  /\ sensed_ok \subseteq Pyros
  /\ delaying \subseteq Pyros
  /\ delay_left \in [Pyros -> Nat]
  /\ pyro_task \in {"asleep", "woken", "period", "pulse", "gap", "exited"}
  /\ pyro_left \in Nat
  /\ pyro_pins \subseteq ao_pyro_fired
  /\ (pyro_pins # {}) <=> (pyro_task = "pulse")
  /\ manual_pin \subseteq Pyros /\ manual_task \in {"idle", "pulse"}
  /\ doubted \subseteq delaying

(* "While the timer is running, the other parameters are checked           *)
(* repeatedly and if any of them become false, then the pyro channel is    *)
(* disabled and will not fire" (pyro-channels.inc): a channel that was not *)
(* ready at a check during its delay never fires, however often it is      *)
(* ready again.                                                            *)
PyroHeld == doubted \cap ao_pyro_fired = {}

(* The pins go on in flight only, between the boost and the landing.       *)
PyrosInFlight ==
  [][~(pyro_pins' \subseteq pyro_pins) => InFlight("boost")]_pyroVars

(* A channel whose requirements hold for good in flight fires, unless an   *)
(* earlier doubt inhibits it: the task does not end before, and no pulse   *)
(* of another channel keeps it from firing.                                *)
PyroFires ==
  \A p \in Pyros :
    <>[](pyro[p].on /\ Ready(p) /\ InFlight("boost"))
      => <>(p \in ao_pyro_fired \union ao_pyro_inhibited)
=============================================================================
