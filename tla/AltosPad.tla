------------------------------- MODULE AltosPad -------------------------------
(***************************************************************************)
(* A TeleFire launch pad box: drivers/ao_pad.c.  Three tasks share its     *)
(* state: the listener (ao_pad) takes commands from the radio, the monitor *)
(* (ao_pad_monitor) watches the arming switch and ends the arming, the     *)
(* igniter (ao_pad_run) drives the output pins.                            *)
(*                                                                         *)
(* Two differences of clocks stand for the clocks: the age of              *)
(* ao_pad_arm_time, and how far the box's clock is behind that of the      *)
(* sender of a command.  A time unit is long compared with a task's turn   *)
(* and with a packet, and no longer than AO_PAD_FIRE_TIME.                 *)
(***************************************************************************)
EXTENDS AltosPadCommand

CONSTANTS
  Bits,         \* the bits of a channel mask
  ShortMod,     \* 2^16, the range of a tick in a command
  TickSlack,    \* the largest tick difference ARM may have (10)
  ArmTime,      \* AO_PAD_ARM_TIME
  FireLimit,    \* the 20 seconds FIRE checks
  FireTime,     \* AO_PAD_FIRE_TIME
  TwoPorts,     \* AO_PAD_PORT_1 is defined
  Skews         \* the clock differences boxes start with

ASSUME PadAssumption ==
  /\ Channels \subseteq Bits
  /\ ShortMod \in Nat /\ ShortMod > 1
  /\ TickSlack \in Nat
  /\ ArmTime \in Nat /\ FireLimit \in Nat /\ ArmTime < FireLimit
  /\ FireTime \in Nat \ {0}
  /\ TwoPorts \in BOOLEAN
  /\ Skews \subseteq 0 .. ShortMod-1

VARIABLES
  ao_pad_armed,     \* the armed channels of each box
  arm_age,          \* while armed, the time since ao_pad_arm_time, up to
                    \* FireLimit + 1
  ao_pad_ignite,    \* the channels the igniter has been told to fire
  ao_pad_disabled,
  arm_status,       \* query.arm_status: the switch as the monitor saw it
  arm_switch,       \* the arming switch of the box
  sampled,          \* the monitor has had a sample in this time unit
  igniting,         \* the igniter is between switching on and off
  pins0,            \* the outputs it switched on
  pulse,            \* what is left of its ao_delay
  pins,             \* the output pins that are on
  ao_log_running,
  skew              \* the sender's clock minus the box's

padVars == <<ao_pad_armed, arm_age, ao_pad_ignite, ao_pad_disabled,
             arm_status, arm_switch, sampled, igniting, pins0, pulse, pins,
             ao_log_running, skew>>
listenerVars == <<ao_pad_armed, arm_age, ao_pad_ignite, ao_log_running>>
monitorVars == <<arm_status, sampled>>
igniterVars == <<igniting, pins0, pulse, pins>>

-----------------------------------------------------------------------------
PadInit ==
  /\ ao_pad_armed = [b \in Boxes |-> {}]
  /\ arm_age = [b \in Boxes |-> 0]
  /\ ao_pad_ignite = [b \in Boxes |-> {}]
  /\ ao_pad_disabled = [b \in Boxes |-> FALSE]
  /\ arm_status = [b \in Boxes |-> FALSE]
  /\ arm_switch \in [Boxes -> BOOLEAN]
  /\ sampled = [b \in Boxes |-> FALSE]
  /\ igniting = [b \in Boxes |-> FALSE]
  /\ pins0 = [b \in Boxes |-> {}]
  /\ pulse = [b \in Boxes |-> 0]
  /\ pins = [b \in Boxes |-> {}]
  /\ ao_log_running = [b \in Boxes |-> FALSE]
  /\ skew \in [Boxes -> Skews]

(* A difference of ticks as the int16_t the code keeps it in, and the      *)
(* negation of a negative one, kept in an int16_t again.                   *)
Short(x) == LET r == x % ShortMod IN IF 2 * r >= ShortMod THEN r - ShortMod ELSE r
TickDifference(x) == IF Short(x) < 0 THEN Short(-Short(x)) ELSE Short(x)

(* An ARM command: m.offset is the sender's idea of the skew.              *)
Arm(b, m) ==
  /\ m.cmd = "ARM"
  /\ m.box = b
  /\ m.channels \subseteq Channels
  /\ TickDifference(skew[b] - m.offset) <= TickSlack
  /\ arm_status[b]
  /\ ao_pad_armed' = [ao_pad_armed EXCEPT ![b] = m.channels]
  /\ arm_age' = [arm_age EXCEPT ![b] = 0]
  /\ UNCHANGED <<ao_pad_ignite, ao_log_running>>

(* A mistake: all channels are fired, whichever are armed.                 *)
IgniteAll(b) ==
  /\ arm_age[b] <= FireLimit
  /\ ao_pad_ignite' = [ao_pad_ignite EXCEPT ![b] = Channels]
  /\ arm_age' = [arm_age EXCEPT ![b] = 0]
  /\ UNCHANGED ao_pad_armed

(* A FIRE or STATIC command, which names no box: every armed box that      *)
(* hears it fires, and the arming starts again.                            *)
Ignite(b) ==
  /\ arm_age[b] <= FireLimit
  /\ ao_pad_ignite' = [ao_pad_ignite EXCEPT ![b] = ao_pad_armed[b]]
  /\ arm_age' = [arm_age EXCEPT ![b] = 0]
  /\ UNCHANGED ao_pad_armed

Fire(b, m) ==
  /\ m.cmd = "FIRE"
  /\ ao_pad_armed[b] # {}
  /\ Ignite(b)
  /\ UNCHANGED ao_log_running

(* The log is started even when the arming is too old to fire.             *)
Static(b, m) ==
  /\ m.cmd = "STATIC"
  /\ ao_pad_armed[b] # {}
  /\ ao_log_running' = [ao_log_running EXCEPT ![b] = TRUE]
  /\ \/ Ignite(b)
     \/ /\ arm_age[b] > FireLimit
        /\ UNCHANGED <<ao_pad_armed, arm_age, ao_pad_ignite>>

EndStatic(b, m) ==
  /\ m.cmd = "ENDSTATIC"
  /\ ao_log_running' = [ao_log_running EXCEPT ![b] = FALSE]
  /\ UNCHANGED <<ao_pad_armed, arm_age, ao_pad_ignite>>

(* The listener handles a command; one it refuses changes nothing.         *)
Receive(b, m) ==
  /\ ~ao_pad_disabled[b]
  /\ Arm(b, m) \/ Fire(b, m) \/ Static(b, m) \/ EndStatic(b, m)
  /\ UNCHANGED <<ao_pad_disabled, monitorVars, arm_switch, igniterVars, skew>>

(* ao_pad_disable and ao_pad_enable, around a test of the radio.           *)
Disable(b, disabled) ==
  /\ ao_pad_disabled' = [ao_pad_disabled EXCEPT ![b] = disabled]
  /\ UNCHANGED <<listenerVars, monitorVars, arm_switch, igniterVars, skew>>

(* A mistake: the arming never ends.                                       *)
SampleKeepsArmed(b) ==
  /\ sampled' = [sampled EXCEPT ![b] = TRUE]
  /\ arm_status' = [arm_status EXCEPT ![b] = arm_switch[b]]
  /\ UNCHANGED <<listenerVars, ao_pad_disabled, arm_switch, igniterVars, skew>>

(* The monitor handles a sample of the converter: it notes the position of *)
(* the switch and ends the arming when it is too old.                      *)
Sample(b) ==
  /\ sampled' = [sampled EXCEPT ![b] = TRUE]
  /\ arm_status' = [arm_status EXCEPT ![b] = arm_switch[b]]
  /\ IF arm_age[b] > ArmTime
       THEN /\ ao_pad_armed' = [ao_pad_armed EXCEPT ![b] = {}]
            /\ arm_age' = [arm_age EXCEPT ![b] = 0]
       ELSE UNCHANGED <<ao_pad_armed, arm_age>>
  /\ UNCHANGED <<ao_pad_ignite, ao_log_running, ao_pad_disabled, arm_switch,
                 igniterVars, skew>>

(* The igniter finds something to fire and switches the pins on.           *)
PinsOn(b) ==
  /\ ~igniting[b] /\ ao_pad_ignite[b] # {}
  /\ igniting' = [igniting EXCEPT ![b] = TRUE]
  /\ pins0' = [pins0 EXCEPT ![b] = ao_pad_ignite[b] \cap Channels]
  /\ pins' = [pins EXCEPT ![b] = @ \union pins0'[b]]
  /\ ao_pad_ignite' = [ao_pad_ignite EXCEPT ![b] = {}]
  /\ pulse' = [pulse EXCEPT ![b] = FireTime]
  /\ UNCHANGED <<ao_pad_armed, arm_age, ao_log_running, ao_pad_disabled,
                 monitorVars, arm_switch, skew>>

(* Its delay ends and it has been told to fire again: the same pins stay   *)
(* on, whatever it was told to fire.                                       *)
PinsStayOn(b) ==
  /\ igniting[b] /\ pulse[b] = 0 /\ ao_pad_ignite[b] # {}
  /\ ao_pad_ignite' = [ao_pad_ignite EXCEPT ![b] = {}]
  /\ pulse' = [pulse EXCEPT ![b] = FireTime]
  /\ UNCHANGED <<ao_pad_armed, arm_age, ao_log_running, ao_pad_disabled,
                 monitorVars, arm_switch, igniting, pins0, pins, skew>>

(* A mistake: the pins are set again where they should be cleared.         *)
PinsOffSetAgain(b) ==
  /\ igniting[b] /\ pulse[b] = 0 /\ ao_pad_ignite[b] = {}
  /\ pins0' = [pins0 EXCEPT ![b] = {}]
  /\ igniting' = [igniting EXCEPT ![b] = FALSE]
  /\ pins' = [pins EXCEPT ![b] = @ \union pins0[b]]
  /\ UNCHANGED <<listenerVars, ao_pad_disabled, monitorVars, arm_switch,
                 pulse, skew>>

(* Its delay ends with nothing more to fire.  A box with its pins on one   *)
(* port sets them a second time where one with two ports clears them.      *)
PinsOff(b) ==
  /\ igniting[b] /\ pulse[b] = 0 /\ ao_pad_ignite[b] = {}
  /\ pins0' = [pins0 EXCEPT ![b] = {}]
  /\ igniting' = [igniting EXCEPT ![b] = FALSE]
  /\ pins' = [pins EXCEPT ![b] = IF TwoPorts THEN @ \ pins0[b]
                                 ELSE @ \union pins0[b]]
  /\ UNCHANGED <<listenerVars, ao_pad_disabled, monitorVars, arm_switch,
                 pulse, skew>>

Igniter(b) == PinsOn(b) \/ PinsStayOn(b) \/ PinsOff(b)

(* One turn of the loop of ao_pad_manual, the console's fire command.      *)
Manual(b, bit) ==
  /\ ao_pad_ignite' = [ao_pad_ignite EXCEPT ![b] = {bit}]
  /\ UNCHANGED <<ao_pad_armed, arm_age, ao_log_running, ao_pad_disabled,
                 monitorVars, arm_switch, igniterVars, skew>>

(* Somebody moves the arming switch.                                       *)
Switch(b) ==
  /\ arm_switch' = [arm_switch EXCEPT ![b] = ~@]
  /\ UNCHANGED <<listenerVars, ao_pad_disabled, monitorVars, igniterVars, skew>>

(* The box is switched off and on: its pins go off and its clock restarts. *)
Reboot(b) ==
  /\ ao_pad_armed' = [ao_pad_armed EXCEPT ![b] = {}]
  /\ arm_age' = [arm_age EXCEPT ![b] = 0]
  /\ ao_pad_ignite' = [ao_pad_ignite EXCEPT ![b] = {}]
  /\ ao_pad_disabled' = [ao_pad_disabled EXCEPT ![b] = FALSE]
  /\ arm_status' = [arm_status EXCEPT ![b] = FALSE]
  /\ igniting' = [igniting EXCEPT ![b] = FALSE]
  /\ pins0' = [pins0 EXCEPT ![b] = {}]
  /\ pulse' = [pulse EXCEPT ![b] = 0]
  /\ pins' = [pins EXCEPT ![b] = {}]
  /\ ao_log_running' = [ao_log_running EXCEPT ![b] = FALSE]
  /\ \E s \in Skews : skew' = [skew EXCEPT ![b] = s]
  /\ UNCHANGED <<arm_switch, sampled>>

(* The igniter has something to do.                                        *)
IgniterReady(b) == IF igniting[b] THEN pulse[b] = 0 ELSE ao_pad_ignite[b] # {}

(* Time passes: by then the tasks that were ready have run, and each       *)
(* monitor has had a sample.                                               *)
PadTick ==
  /\ \A b \in Boxes : sampled[b] /\ ~IgniterReady(b)
  /\ sampled' = [b \in Boxes |-> FALSE]
  /\ arm_age' = [b \in Boxes |->
                   IF ao_pad_armed[b] = {} \/ arm_age[b] > FireLimit
                     THEN arm_age[b] ELSE arm_age[b] + 1]
  /\ pulse' = [b \in Boxes |-> IF pulse[b] > 0 THEN pulse[b] - 1 ELSE 0]
  /\ UNCHANGED <<ao_pad_armed, ao_pad_ignite, ao_log_running, ao_pad_disabled,
                 arm_status, arm_switch, igniting, pins0, pins, skew>>

(* The commands a box may hear.                                            *)
Commands ==
  [cmd : {"ARM", "FIRE", "STATIC", "ENDSTATIC"}, box : Boxes,
   channels : SUBSET Bits, offset : Skews]

PadNext ==
  \/ \E b \in Boxes :
       \/ \E m \in Commands : Receive(b, m)
       \/ \E disabled \in BOOLEAN : Disable(b, disabled)
       \/ Sample(b)
       \/ Igniter(b)
       \/ \E bit \in Bits : Manual(b, bit)
       \/ Switch(b)
       \/ Reboot(b)
  \/ PadTick

PadSpec == PadInit /\ [][PadNext]_padVars

-----------------------------------------------------------------------------
(* Each variable has the values the code can give it.                      *)
PadTypeOK ==
  /\ ao_pad_armed \in [Boxes -> SUBSET Channels]
  /\ arm_age \in [Boxes -> 0 .. FireLimit+1]
  /\ ao_pad_ignite \in [Boxes -> SUBSET Bits]
  /\ ao_pad_disabled \in [Boxes -> BOOLEAN]
  /\ arm_status \in [Boxes -> BOOLEAN]
  /\ arm_switch \in [Boxes -> BOOLEAN]
  /\ sampled \in [Boxes -> BOOLEAN]
  /\ igniting \in [Boxes -> BOOLEAN]
  /\ pins0 \in [Boxes -> SUBSET Channels]
  /\ pulse \in [Boxes -> 0 .. FireTime]
  /\ pins \in [Boxes -> SUBSET Channels]
  /\ ao_log_running \in [Boxes -> BOOLEAN]
  /\ skew \in [Boxes -> Skews]

(* "Arm pads for 3 seconds" (ao_pad.h): a box is armed for no more than    *)
(* ArmTime and one sample after the last ARM or FIRE it took, although     *)
(* FIRE itself would be obeyed for FireLimit.                              *)
ArmExpires ==
  \A b \in Boxes : ao_pad_armed[b] # {} => arm_age[b] <= ArmTime + 1

(* A pin is on only while the igniter holds it on, so that a pulse that is *)
(* not renewed ends: "Fire current armed pads for 200ms" (ao_pad.h).       *)
PinsReleased ==
  \A b \in Boxes : pins[b] = IF igniting[b] THEN pins0[b] ELSE {}
=============================================================================
