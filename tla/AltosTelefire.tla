----------------------------- MODULE AltosTelefire ----------------------------
(***************************************************************************)
(* A TeleLaunch system: one controller (AltosLco) and its pad boxes        *)
(* (AltosPad) on a radio that loses packets.  A packet is heard or lost by *)
(* each box on its own before time passes.  The boxes restart now and      *)
(* then, with another clock.  Their arming switches are on.                *)
(***************************************************************************)
EXTENDS AltosPad, AltosLco

CONSTANTS
  MaxReboots,   \* bound on restarts of boxes
  Watched       \* the channels whose consent_age is kept

ASSUME TelefireAssumption == MaxReboots \in Nat /\ Watched \subseteq Channels

VARIABLES
  late,         \* boxes whose answer came after the query had timed out
  reboots,      \* restarts so far
  consent_age   \* for each watched channel of each box, the time since the
                \* operator last had it selected and armed, or the box last
                \* obeyed a FIRE with it

teleVars == <<late, reboots, consent_age>>
allVars == <<padVars, lcoVars, teleVars>>

ConsentLimit == ArmTime + 2

TelefireInit ==
  /\ PadInit
  /\ arm_switch = [b \in Boxes |-> TRUE]
  /\ PanelInit
  /\ ao_lco_tick_offset = skew
  /\ late = {}
  /\ reboots = 0
  /\ consent_age = [b \in Boxes |-> [c \in Watched |-> ConsentLimit]]

Consent(fired) ==
  consent_age' = [b \in Boxes |-> [c \in Watched |->
    IF \/ ao_lco_armed' /\ c \in ao_lco_selected'[b]
       \/ fired = b /\ c \in ao_pad_armed[b]
      THEN 0 ELSE consent_age[b][c]]]

(* The operator, or the controller's own clockwork.                        *)
LcoStep ==
  /\ Input \/ MonitorStep
  /\ Consent(0)
  /\ UNCHANGED <<padVars, reboots>>
  /\ late' = IF monitor = "waiting" /\ monitor' # "waiting" THEN {asked} ELSE late

(* A box hears the packet and obeys it, or loses or refuses it.            *)
Deliver(b) ==
  /\ air[b] # NoMessage
  /\ Receive(b, air[b])
  /\ air' = [air EXCEPT ![b] = NoMessage]
  /\ UNCHANGED <<uiVars, linkVars, monitorLoop, late, reboots>>
  /\ Consent(IF air[b].cmd = "FIRE" THEN b ELSE 0)

Lose(b) ==
  /\ air[b] # NoMessage
  /\ air' = [air EXCEPT ![b] = NoMessage]
  /\ UNCHANGED <<padVars, uiVars, linkVars, monitorLoop, teleVars>>

(* The answer to a query; ao_lco_query takes a late one of another box for *)
(* the answer it waits for.                                                *)
Answer(b) ==
  /\ b \in {asked} \union late
  /\ QueryAnswered(Channels, skew[b])
  /\ late' = {}
  /\ Consent(0)
  /\ UNCHANGED <<padVars, reboots>>

BoxStep(b) ==
  /\ Sample(b) \/ Igniter(b)
  /\ UNCHANGED <<lcoVars, teleVars>>

Restart(b) ==
  /\ reboots < MaxReboots
  /\ Reboot(b)
  /\ reboots' = reboots + 1
  /\ UNCHANGED <<lcoVars, late, consent_age>>

TelefireTick ==
  /\ PadTick
  /\ LcoTick
  /\ late' = {}
  /\ consent_age' = [b \in Boxes |-> [c \in Watched |->
       IF ao_lco_armed /\ c \in ao_lco_selected[b] THEN 0
       ELSE IF consent_age[b][c] < ConsentLimit THEN consent_age[b][c] + 1
       ELSE consent_age[b][c]]]
  /\ UNCHANGED reboots

TelefireNext ==
  \/ LcoStep
  \/ \E b \in Boxes : \/ Deliver(b) \/ Lose(b) \/ Answer(b)
                      \/ BoxStep(b) \/ Restart(b)
  \/ TelefireTick

TelefireSpec == TelefireInit /\ [][TelefireNext]_allVars

(* The tasks of the controller and the boxes run, time passes, and a       *)
(* packet or an answer that can be heard again and again is heard.         *)
TelefireFairness ==
  /\ WF_allVars(LcoStep /\ MonitorStep)
  /\ WF_allVars(LcoStep /\ DragMode)
  /\ \A b \in Boxes : /\ SF_allVars(Deliver(b))
                      /\ WF_allVars(Lose(b))
                      /\ SF_allVars(Answer(b) /\ b = asked)
                      /\ WF_allVars(BoxStep(b))
  /\ SF_allVars(TelefireTick)

FairTelefireSpec == TelefireSpec /\ TelefireFairness

-----------------------------------------------------------------------------
(* A channel is armed only while its operator armed it, or a FIRE renewed  *)
(* it, within the last arm time: nothing that was lost, late or left over  *)
(* from an earlier launch arms a pad.                                      *)
ArmedByConsent ==
  \A b \in Boxes : \A c \in ao_pad_armed[b] \cap Watched : consent_age[b][c] <= ArmTime + 1

(* The same for the pins: a pin goes on only for a channel the operator    *)
(* armed, or a FIRE renewed, within the last arm time.                     *)
PinsByConsent ==
  [][\A b \in Boxes : \A c \in (pins'[b] \ pins[b]) \cap Watched :
       consent_age[b][c] <= ArmTime + 1]_allVars

(* Once the operator leaves the arm switch off, every box falls silent.    *)
SafeIsSafe ==
  <>[]~ao_lco_armed =>
    <>[](\A b \in Boxes : ao_pad_armed[b] = {} /\ pins[b] = {})

(* "Move the TeleLCO SAFE/ARM switch to ARM.  This will cause the selected *)
(* TeleFire unit's strobe to start flashing" (telelaunch-operation.inc):   *)
(* the box shown arms the selected pads, also after it restarted.          *)
ArmArms ==
  \A b \in Boxes, c \in Channels :
    <>[](/\ ao_lco_armed /\ ~ao_lco_firing /\ c \in ao_lco_selected[b]
         /\ ao_lco_box = b)
      => []<>(c \in ao_pad_armed[b])
=============================================================================
