------------------------------- MODULE AltosLco -------------------------------
(***************************************************************************)
(* The TeleLCO launch controller: drivers/ao_lco_bits.c and ao_lco_func.c  *)
(* with the knobs and buttons of drivers/ao_lco.c.  The input task turns   *)
(* what the operator does into the state of the controller; the monitor    *)
(* task, at its own pace, turns that state into radio commands.            *)
(*                                                                         *)
(* The controller is modelled from the end of its first search for boxes,  *)
(* which found them all, and pads that only show a voltage or a signal     *)
(* strength are one pad, 0.                                                *)
(***************************************************************************)
EXTENDS AltosPadCommand

CONSTANTS
  HasDrag,      \* AO_LCO_DRAG; FALSE also where nobody turns to drag races
  DragBox,      \* AO_LCO_BOX_DRAG, the place on the box knob for drag races
  FirePeriod,   \* the monitor's sleep while it fires
  ArmPeriod,    \* and otherwise
  DragStart,    \* AO_LCO_DRAG_RACE_START_TIME
  DragStop      \* AO_LCO_DRAG_RACE_STOP_TIME

ASSUME LcoAssumption ==
  /\ HasDrag \in BOOLEAN /\ DragBox = 0
  /\ FirePeriod \in Nat \ {0} /\ ArmPeriod \in Nat \ {0}
  /\ DragStart \in Nat /\ DragStop \in Nat

VARIABLES
  ao_lco_box, ao_lco_pad,
  ao_lco_armed, ao_lco_firing,
  ao_lco_drag_race,
  ao_lco_fire_down,     \* the fire button may change the drag race mode
  fire_down_age,        \* time since ao_lco_fire_tick
  ao_lco_selected,      \* the pads of each box to arm
  ao_lco_channels,      \* the pads each box has said it has
  ao_lco_tick_offset,
  ao_lco_valid,         \* the boxes that have AO_LCO_VALID_EVER
  fire_pressed,         \* the fire button is held down
  monitor,              \* where the monitor task is
  asked,                \* the box it has queried
  next_box,             \* the box its arming loop is at
  pause,                \* what is left of its sleep
  air                   \* the packet sent, until each box hears it or not

uiVars == <<ao_lco_box, ao_lco_pad, ao_lco_armed, ao_lco_firing,
            ao_lco_drag_race, ao_lco_fire_down, fire_down_age,
            ao_lco_selected, fire_pressed>>
linkVars == <<ao_lco_channels, ao_lco_tick_offset, ao_lco_valid>>
monitorLoop == <<monitor, asked, next_box, pause>>
lcoVars == <<uiVars, linkVars, monitorLoop, air>>

MinBox == Min(Boxes)
MaxBox == Max(Boxes)
NoSelection == [b \in Boxes |-> {}]

(* What the search has learnt of the clocks, ao_lco_tick_offset, is said   *)
(* where the boxes are.                                                    *)
PanelInit ==
  /\ ao_lco_box = MinBox
  /\ ao_lco_pad = 1
  /\ ao_lco_armed = FALSE /\ ao_lco_firing = FALSE
  /\ ao_lco_drag_race = FALSE
  /\ ao_lco_fire_down = FALSE /\ fire_down_age = 0
  /\ ao_lco_selected = NoSelection
  /\ ao_lco_channels = [b \in Boxes |-> {}]
  /\ ao_lco_valid = {}
  /\ fire_pressed = FALSE
  /\ monitor = "top" /\ asked = MinBox /\ next_box = MinBox /\ pause = 0
  /\ air = [b \in Boxes |-> NoMessage]

-----------------------------------------------------------------------------
(* The pads the pad knob stops at: those the box has, and 0.               *)
ao_lco_pad_present(box, pad) ==
  pad = 0 \/ (box \in Boxes /\ pad \in ao_lco_channels[box])

(* The pad knob is turned; it is dead while the controller is armed.       *)
StepPad(pad) ==
  /\ ~ao_lco_armed
  /\ ao_lco_pad_present(ao_lco_box, pad)
  /\ ao_lco_pad' = pad
  /\ UNCHANGED <<ao_lco_box, ao_lco_armed, ao_lco_firing, ao_lco_drag_race,
                 ao_lco_fire_down, fire_down_age, ao_lco_selected,
                 fire_pressed, linkVars, monitorLoop, air>>

(* The box knob is turned: the pads of the box are to be asked for again.  *)
StepBox(box) ==
  /\ ~ao_lco_armed
  /\ ao_lco_box' = box
  /\ ao_lco_pad' = 1
  /\ ao_lco_channels' = [b \in Boxes |-> IF b = box THEN {} ELSE ao_lco_channels[b]]
  /\ UNCHANGED <<ao_lco_armed, ao_lco_firing, ao_lco_drag_race,
                 ao_lco_fire_down, fire_down_age, ao_lco_selected,
                 fire_pressed, ao_lco_tick_offset, ao_lco_valid, monitorLoop, air>>

(* A change of ao_lco_armed or ao_lco_firing wakes the monitor.            *)
WakeMonitor ==
  /\ IF monitor = "asleep" THEN monitor' = "top" /\ pause' = 0
                           ELSE UNCHANGED <<monitor, pause>>
  /\ UNCHANGED <<asked, next_box>>

(* A mistake: what was selected for an earlier launch stays selected.      *)
SelectAlso ==
  [ao_lco_selected EXCEPT ![ao_lco_box] = @ \union ({ao_lco_pad} \ {0})]

(* What the arm switch selects outside a drag race: the pad shown.         *)
Select == [NoSelection EXCEPT ![ao_lco_box] = {ao_lco_pad} \ {0}]

(* The arm switch is moved: ao_lco_set_armed.                              *)
SetArmed(on) ==
  /\ ao_lco_box # DragBox
  /\ ao_lco_selected' = IF on /\ ~ao_lco_drag_race THEN Select ELSE ao_lco_selected
  /\ ao_lco_armed' = (on /\ \E b \in Boxes : ao_lco_selected'[b] # {})
  /\ WakeMonitor
  /\ UNCHANGED <<ao_lco_box, ao_lco_pad, ao_lco_firing, ao_lco_drag_race,
                 ao_lco_fire_down, fire_down_age, fire_pressed, linkVars, air>>

(* The fire button, while the controller is armed: ao_lco_set_firing.      *)
SetFiring(on) ==
  /\ ao_lco_armed
  /\ fire_pressed # on /\ fire_pressed' = on
  /\ ao_lco_fire_down' = FALSE
  /\ ao_lco_firing' = on
  /\ WakeMonitor
  /\ UNCHANGED <<ao_lco_box, ao_lco_pad, ao_lco_armed, ao_lco_drag_race,
                 fire_down_age, ao_lco_selected, linkVars, air>>

(* The pads in the drag race, with the pad shown put in or taken out.      *)
Toggled ==
  IF ao_lco_drag_race /\ ao_lco_pad # 0
    THEN [ao_lco_selected EXCEPT ![ao_lco_box] =
            (@ \ {ao_lco_pad}) \union ({ao_lco_pad} \ @)]
    ELSE ao_lco_selected

(* The fire button, while it is not: it changes the drag race, or starts   *)
(* the time that changes the drag race mode.                               *)
DragButton(on) ==
  /\ ~ao_lco_armed
  /\ fire_pressed # on /\ fire_pressed' = on
  /\ \/ /\ ~HasDrag
        /\ UNCHANGED <<ao_lco_fire_down, fire_down_age, ao_lco_selected>>
     \/ /\ on /\ ao_lco_box = DragBox
        /\ ao_lco_fire_down' = TRUE /\ fire_down_age' = 0
        /\ UNCHANGED ao_lco_selected
     \/ /\ HasDrag /\ on /\ ao_lco_box # DragBox
        /\ ao_lco_selected' = Toggled
        /\ UNCHANGED <<ao_lco_fire_down, fire_down_age>>
     \/ /\ HasDrag /\ ~on
        /\ ao_lco_fire_down' = FALSE
        /\ UNCHANGED <<fire_down_age, ao_lco_selected>>
  /\ UNCHANGED <<ao_lco_box, ao_lco_pad, ao_lco_armed, ao_lco_firing,
                 ao_lco_drag_race, linkVars, monitorLoop, air>>

(* ao_lco_drag_button_check: the button has been down long enough.         *)
DragMode ==
  /\ ao_lco_fire_down
  /\ fire_down_age >= IF ao_lco_drag_race THEN DragStop ELSE DragStart
  /\ ao_lco_drag_race' = ~ao_lco_drag_race
  /\ ao_lco_selected' = NoSelection
  /\ ao_lco_fire_down' = FALSE
  /\ UNCHANGED <<ao_lco_box, ao_lco_pad, ao_lco_armed, ao_lco_firing,
                 fire_down_age, fire_pressed, linkVars, monitorLoop, air>>

Input ==
  \/ \E pad \in Channels \union {0} : StepPad(pad)
  \/ \E box \in Boxes \union (IF HasDrag THEN {DragBox} ELSE {}) : StepBox(box)
  \/ \E on \in BOOLEAN : SetArmed(on) \/ SetFiring(on) \/ DragButton(on)
  \/ DragMode

-----------------------------------------------------------------------------
Send(m) == air' = [b \in Boxes |-> m]

(* The monitor's sleep at the end of its loop.                             *)
Pause ==
  /\ monitor' = "asleep"
  /\ pause' = IF ao_lco_armed /\ ao_lco_firing THEN FirePeriod ELSE ArmPeriod

MonitorWake ==
  /\ monitor = "asleep" /\ pause = 0
  /\ monitor' = "top"
  /\ UNCHANGED <<asked, next_box, pause, uiVars, linkVars, air>>

(* Both switches are on: the monitor sends FIRE to every box that hears.   *)
MonitorFire ==
  /\ monitor = "top"
  /\ ao_lco_armed /\ ao_lco_firing
  /\ Send(Command("FIRE", 0, {}, 0))
  /\ Pause
  /\ UNCHANGED <<asked, next_box, uiVars, linkVars>>

(* Otherwise it queries the box shown, if one is.                          *)
MonitorQuery ==
  /\ monitor = "top"
  /\ ~(ao_lco_armed /\ ao_lco_firing)
  /\ IF ao_lco_box = DragBox
       THEN monitor' = "updated" /\ UNCHANGED asked
       ELSE monitor' = "waiting" /\ asked' = ao_lco_box
  /\ UNCHANGED <<next_box, pause, uiVars, linkVars, air>>

(* A mistake: the clock of a box is learnt once, by the search.            *)
QueryAnsweredKeepOffset(channels, offset) ==
  /\ monitor = "waiting"
  /\ monitor' = "updated"
  /\ ao_lco_channels' = [ao_lco_channels EXCEPT ![asked] = channels]
  /\ ao_lco_valid' = ao_lco_valid \union {asked}
  /\ UNCHANGED <<uiVars, ao_lco_tick_offset, asked, next_box, pause, air>>

(* The answer has the pads and the clock of the box that sent it, which is *)
(* taken to be the one asked.  The first answer moves the pad shown.       *)
QueryAnswered(channels, offset) ==
  /\ monitor = "waiting"
  /\ monitor' = "updated"
  /\ ao_lco_channels' = [ao_lco_channels EXCEPT ![asked] = channels]
  /\ ao_lco_tick_offset' = [ao_lco_tick_offset EXCEPT ![asked] = offset]
  /\ ao_lco_valid' = ao_lco_valid \union {asked}
  /\ ao_lco_pad' =
       IF asked \in ao_lco_valid \/ ao_lco_pad = 0 THEN ao_lco_pad
       ELSE IF ao_lco_box = DragBox \/ ao_lco_channels'[ao_lco_box] = {} THEN 0
       ELSE Min(ao_lco_channels'[ao_lco_box])
  /\ UNCHANGED <<ao_lco_box, ao_lco_armed, ao_lco_firing, ao_lco_drag_race,
                 ao_lco_fire_down, fire_down_age, ao_lco_selected,
                 fire_pressed, asked, next_box, pause, air>>

QueryTimeout ==
  /\ monitor = "waiting"
  /\ monitor' = "updated"
  /\ UNCHANGED <<asked, next_box, pause, uiVars, linkVars, air>>

(* A mistake: the selected boxes are armed although the switch is off.     *)
MonitorArmingAlways ==
  /\ monitor = "updated"
  /\ monitor' = "arming"
  /\ UNCHANGED <<asked, next_box, pause, uiVars, linkVars, air>>

(* After the query: arm the selected boxes, or sleep.                      *)
MonitorArming ==
  /\ monitor = "updated"
  /\ IF ao_lco_armed
       THEN monitor' = "arming" /\ UNCHANGED pause
       ELSE Pause
  /\ UNCHANGED <<asked, next_box, uiVars, linkVars, air>>

(* One box of the arming loop.                                             *)
MonitorArm ==
  /\ monitor = "arming" /\ next_box <= MaxBox
  /\ IF next_box \in ao_lco_valid /\ ao_lco_selected[next_box] # {}
       THEN Send(Command("ARM", next_box, ao_lco_selected[next_box],
                         ao_lco_tick_offset[next_box]))
       ELSE UNCHANGED air
  /\ next_box' = next_box + 1
  /\ UNCHANGED <<monitor, asked, pause, uiVars, linkVars>>

MonitorArmed ==
  /\ monitor = "arming" /\ next_box > MaxBox
  /\ next_box' = MinBox
  /\ Pause
  /\ UNCHANGED <<asked, uiVars, linkVars, air>>

MonitorStep ==
  \/ MonitorWake \/ MonitorFire \/ MonitorQuery \/ QueryTimeout
  \/ MonitorArming \/ MonitorArm \/ MonitorArmed

(* The controller has nothing left to do in this time unit.                *)
LcoQuiet ==
  /\ monitor = "asleep" /\ pause > 0
  /\ \A b \in Boxes : air[b] = NoMessage
  /\ ao_lco_fire_down =>
       fire_down_age < IF ao_lco_drag_race THEN DragStop ELSE DragStart

LcoTick ==
  /\ LcoQuiet
  /\ pause' = pause - 1
  /\ fire_down_age' = IF ao_lco_fire_down THEN fire_down_age + 1 ELSE fire_down_age
  /\ UNCHANGED <<ao_lco_box, ao_lco_pad, ao_lco_armed, ao_lco_firing,
                 ao_lco_drag_race, ao_lco_fire_down, ao_lco_selected,
                 fire_pressed, linkVars, monitor, asked, next_box, air>>

(* The controller alone: packets are lost on the way, any box may answer.  *)
LcoNext ==
  \/ Input \/ MonitorStep
  \/ \E channels \in SUBSET Channels : QueryAnswered(channels, 0)
  \/ /\ air' = [b \in Boxes |-> NoMessage]
     /\ UNCHANGED <<uiVars, linkVars, monitorLoop>>
  \/ LcoTick

LcoInit == PanelInit /\ ao_lco_tick_offset = [b \in Boxes |-> 0]
LcoSpec == LcoInit /\ [][LcoNext]_lcoVars

-----------------------------------------------------------------------------
(* Each variable has the values the code can give it.                      *)
LcoTypeOK ==
  /\ ao_lco_box \in Boxes \union {DragBox}
  /\ ao_lco_pad \in Channels \union {0}
  /\ ao_lco_armed \in BOOLEAN /\ ao_lco_firing \in BOOLEAN
  /\ ao_lco_drag_race \in BOOLEAN
  /\ ao_lco_fire_down \in BOOLEAN
  /\ fire_down_age \in Nat
  /\ ao_lco_selected \in [Boxes -> SUBSET Channels]
  /\ ao_lco_channels \in [Boxes -> SUBSET Channels]
  /\ ao_lco_valid \subseteq Boxes
  /\ fire_pressed \in BOOLEAN
  /\ monitor \in {"top", "waiting", "updated", "arming", "asleep"}
  /\ asked \in Boxes
  /\ next_box \in MinBox .. MaxBox + 1
  /\ pause \in 0 .. ArmPeriod \union 0 .. FirePeriod

(* "Launch One Rocket" (telelaunch-operation.inc): outside a drag race the *)
(* armed controller has at most one pad selected, whatever was selected    *)
(* for an earlier launch or for a drag race.                               *)
OneRocket ==
  ao_lco_armed /\ ~ao_lco_drag_race =>
    \A a, b \in Boxes : \A c \in ao_lco_selected[a], d \in ao_lco_selected[b] :
      a = b /\ c = d

(* "fire button pressed" (ao_lco.h, of ao_lco_firing).                     *)
FiringMeansPressed == ao_lco_armed /\ ao_lco_firing => fire_pressed
=============================================================================
