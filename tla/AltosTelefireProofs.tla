-------------------------- MODULE AltosTelefireProofs -------------------------
(***************************************************************************)
(* What holds of pad boxes of any number, with any channels, times and     *)
(* clocks (AltosPad), of a controller alone (AltosLco), and of a controller *)
(* with its boxes (AltosTelefire).                                         *)
(***************************************************************************)
EXTENDS AltosTelefire, WellFoundedInduction, TLAPS

(* What a sample of this time unit leaves behind: an arming that is not    *)
(* yet too old.  Time passes only after the sample, which is why no arming *)
(* gets older than one unit more.                                          *)
SampledFresh ==
  \A b \in Boxes : sampled[b] /\ ao_pad_armed[b] # {} => arm_age[b] <= ArmTime

ArmingInv == PadTypeOK /\ ArmExpires /\ SampledFresh

(* A box starts disarmed.                                                 *)
LEMMA ArmingInit == PadInit => ArmingInv
  BY PadAssumption DEF PadInit, ArmingInv, PadTypeOK, ArmExpires, SampledFresh

(* What a box hears is a command with any channels.                        *)
LEMMA ReceiveStep ==
  ASSUME ArmingInv, NEW b \in Boxes, NEW m, Receive(b, m)
  PROVE  ArmingInv'
<1> USE PadAssumption DEF ArmingInv, PadTypeOK, ArmExpires, SampledFresh,
                          Receive, monitorVars, igniterVars
<1>1. CASE Arm(b, m)  BY <1>1 DEF Arm
<1>2. CASE Fire(b, m)
  <2>1. ao_pad_armed[b] \subseteq Bits  OBVIOUS
  <2> QED  BY <1>2, <2>1 DEF Fire, Ignite
<1>3. CASE Static(b, m)
  <2>1. ao_pad_armed[b] \subseteq Bits  OBVIOUS
  <2>2. CASE Ignite(b)  BY <1>3, <2>1, <2>2 DEF Static, Ignite
  <2>3. CASE ~Ignite(b)  BY <1>3, <2>3 DEF Static
  <2> QED  BY <2>2, <2>3
<1>4. CASE EndStatic(b, m)  BY <1>4 DEF EndStatic
<1> QED  BY <1>1, <1>2, <1>3, <1>4

(* The igniter does not touch the arming.                                  *)
LEMMA IgniterStep ==
  ASSUME ArmingInv, NEW b \in Boxes, Igniter(b)
  PROVE  ArmingInv'
<1> USE PadAssumption DEF ArmingInv, PadTypeOK, ArmExpires, SampledFresh,
                          monitorVars, listenerVars
<1>1. CASE PinsOn(b)  BY <1>1 DEF PinsOn
<1>2. CASE PinsStayOn(b)  BY <1>2 DEF PinsStayOn
<1>3. CASE PinsOff(b)  BY <1>3 DEF PinsOff
<1> QED  BY <1>1, <1>2, <1>3 DEF Igniter

(* A sample disarms a box whose arming is too old.                          *)
LEMMA SampleStep ==
  ASSUME ArmingInv, NEW b \in Boxes, Sample(b)
  PROVE  ArmingInv'
  BY PadAssumption DEF ArmingInv, PadTypeOK, ArmExpires, SampledFresh, Sample,
                       igniterVars

(* A box that restarts is disarmed.                                        *)
LEMMA RebootStep ==
  ASSUME ArmingInv, NEW b \in Boxes, Reboot(b)
  PROVE  ArmingInv'
  BY PadAssumption DEF ArmingInv, PadTypeOK, ArmExpires, SampledFresh, Reboot

(* Time makes an arming older by one unit, and wants another sample.        *)
LEMMA PadTickStep ==
  ASSUME ArmingInv, PadTick
  PROVE  ArmingInv'
  BY PadAssumption DEF ArmingInv, PadTypeOK, ArmExpires, SampledFresh, PadTick

(* Every step keeps the invariant.                                         *)
LEMMA ArmingStep ==
  ASSUME ArmingInv, [PadNext]_padVars
  PROVE  ArmingInv'
<1>1. CASE UNCHANGED padVars
  BY <1>1 DEF ArmingInv, PadTypeOK, ArmExpires, SampledFresh, padVars
<1>2. ASSUME NEW b \in Boxes, NEW m \in Commands, Receive(b, m)
      PROVE  ArmingInv'
  BY <1>2, ReceiveStep
<1>3. ASSUME NEW b \in Boxes, NEW disabled \in BOOLEAN, Disable(b, disabled)
      PROVE  ArmingInv'
  BY <1>3 DEF ArmingInv, PadTypeOK, ArmExpires, SampledFresh, Disable,
              listenerVars, monitorVars, igniterVars
<1>4. ASSUME NEW b \in Boxes, NEW bit \in Bits, Manual(b, bit)
      PROVE  ArmingInv'
  BY <1>4 DEF ArmingInv, PadTypeOK, ArmExpires, SampledFresh, Manual,
              monitorVars, igniterVars
<1>5. ASSUME NEW b \in Boxes, Switch(b)
      PROVE  ArmingInv'
  BY <1>5 DEF ArmingInv, PadTypeOK, ArmExpires, SampledFresh, Switch,
              listenerVars, monitorVars, igniterVars
<1> QED
  BY <1>1, <1>2, <1>3, <1>4, <1>5, SampleStep, IgniterStep, RebootStep,
     PadTickStep DEF PadNext

(* The arming of a box ends: with any channels, times and clocks, no box   *)
(* is armed longer than ArmTime and one sample after the command it took.  *)
THEOREM ArmingExpires == PadSpec => []ArmExpires
<1>1. PadSpec => []ArmingInv  BY ArmingInit, ArmingStep, PTL DEF PadSpec
<1>2. ArmingInv => ArmExpires  BY DEF ArmingInv
<1> QED  BY <1>1, <1>2, PTL

(* The variables of a box keep their types.                                *)
THEOREM PadTypes == PadSpec => []PadTypeOK
<1>1. PadSpec => []ArmingInv  BY ArmingInit, ArmingStep, PTL DEF PadSpec
<1>2. ArmingInv => PadTypeOK  BY DEF ArmingInv
<1> QED  BY <1>1, <1>2, PTL

-----------------------------------------------------------------------------
(* The igniter alone moves the pins; it starts from none and clears those    *)
(* it switched on.                                                         *)
LEMMA PinsStep ==
  ASSUME TwoPorts = TRUE, PadTypeOK, PinsReleased, [PadNext]_padVars
  PROVE  PinsReleased'
<1> USE DEF PadTypeOK, PinsReleased, listenerVars, monitorVars, igniterVars
<1>1. CASE UNCHANGED <<igniting, pins0, pins>>  BY <1>1
<1>2. ASSUME NEW b \in Boxes, PinsOn(b)  PROVE PinsReleased'
  <2>1. pins[b] = {}  BY <1>2 DEF PinsOn
  <2>2. pins'[b] = pins0'[b] /\ igniting'[b]  BY <1>2, <2>1 DEF PinsOn
  <2>3. \A a \in Boxes \ {b} :
          pins'[a] = pins[a] /\ pins0'[a] = pins0[a] /\ igniting'[a] = igniting[a]
    BY <1>2 DEF PinsOn
  <2> QED  BY <2>2, <2>3
<1>3. ASSUME NEW b \in Boxes, PinsOff(b)  PROVE PinsReleased'
  <2>1. pins[b] = pins0[b]  BY <1>3 DEF PinsOff
  <2>2. pins'[b] = {} /\ ~igniting'[b]  BY <1>3, <2>1 DEF PinsOff
  <2>3. \A a \in Boxes \ {b} :
          pins'[a] = pins[a] /\ pins0'[a] = pins0[a] /\ igniting'[a] = igniting[a]
    BY <1>3 DEF PinsOff
  <2> QED  BY <2>2, <2>3
<1>4. ASSUME NEW b \in Boxes, Reboot(b)  PROVE PinsReleased'
  <2>1. pins'[b] = {} /\ ~igniting'[b]  BY <1>4 DEF Reboot
  <2>2. \A a \in Boxes \ {b} :
          pins'[a] = pins[a] /\ pins0'[a] = pins0[a] /\ igniting'[a] = igniting[a]
    BY <1>4 DEF Reboot
  <2> QED  BY <2>1, <2>2
<1>5. ASSUME NEW b \in Boxes, NEW m \in Commands, Receive(b, m)
      PROVE  UNCHANGED <<igniting, pins0, pins>>
  BY <1>5 DEF Receive
<1>6. ASSUME NEW b \in Boxes, NEW x, Disable(b, x) \/ Manual(b, x)
      PROVE  UNCHANGED <<igniting, pins0, pins>>
  BY <1>6 DEF Disable, Manual
<1>7. ASSUME NEW b \in Boxes, Sample(b) \/ PinsStayOn(b) \/ Switch(b)
      PROVE  UNCHANGED <<igniting, pins0, pins>>
  BY <1>7 DEF Sample, PinsStayOn, Switch
<1>8. CASE PadTick  BY <1>1, <1>8 DEF PadTick
<1>9. CASE UNCHANGED padVars  BY <1>1, <1>9 DEF padVars
<1> QED
  BY <1>1, <1>2, <1>3, <1>4, <1>5, <1>6, <1>7, <1>8, <1>9 DEF PadNext, Igniter

(* On a board with two output ports, a pin is on only while the igniter    *)
(* holds it on.  The assumption is needed: the code for one port never     *)
(* clears a pin.                                                           *)
THEOREM TwoPortPinsReleased ==
  ASSUME TwoPorts = TRUE
  PROVE  PadSpec => []PinsReleased
<1>1. PadInit => PinsReleased  BY DEF PadInit, PinsReleased
<1>2. PadTypeOK /\ PinsReleased /\ [PadNext]_padVars => PinsReleased'
  BY PinsStep
<1> QED  BY <1>1, <1>2, PadTypes, PTL DEF PadSpec

-----------------------------------------------------------------------------
(* A set of box or pad numbers has a least one.                            *)
LEMMA LeastOne ==
  ASSUME NEW S \in SUBSET Nat, S # {}
  PROVE  Min(S) \in S
<1>1. PICK x \in S : \A y \in S : ~(<<y, x>> \in OpToRel(<, Nat))
  BY NatLessThanWellFounded, WFMin
<1>2. \A y \in S : x <= y
  <2> SUFFICES ASSUME NEW y \in S, y < x PROVE FALSE
    OBVIOUS
  <2>1. <<y, x>> \in OpToRel(<, Nat)
    BY DEF OpToRel
  <2> QED
    BY <1>1, <2>1
<1> QED
  BY <1>2 DEF Min

(* What the controller has selected it has of boxes it knows.               *)
PanelTypeOK ==
  /\ ao_lco_box \in Boxes \union {DragBox}
  /\ ao_lco_pad \in Channels \union {0}
  /\ ao_lco_armed \in BOOLEAN
  /\ ao_lco_selected \in [Boxes -> SUBSET Channels]
  /\ ao_lco_channels \in [Boxes -> SUBSET Channels]
  /\ ao_lco_valid \subseteq Boxes
  /\ asked \in Boxes

PanelInv == PanelTypeOK /\ OneRocket

LEMMA PanelInitInv == PanelInit => PanelInv
<1>1. MinBox \in Boxes
  BY LeastOne, CommandAssumption DEF MinBox
<1> QED
  BY <1>1, CommandAssumption
     DEF PanelInit, PanelInv, PanelTypeOK, OneRocket, NoSelection

(* What the operator does leaves one pad selected, or none, unless it is   *)
(* for a drag race.                                                        *)
LEMMA InputPanel == ASSUME PanelInv, Input PROVE PanelInv'
<1> USE LcoAssumption, CommandAssumption
    DEF PanelInv, PanelTypeOK, linkVars, monitorLoop
<1>1. ASSUME NEW pad \in Channels \union {0}, StepPad(pad) PROVE PanelInv'
  BY <1>1 DEF StepPad, OneRocket
<1>2. ASSUME NEW box \in Boxes \union {DragBox}, StepBox(box) PROVE PanelInv'
  <2>1. ao_lco_pad' \in Channels /\ ao_lco_box' \in Boxes \union {DragBox}
    BY <1>2 DEF StepBox
  <2>2. ao_lco_channels' \in [Boxes -> SUBSET Channels]
    BY <1>2 DEF StepBox
  <2> QED
    BY <1>2, <2>1, <2>2 DEF StepBox, OneRocket
<1>3. ASSUME NEW on \in BOOLEAN, SetArmed(on) PROVE PanelInv'
  <2>1. ao_lco_box \in Boxes /\ Select \in [Boxes -> SUBSET Channels]
    BY <1>3 DEF SetArmed, Select, NoSelection
  <2>2. PanelTypeOK'
    BY <1>3, <2>1 DEF SetArmed, WakeMonitor
  <2>3. ASSUME on, ~ao_lco_drag_race PROVE OneRocket'
    BY <1>3, <2>1, <2>3 DEF SetArmed, Select, NoSelection, OneRocket
  <2>4. ASSUME ~on \/ ao_lco_drag_race PROVE OneRocket'
    BY <1>3, <2>4 DEF SetArmed, OneRocket
  <2> QED
    BY <2>2, <2>3, <2>4
<1>4. ASSUME NEW on \in BOOLEAN, SetFiring(on) PROVE PanelInv'
  BY <1>4 DEF SetFiring, WakeMonitor, OneRocket
<1>5. ASSUME NEW on \in BOOLEAN, DragButton(on) PROVE PanelInv'
  <2>1. ao_lco_box # DragBox => Toggled \in [Boxes -> SUBSET Channels]
    BY DEF Toggled
  <2> QED
    BY <1>5, <2>1 DEF DragButton, OneRocket
<1>6. CASE DragMode
  BY <1>6 DEF DragMode, NoSelection, OneRocket
<1> QED
  BY <1>1, <1>2, <1>3, <1>4, <1>5, <1>6 DEF Input

(* The monitor and its radio select nothing.                               *)
LEMMA MonitorPanel == ASSUME PanelInv, MonitorStep PROVE PanelInv'
<1> USE DEF PanelInv, PanelTypeOK, OneRocket, uiVars, linkVars
<1>1. CASE MonitorQuery
  BY <1>1 DEF MonitorQuery
<1>2. CASE MonitorWake \/ MonitorFire \/ QueryTimeout \/ MonitorArming
  BY <1>2 DEF MonitorWake, MonitorFire, QueryTimeout, MonitorArming
<1>3. CASE MonitorArm \/ MonitorArmed
  BY <1>3 DEF MonitorArm, MonitorArmed
<1> QED
  BY <1>1, <1>2, <1>3 DEF MonitorStep

LEMMA AnswerPanel ==
  ASSUME PanelInv, NEW channels \in SUBSET Channels, NEW offset,
         QueryAnswered(channels, offset)
  PROVE  PanelInv'
<1> USE DEF PanelInv, PanelTypeOK, QueryAnswered
<1>1. ao_lco_channels' \in [Boxes -> SUBSET Channels]
  OBVIOUS
<1>2. ao_lco_pad' \in Channels \union {0}
  <2>1. ASSUME ao_lco_box \in Boxes, ao_lco_channels'[ao_lco_box] # {}
        PROVE  Min(ao_lco_channels'[ao_lco_box]) \in Channels
    BY <1>1, <2>1, LeastOne, CommandAssumption
  <2> QED
    BY <2>1
<1> QED
  BY <1>1, <1>2 DEF OneRocket

(* One rocket: see OneRocket.  With any boxes and pads, drag races or none.*)
THEOREM OneRocketOnly == LcoSpec => []OneRocket
<1>1. LcoInit => PanelInv
  BY PanelInitInv DEF LcoInit
<1>2. PanelInv /\ [LcoNext]_lcoVars => PanelInv'
  <2> SUFFICES ASSUME PanelInv, [LcoNext]_lcoVars PROVE PanelInv'
    OBVIOUS
  <2>1. CASE UNCHANGED <<uiVars, linkVars, asked>>
    BY <2>1 DEF uiVars, linkVars, PanelInv, PanelTypeOK, OneRocket
  <2>2. CASE LcoTick
    BY <2>2 DEF LcoTick, linkVars, PanelInv, PanelTypeOK, OneRocket
  <2> QED
    BY <2>1, <2>2, InputPanel, MonitorPanel, AnswerPanel
       DEF LcoNext, lcoVars, monitorLoop
<1>3. PanelInv => OneRocket
  BY DEF PanelInv
<1> QED
  BY <1>1, <1>2, <1>3, PTL DEF LcoSpec

-----------------------------------------------------------------------------
AgesOK ==
  /\ late \subseteq Boxes
  /\ consent_age \in [Boxes -> [Watched -> 0 .. ConsentLimit]]
  /\ \A b \in Boxes : pins0[b] \subseteq pins[b]

(* The controller speaks of what its operator has just consented to: no    *)
(* time passes while it arms, or while a packet is on its way.             *)
FreshCommands ==
  /\ ao_lco_armed \/ monitor = "arming" =>
       \A b \in Boxes : \A c \in ao_lco_selected[b] \cap Watched :
         consent_age[b][c] = 0
  /\ \A a \in Boxes : air[a] # NoMessage =>
       /\ air[a].cmd \in {"ARM", "FIRE"}
       /\ air[a].cmd = "ARM" =>
            \A b \in Boxes, c \in air[a].channels \cap Watched :
              air[a].box = b => consent_age[b][c] = 0

(* A box is armed no longer than its operator's consent is old, and told   *)
(* to fire in the time unit of a consent, unless it is firing.             *)
BoxesFollow ==
  \A b \in Boxes :
    /\ \A c \in ao_pad_armed[b] \cap Watched : consent_age[b][c] <= arm_age[b]
    /\ ~igniting[b] =>
         \A c \in ao_pad_ignite[b] \cap Watched : consent_age[b][c] = 0

ConsentInv ==
  PanelInv /\ ArmingInv /\ AgesOK /\ FreshCommands /\ BoxesFollow

(* Nothing is selected in the loop that arms the boxes while the switch is *)
(* off.  The loop does not look at the switch again; without this, a pad   *)
(* that is toggled into a drag race then is armed although the switch is   *)
(* off.                                                                    *)
KeepsSelection ==
  monitor = "arming" /\ ~ao_lco_armed' =>
    \A b \in Boxes : ao_lco_selected'[b] \subseteq ao_lco_selected[b]

(* A consent makes ages 0 and no age larger.                               *)
LEMMA ConsentAges ==
  ASSUME AgesOK, NEW fired, Consent(fired)
  PROVE  /\ consent_age' \in [Boxes -> [Watched -> 0 .. ConsentLimit]]
         /\ \A b \in Boxes, c \in Watched :
              /\ consent_age'[b][c] \in {0, consent_age[b][c]}
              /\ ao_lco_armed' /\ c \in ao_lco_selected'[b] => consent_age'[b][c] = 0
              /\ fired = b /\ c \in ao_pad_armed[b] => consent_age'[b][c] = 0
<1>1. 0 \in 0 .. ConsentLimit
  BY PadAssumption DEF ConsentLimit
<1> QED
  BY <1>1 DEF AgesOK, Consent

(* The ages that are 0 stay 0, and the rest grow no larger, so that what   *)
(* holds of boxes that stay as they are still holds.                       *)
LEMMA BoxesFollowOn ==
  ASSUME ConsentInv, NEW fired, Consent(fired), UNCHANGED padVars
  PROVE  BoxesFollow'
<1>1. \A b \in Boxes, c \in Watched : consent_age'[b][c] \in {0, consent_age[b][c]}
  BY ConsentAges DEF ConsentInv
<1>2. \A b \in Boxes : arm_age[b] \in Nat
  BY PadAssumption DEF ConsentInv, ArmingInv, PadTypeOK
<1> QED
  BY <1>1, <1>2 DEF ConsentInv, BoxesFollow, padVars

LEMMA ArmingStays == ASSUME ArmingInv, UNCHANGED padVars PROVE ArmingInv'
BY DEF ArmingInv, PadTypeOK, ArmExpires, SampledFresh, padVars

(* What the operator's input selects, it arms.                             *)
LEMMA InputConsent ==
  ASSUME ConsentInv, Input, KeepsSelection, Consent(0), late' \subseteq Boxes,
         UNCHANGED padVars
  PROVE  ConsentInv'
<1> USE LcoAssumption, CommandAssumption
<1>0. \A b \in Boxes, c \in Watched :
        /\ consent_age'[b][c] \in {0, consent_age[b][c]}
        /\ ao_lco_armed' /\ c \in ao_lco_selected'[b] => consent_age'[b][c] = 0
  BY ConsentAges DEF ConsentInv
<1>1. PanelInv' /\ ArmingInv'
  BY InputPanel, ArmingStays DEF ConsentInv
<1>2. BoxesFollow'
  BY BoxesFollowOn
<1>3. AgesOK'
  BY ConsentAges DEF ConsentInv, AgesOK, padVars
<1>4. air' = air /\ (monitor' = "arming" => monitor = "arming")
  BY DEF Input, StepPad, StepBox, SetArmed, SetFiring, DragButton, DragMode,
         WakeMonitor, monitorLoop
<1>5. FreshCommands'
  <2>1. ASSUME NEW b \in Boxes, NEW c \in ao_lco_selected'[b] \cap Watched,
               ao_lco_armed' \/ monitor' = "arming"
        PROVE  consent_age'[b][c] = 0
    BY <1>0, <1>4, <2>1 DEF ConsentInv, FreshCommands, KeepsSelection
  <2> QED
    BY <1>0, <1>4, <2>1 DEF ConsentInv, FreshCommands
<1> QED
  BY <1>1, <1>2, <1>3, <1>5 DEF ConsentInv

(* The monitor arms what is selected, in the time unit it has seen the     *)
(* switch on.                                                              *)
LEMMA MonitorConsent ==
  ASSUME ConsentInv, MonitorStep, Consent(0), late' \subseteq Boxes,
         UNCHANGED padVars
  PROVE  ConsentInv'
<1> USE LcoAssumption, CommandAssumption
<1>0. \A b \in Boxes, c \in Watched :
        /\ consent_age'[b][c] \in {0, consent_age[b][c]}
        /\ ao_lco_armed' /\ c \in ao_lco_selected'[b] => consent_age'[b][c] = 0
  BY ConsentAges DEF ConsentInv
<1>1. PanelInv' /\ ArmingInv'
  BY MonitorPanel, ArmingStays DEF ConsentInv
<1>2. BoxesFollow'
  BY BoxesFollowOn
<1>3. AgesOK'
  BY ConsentAges DEF ConsentInv, AgesOK, padVars
<1>4. UNCHANGED uiVars /\ UNCHANGED linkVars
  BY DEF MonitorStep, MonitorWake, MonitorFire, MonitorQuery, QueryTimeout,
         MonitorArming, MonitorArm, MonitorArmed
<1>6. monitor' = "arming" => monitor = "arming" \/ ao_lco_armed
  BY DEF MonitorStep, MonitorWake, MonitorFire, MonitorQuery, QueryTimeout,
         MonitorArming, MonitorArm, MonitorArmed, Pause
<1>7. ASSUME NEW b \in Boxes, NEW c \in ao_lco_selected'[b] \cap Watched,
             ao_lco_armed' \/ monitor' = "arming"
      PROVE  consent_age'[b][c] = 0
  BY <1>4, <1>6, <1>7, ConsentAges DEF ConsentInv, FreshCommands, uiVars
<1>8. ASSUME NEW a \in Boxes, air'[a] # NoMessage
      PROVE  /\ air'[a].cmd \in {"ARM", "FIRE"}
             /\ air'[a].cmd = "ARM" =>
                  \A b \in Boxes, c \in air'[a].channels \cap Watched :
                    air'[a].box = b => consent_age'[b][c] = 0
  <2>1. CASE MonitorFire
    BY <2>1 DEF MonitorFire, Send, Command
  <2>2. CASE MonitorArm /\ air' # air
    <3>1. /\ monitor = "arming" /\ next_box \in Boxes
          /\ air'[a] = Command("ARM", next_box, ao_lco_selected[next_box],
                               ao_lco_tick_offset[next_box])
      BY <2>2 DEF MonitorArm, Send, ConsentInv, PanelInv, PanelTypeOK
    <3>2. /\ air'[a].cmd = "ARM" /\ air'[a].box = next_box
          /\ air'[a].channels = ao_lco_selected[next_box]
      BY <3>1 DEF Command
    <3>3. \A c \in ao_lco_selected[next_box] \cap Watched :
            consent_age'[next_box][c] = 0
      BY <3>1, ConsentAges DEF ConsentInv, FreshCommands
    <3> QED
      BY <3>2, <3>3
  <2>3. CASE air' = air
    BY <1>0, <1>8, <2>3 DEF ConsentInv, FreshCommands
  <2> QED
    BY <2>1, <2>2, <2>3
       DEF MonitorStep, MonitorWake, MonitorQuery, QueryTimeout, MonitorArming,
           MonitorArmed
<1>9. FreshCommands'
  BY <1>7, <1>8 DEF FreshCommands
<1> QED
  BY <1>1, <1>2, <1>3, <1>9 DEF ConsentInv

LEMMA AnswerConsent ==
  ASSUME ConsentInv, NEW b \in Boxes, Answer(b)
  PROVE  ConsentInv'
<1> USE DEF Answer
<1>1. PanelInv' /\ ArmingInv'
  BY AnswerPanel, ArmingStays DEF ConsentInv
<1>2. BoxesFollow'
  BY BoxesFollowOn
<1>3. AgesOK'
  BY ConsentAges DEF ConsentInv, AgesOK, padVars
<1>4. FreshCommands'
  BY ConsentAges DEF QueryAnswered, ConsentInv, FreshCommands
<1> QED
  BY <1>1, <1>2, <1>3, <1>4 DEF ConsentInv
(* A box that hears an ARM has the consent of its operator; one that hears *)
(* a FIRE renews it.                                                       *)
LEMMA DeliverConsent ==
  ASSUME ConsentInv, NEW b \in Boxes, Deliver(b)
  PROVE  ConsentInv'
<1>1. PICK m : m = air[b]
  OBVIOUS
<1>2. /\ m # NoMessage /\ Receive(b, m) /\ air' = [air EXCEPT ![b] = NoMessage]
      /\ UNCHANGED <<uiVars, linkVars, monitorLoop, late>>
      /\ Consent(IF m.cmd = "FIRE" THEN b ELSE 0)
  BY <1>1 DEF Deliver
<1>3. /\ consent_age' \in [Boxes -> [Watched -> 0 .. ConsentLimit]]
      /\ \A a \in Boxes, c \in Watched :
           /\ consent_age'[a][c] \in {0, consent_age[a][c]}
           /\ m.cmd = "FIRE" /\ a = b /\ c \in ao_pad_armed[a]
                => consent_age'[a][c] = 0
  BY <1>2, ConsentAges DEF ConsentInv
<1>4. PanelInv'
  BY <1>2 DEF uiVars, linkVars, monitorLoop, ConsentInv, PanelInv, PanelTypeOK,
              OneRocket
<1>5. ArmingInv'
  BY <1>2, ReceiveStep DEF ConsentInv
<1>6. AgesOK'
  BY <1>2, <1>3 DEF Receive, igniterVars, ConsentInv, AgesOK
<1>7. FreshCommands'
  <2>1. \A a \in Boxes : air'[a] # NoMessage => air'[a] = air[a]
    BY <1>2
  <2>2. UNCHANGED <<ao_lco_armed, monitor, ao_lco_selected>>
    BY <1>2 DEF uiVars, monitorLoop
  <2>3. ASSUME NEW a \in Boxes, NEW c \in ao_lco_selected[a] \cap Watched,
               ao_lco_armed \/ monitor = "arming"
        PROVE  consent_age'[a][c] = 0
    BY <1>3, <2>3 DEF ConsentInv, FreshCommands
  <2>4. ASSUME NEW a \in Boxes, air'[a] # NoMessage
        PROVE  /\ air'[a].cmd \in {"ARM", "FIRE"}
               /\ air'[a].cmd = "ARM" =>
                    \A d \in Boxes, c \in air'[a].channels \cap Watched :
                      air'[a].box = d => consent_age'[d][c] = 0
    BY <1>3, <2>1, <2>4 DEF ConsentInv, FreshCommands
  <2> QED
    BY <2>2, <2>3, <2>4 DEF FreshCommands
<1>8. BoxesFollow'
  <2> USE DEF ConsentInv, ArmingInv, PadTypeOK, BoxesFollow
  <2>1. UNCHANGED <<igniting, pins, pins0>>
    BY <1>2 DEF Receive, igniterVars
  <2>2. m.cmd \in {"ARM", "FIRE"}
    BY <1>1, <1>2 DEF FreshCommands
  <2>3. \A a \in Boxes : arm_age[a] \in Nat
    BY PadAssumption
  <2>4. CASE Arm(b, m)
    <3>1. /\ ao_pad_armed' = [ao_pad_armed EXCEPT ![b] = m.channels]
          /\ arm_age' = [arm_age EXCEPT ![b] = 0]
          /\ ao_pad_ignite' = ao_pad_ignite /\ m.box = b /\ m.cmd = "ARM"
      BY <2>4 DEF Arm
    <3>2. \A c \in m.channels \cap Watched : consent_age[b][c] = 0
      BY <1>1, <1>2, <3>1 DEF FreshCommands
    <3>3. ASSUME NEW a \in Boxes, NEW c \in ao_pad_armed'[a] \cap Watched
          PROVE  consent_age'[a][c] <= arm_age'[a]
      <4>1. CASE a = b
        <5>1. arm_age'[a] = 0 /\ consent_age'[a][c] = 0
          BY <1>3, <3>1, <3>2, <3>3, <4>1
        <5> QED
          BY <5>1
      <4>2. CASE a # b
        <5>1. arm_age'[a] = arm_age[a] /\ c \in ao_pad_armed[a] \cap Watched
          BY <3>1, <4>2
        <5>2. consent_age[a][c] <= arm_age[a] /\ c \in Watched
          BY <5>1
        <5>3. consent_age'[a][c] \in {0, consent_age[a][c]}
          BY <1>3, <5>2
        <5> QED
          BY <2>3, <5>1, <5>2, <5>3
      <4> QED
        BY <4>1, <4>2
    <3>4. ASSUME NEW a \in Boxes, ~igniting'[a],
                 NEW c \in ao_pad_ignite'[a] \cap Watched
          PROVE  consent_age'[a][c] = 0
      BY <1>3, <2>1, <3>1, <3>4
    <3> QED
      BY <3>3, <3>4
  <2>5. CASE Fire(b, m)
    <3>1. /\ ao_pad_armed' = ao_pad_armed /\ m.cmd = "FIRE"
          /\ arm_age' = [arm_age EXCEPT ![b] = 0]
          /\ ao_pad_ignite' = [ao_pad_ignite EXCEPT ![b] = ao_pad_armed[b]]
      BY <2>5 DEF Fire, Ignite
    <3>2. ASSUME NEW a \in Boxes, NEW c \in ao_pad_armed'[a] \cap Watched
          PROVE  consent_age'[a][c] <= arm_age'[a]
      <4>1. CASE a = b
        <5>1. arm_age'[a] = 0 /\ consent_age'[a][c] = 0
          BY <1>3, <3>1, <3>2, <4>1
        <5> QED
          BY <5>1
      <4>2. CASE a # b
        <5>1. arm_age'[a] = arm_age[a] /\ c \in ao_pad_armed[a] \cap Watched
          BY <3>1, <4>2
        <5>2. consent_age[a][c] <= arm_age[a] /\ c \in Watched
          BY <5>1
        <5>3. consent_age'[a][c] \in {0, consent_age[a][c]}
          BY <1>3, <5>2
        <5> QED
          BY <2>3, <5>1, <5>2, <5>3
      <4> QED
        BY <4>1, <4>2
    <3>3. ASSUME NEW a \in Boxes, ~igniting'[a],
                 NEW c \in ao_pad_ignite'[a] \cap Watched
          PROVE  consent_age'[a][c] = 0
      BY <1>3, <2>1, <3>1, <3>3
    <3> QED
      BY <3>2, <3>3
  <2> QED
    BY <1>2, <2>2, <2>4, <2>5 DEF Receive, Static, EndStatic
<1> QED
  BY <1>4, <1>5, <1>6, <1>7, <1>8 DEF ConsentInv

(* The tasks of a box fire only what it was told to fire.                  *)
LEMMA BoxConsent ==
  ASSUME ConsentInv, NEW b \in Boxes, BoxStep(b) \/ Lose(b) \/ Restart(b)
  PROVE  ConsentInv'
<1> USE DEF BoxStep, Lose, Restart, lcoVars, teleVars
<1>1. PanelInv'
  BY DEF uiVars, linkVars, monitorLoop, ConsentInv, PanelInv, PanelTypeOK,
         OneRocket
<1>2. ArmingInv'
  BY ArmingStays, SampleStep, IgniterStep, RebootStep DEF ConsentInv
<1>3. FreshCommands'
  <2>1. /\ UNCHANGED <<ao_lco_armed, monitor, ao_lco_selected, consent_age>>
        /\ air' = air \/ air' = [air EXCEPT ![b] = NoMessage]
    BY DEF uiVars, monitorLoop
  <2>2. CASE air' = [air EXCEPT ![b] = NoMessage]
    <3>1. \A a \in Boxes : air'[a] # NoMessage => air'[a] = air[a]
      BY <2>2
    <3> QED
      BY <2>1, <3>1 DEF ConsentInv, FreshCommands
  <2> QED
    BY <2>1, <2>2 DEF ConsentInv, FreshCommands
<1>4. ASSUME Sample(b) \/ PinsOn(b) \/ PinsStayOn(b) \/ PinsOff(b) \/ Reboot(b)
             \/ UNCHANGED padVars
      PROVE  \A a \in Boxes : pins0'[a] \subseteq pins'[a]
  <2> USE DEF ConsentInv, ArmingInv, PadTypeOK, AgesOK
  <2>1. CASE PinsOn(b)
    <3>1. pins'[b] = pins[b] \union pins0'[b]
      BY <2>1 DEF PinsOn
    <3> QED
      BY <2>1, <3>1 DEF PinsOn
  <2>2. CASE PinsOff(b) \/ Reboot(b)
    BY <2>2 DEF PinsOff, Reboot
  <2>3. CASE Sample(b) \/ PinsStayOn(b) \/ UNCHANGED padVars
    BY <2>3 DEF Sample, PinsStayOn, padVars, igniterVars
  <2> QED
    BY <1>4, <2>1, <2>2, <2>3
<1>5. AgesOK'
  BY <1>4 DEF Igniter, ConsentInv, AgesOK
<1>6. \A a \in Boxes : arm_age[a] \in Nat
  BY PadAssumption DEF ConsentInv, ArmingInv, PadTypeOK
<1>7. BoxesFollow'
  BY <1>6 DEF Igniter, ConsentInv, ArmingInv, PadTypeOK, BoxesFollow, Sample,
              PinsOn, PinsStayOn, PinsOff, Reboot, padVars, igniterVars,
              listenerVars
<1> QED
  BY <1>1, <1>2, <1>3, <1>5, <1>7 DEF ConsentInv

(* Time passes when nothing is on its way, and ages the arming of a box as *)
(* it ages the consent.                                                    *)
LEMMA TickConsent ==
  ASSUME ConsentInv, TelefireTick
  PROVE  ConsentInv'
<1> USE PadAssumption
<1>1. /\ PadTick /\ LcoTick /\ late' = {} /\ monitor = "asleep"
      /\ \A b \in Boxes : air[b] = NoMessage
  BY DEF TelefireTick, LcoTick, LcoQuiet
<1>2. PanelInv'
  BY <1>1 DEF LcoTick, linkVars, ConsentInv, PanelInv, PanelTypeOK, OneRocket
<1>3. ArmingInv'
  BY <1>1, PadTickStep DEF ConsentInv
<1>4. /\ consent_age' \in [Boxes -> [Watched -> 0 .. ConsentLimit]]
      /\ \A b \in Boxes, c \in Watched :
           /\ consent_age'[b][c] <= consent_age[b][c] + 1
           /\ ao_lco_armed /\ c \in ao_lco_selected[b] => consent_age'[b][c] = 0
  BY DEF TelefireTick, ConsentInv, AgesOK, ConsentLimit
<1>5. AgesOK'
  BY <1>1, <1>4 DEF PadTick, ConsentInv, AgesOK
<1>6. FreshCommands'
  BY <1>1, <1>4 DEF LcoTick, FreshCommands
<1>7. BoxesFollow'
  <2>1. ASSUME NEW b \in Boxes, NEW c \in ao_pad_armed[b] \cap Watched
        PROVE  consent_age'[b][c] <= arm_age'[b]
    <3>1. arm_age[b] <= ArmTime /\ arm_age[b] \in Nat
      BY <1>1, <2>1 DEF PadTick, ConsentInv, ArmingInv, SampledFresh, PadTypeOK
    <3>2. arm_age'[b] = arm_age[b] + 1
      BY <1>1, <2>1, <3>1 DEF PadTick
    <3>3. /\ consent_age[b][c] <= arm_age[b] /\ consent_age[b][c] \in Nat
          /\ consent_age'[b][c] \in Nat
      BY <1>4, <2>1 DEF ConsentInv, BoxesFollow, AgesOK, ConsentLimit
    <3> QED
      BY <1>4, <2>1, <3>1, <3>2, <3>3
  <2>2. ASSUME NEW b \in Boxes, ~igniting[b] PROVE ao_pad_ignite[b] = {}
    BY <1>1, <2>2 DEF PadTick, IgniterReady
  <2> QED
    BY <1>1, <2>1, <2>2 DEF PadTick, BoxesFollow
<1> QED
  BY <1>2, <1>3, <1>5, <1>6, <1>7 DEF ConsentInv

(* Every step that keeps the selection keeps ConsentInv.                   *)
THEOREM ConsentNextInv ==
  ConsentInv /\ [TelefireNext]_allVars /\ [KeepsSelection]_allVars => ConsentInv'
<1> SUFFICES ASSUME ConsentInv, [TelefireNext]_allVars, [KeepsSelection]_allVars
             PROVE  ConsentInv'
  OBVIOUS
<1>1. CASE UNCHANGED allVars
  <2>1. PanelInv' /\ FreshCommands' /\ AgesOK' /\ BoxesFollow'
    BY <1>1 DEF allVars, lcoVars, uiVars, linkVars, monitorLoop, teleVars, padVars,
                ConsentInv, PanelInv, PanelTypeOK, OneRocket, AgesOK,
                FreshCommands, BoxesFollow
  <2>2. ArmingInv'
    BY <1>1, ArmingStays DEF allVars, ConsentInv
  <2> QED
    BY <2>1, <2>2 DEF ConsentInv
<1>2. CASE LcoStep /\ KeepsSelection
  <2>1. late' \subseteq Boxes /\ Consent(0) /\ UNCHANGED padVars
    BY <1>2 DEF LcoStep, ConsentInv, AgesOK, PanelInv, PanelTypeOK
  <2> QED
    BY <1>2, <2>1, InputConsent, MonitorConsent DEF LcoStep
<1> QED
  BY <1>1, <1>2, DeliverConsent, BoxConsent, AnswerConsent, TickConsent
     DEF TelefireNext

(* The launch system starts with nothing armed.                            *)
THEOREM ConsentInitInv == TelefireInit => ConsentInv
<1> SUFFICES ASSUME TelefireInit PROVE ConsentInv
  OBVIOUS
<1>1. PanelInv /\ ArmingInv
  BY PanelInitInv, ArmingInit DEF TelefireInit
<1>2. FreshCommands
  BY DEF TelefireInit, PanelInit, FreshCommands
<1>3. AgesOK
  BY PadAssumption DEF TelefireInit, PadInit, AgesOK, ConsentLimit
<1>4. BoxesFollow
  BY DEF TelefireInit, PadInit, BoxesFollow
<1> QED
  BY <1>1, <1>2, <1>3, <1>4 DEF ConsentInv

LEMMA ConsentArmed == ConsentInv => ArmedByConsent
<1> SUFFICES ASSUME ConsentInv, NEW b \in Boxes,
                    NEW c \in ao_pad_armed[b] \cap Watched
             PROVE  consent_age[b][c] <= ArmTime + 1
  BY DEF ArmedByConsent
<1>1. consent_age[b][c] <= arm_age[b] /\ arm_age[b] <= ArmTime + 1
  BY DEF ConsentInv, BoxesFollow, ArmingInv, ArmExpires
<1>2. consent_age[b][c] \in Int /\ arm_age[b] \in Int
  BY DEF ConsentInv, AgesOK, ArmingInv, PadTypeOK
<1> QED
  BY <1>1, <1>2, PadAssumption

(* The only pins that go on are those a box was told to fire while its     *)
(* igniter was idle.                                                       *)
LEMMA ConsentPins ==
  ASSUME ConsentInv, [TelefireNext]_allVars, NEW b \in Boxes,
         NEW c \in (pins'[b] \ pins[b]) \cap Watched
  PROVE  consent_age[b][c] <= ArmTime + 1
<1>1. UNCHANGED pins \/ \E a \in Boxes : Igniter(a) \/ Reboot(a)
  BY DEF TelefireNext, LcoStep, Deliver, Receive, Lose, Answer, BoxStep, Sample,
         Restart, TelefireTick, PadTick, allVars, padVars, igniterVars
<1>2. PICK a \in Boxes : Igniter(a) \/ Reboot(a)
  BY <1>1
<1>3. PinsOn(b)
  BY <1>2 DEF Igniter, PinsOn, PinsStayOn, PinsOff, Reboot, ConsentInv, AgesOK,
              ArmingInv, PadTypeOK
<1>4. c \in ao_pad_ignite[b] \cap Watched /\ ~igniting[b]
  BY <1>3 DEF PinsOn, ConsentInv, ArmingInv, PadTypeOK
<1>5. consent_age[b][c] = 0
  BY <1>4 DEF ConsentInv, BoxesFollow
<1> QED
  BY <1>5, PadAssumption

(* A pad is armed, and a pin goes on, only by consent: see ArmedByConsent  *)
(* and PinsByConsent.  This holds of drag races too, as long as the        *)
(* selection is kept while the boxes are armed: see KeepsSelection.        *)
THEOREM OnlyByConsent ==
  TelefireSpec /\ [][KeepsSelection]_allVars => []ArmedByConsent /\ PinsByConsent
<1>1. ConsentInv /\ [TelefireNext]_allVars
        => [\A b \in Boxes : \A c \in (pins'[b] \ pins[b]) \cap Watched :
              consent_age[b][c] <= ArmTime + 1]_allVars
  BY ConsentPins
<1> QED
  BY <1>1, ConsentArmed, ConsentInitInv, ConsentNextInv, PTL
     DEF TelefireSpec, PinsByConsent

(* Without drag races the box knob stays off the place for them, and only  *)
(* the arm switch selects.                                                 *)
NoDrag ==
  ao_lco_box \in Boxes /\ ao_lco_drag_race = FALSE /\ ao_lco_fire_down = FALSE

LEMMA NoDragKept ==
  ASSUME HasDrag = FALSE, NoDrag, [TelefireNext]_allVars
  PROVE  NoDrag' /\ [KeepsSelection]_allVars
<1> USE LcoAssumption, CommandAssumption DEF NoDrag
<1>1. CASE UNCHANGED uiVars
  BY <1>1 DEF uiVars, KeepsSelection
<1>2. CASE Input
  <2>1. ASSUME NEW on \in BOOLEAN, SetArmed(on) PROVE NoDrag' /\ KeepsSelection
    BY <2>1 DEF SetArmed, KeepsSelection
  <2>2. ASSUME NEW on \in BOOLEAN, SetFiring(on) \/ DragButton(on)
        PROVE  NoDrag' /\ KeepsSelection
    BY <2>2 DEF SetFiring, DragButton, KeepsSelection
  <2> QED
    BY <1>2, <2>1, <2>2 DEF Input, StepPad, StepBox, DragMode, KeepsSelection
<1>3. ASSUME NEW b \in Boxes, Answer(b) PROVE NoDrag' /\ KeepsSelection
  BY <1>3 DEF Answer, QueryAnswered, KeepsSelection
<1>4. CASE MonitorStep
  <2>1. UNCHANGED uiVars
    BY <1>4 DEF MonitorStep, MonitorWake, MonitorFire, MonitorQuery, QueryTimeout,
                MonitorArming, MonitorArm, MonitorArmed
  <2> QED
    BY <1>1, <2>1
<1>5. CASE TelefireTick
  BY <1>5 DEF TelefireTick, LcoTick, KeepsSelection
<1> QED
  BY <1>1, <1>2, <1>3, <1>4, <1>5
     DEF TelefireNext, LcoStep, Deliver, Lose, BoxStep, Restart, allVars, lcoVars

(* Without drag races nothing more is needed: a pad is armed, and a pin    *)
(* goes on, only by consent.                                               *)
THEOREM ArmedOnlyByConsent ==
  ASSUME HasDrag = FALSE
  PROVE  TelefireSpec => []ArmedByConsent /\ PinsByConsent
<1>1. TelefireInit => NoDrag
  BY LeastOne, CommandAssumption DEF TelefireInit, PanelInit, NoDrag, MinBox
<1>2. NoDrag /\ [TelefireNext]_allVars => NoDrag' /\ [KeepsSelection]_allVars
  BY NoDragKept
<1>3. TelefireSpec => [][KeepsSelection]_allVars
  BY <1>1, <1>2, PTL DEF TelefireSpec
<1> QED
  BY <1>3, OnlyByConsent, PTL
=============================================================================
