----------------------------- MODULE MCAltosParts ----------------------------
(***************************************************************************)
(* The two devices of AltosTelefire, each alone with whatever its radio    *)
(* brings: a pad box that hears any command, next to one that is off, or   *)
(* the controller, which any box may answer.  The boxes it knows have one   *)
(* pad each.                                                               *)
(***************************************************************************)
EXTENDS AltosPad, AltosLco

VARIABLE alone   \* the device that is on

partsVars == <<padVars, lcoVars, alone>>

SilentBoxes == Boxes \ {MinBox}

PartsInit ==
  /\ alone \in {"pad", "lco"}
  /\ PadInit
  /\ LcoInit
  /\ \A b \in SilentBoxes : ~arm_switch[b]
  /\ alone = "lco" => /\ \A b \in Boxes : ~arm_switch[b]
                      /\ \A a, b \in Boxes : skew[a] <= skew[b]

PadPart ==
  /\ alone = "pad"
  /\ PadNext
  /\ \A b \in SilentBoxes :
       /\ ~arm_switch'[b] /\ ao_pad_ignite'[b] = {} /\ ~ao_pad_disabled'[b]
       /\ skew'[b] = skew[b]
  /\ UNCHANGED <<lcoVars, alone>>

LcoPart ==
  /\ alone = "lco"
  /\ LcoNext
  /\ \A b \in Boxes : ao_lco_channels'[b] \subseteq {1}
  /\ UNCHANGED <<padVars, alone>>

PartsSpec == PartsInit /\ [][PadPart \/ LcoPart]_partsVars
=============================================================================
