----------------------------- MODULE MCAltosBoard -----------------------------
(***************************************************************************)
(* The flight computer of a board with what fires its charges: the igniter *)
(* or the pyro channels, of which the other is left alone.  They meet in   *)
(* the state of the flight only.                                           *)
(***************************************************************************)
EXTENDS AltosIgnite, AltosPyro

VARIABLE fires   \* "igniter" or "pyro"

igniterOwn == <<configVars, taskVars, fired, pins, manualVars, apogee_age>>
pyroOwn == <<pyro, pyroState, pyroTask, manualPyro, doubted>>
boardVars == <<igniteVars, pyroVars, fires>>

(* A channel that is off, an air start, and one that asks for a height.    *)
Off == [on |-> FALSE, sensed |-> FALSE, motor |-> 0, delay |-> 0,
        from |-> "startup", before |-> "invalid"]
AirStart == [on |-> TRUE, sensed |-> TRUE, motor |-> 1, delay |-> 2,
             from |-> "boost", before |-> "drogue"]
Height == [on |-> TRUE, sensed |-> TRUE, motor |-> 0, delay |-> 0,
           from |-> "startup", before |-> "invalid"]

MCPyroConfigs == {Off, AirStart, Height}

(* The channels are alike: of two mirrored configurations one is enough.   *)
MCPyros == {<<AirStart, AirStart>>, <<AirStart, Height>>, <<Off, Height>>}

BoardInit ==
  /\ fires \in {"igniter", "pyro"}
  /\ IgniteInit /\ PyroInit
  /\ fires = "igniter" => pyro = [p \in Pyros |-> Off]
  /\ fires = "pyro" => /\ pyro \in MCPyros
                       /\ ignite_mode = "DUAL"
                       /\ apogee_delay = CHOOSE n \in Delays : TRUE

WithIgniter(Step) == fires = "igniter" /\ Step /\ UNCHANGED <<pyroOwn, fires>>
WithPyros(Step) == fires = "pyro" /\ Step /\ UNCHANGED <<igniterOwn, fires>>

(* The fairness of IgniteSpec and of PyroSpec.                             *)
BoardSpec ==
  /\ BoardInit
  /\ [][WithIgniter(IgniteNext) \/ WithPyros(PyroNext)]_boardVars
  /\ WF_boardVars(WithIgniter(Sampled)) /\ WF_boardVars(WithIgniter(Igniter))
  /\ WF_boardVars(WithIgniter(ManualEnds))
  /\ WF_boardVars(WithIgniter(IgniteTick))
  /\ WF_boardVars(WithPyros(PyroSampled)) /\ WF_boardVars(WithPyros(PyroTurn))
  /\ WF_boardVars(WithPyros(PyroTick))

(* ChargesFire, of the board with an igniter.                              *)
BoardChargesFire == fires = "igniter" => ChargesFire
=============================================================================
