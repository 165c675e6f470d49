CONSTANTS
  BoostMax = 1
  Lockout = 4
  IntervalTime = 4
  AvgTime = 1
  MaxMotors = 1
  FireTime = 1
  ChargeTime = 1
  Delays = {0, 1, 3}
  Pyros = {1, 2}
  PyroConfigs <- MCPyroConfigs
  PyroTime = 1
  GapTime = 1
  Period = 1
SPECIFICATION BoardSpec
INVARIANT NoPulseOnGround
INVARIANT LockedOut
INVARIANT PyroHeld
PROPERTY LandedAtRest
PROPERTY Lands
PROPERTY ChargesApart
PROPERTY BoardChargesFire
PROPERTY PyrosInFlight
PROPERTY PyroFires
