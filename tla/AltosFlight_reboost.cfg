CONSTANTS
  BoostMax = 2
  Lockout = 5
  IntervalTime = 2
  AvgTime = 2
  MaxMotors = 2
SPECIFICATION FlightSpec
INVARIANT ReBoostSeen
