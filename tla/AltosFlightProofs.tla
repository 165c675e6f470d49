-------------------------- MODULE AltosFlightProofs --------------------------
(***************************************************************************)
(* Proofs about a flight computer.  AltosFlight, for any limits and any    *)
(* lockout: its types, of which the limit of a boost is part; that a       *)
(* rocket found landed has been at rest for an interval; and that without  *)
(* a lockout of apogee a motor that lights during the coast is seen.       *)
(* AltosIgnite, for any limits, delays and times: its types, that the      *)
(* apogee charge is not fired in the lockout, that no charge fires on the  *)
(* ground, and that the charges fire apart.  AltosPyro, for any channels,  *)
(* configurations and times: its types, that a channel doubted during its  *)
(* delay never fires, and that channels fire in flight only.               *)
(***************************************************************************)
EXTENDS AltosIgnite, AltosPyro, TLAPS

StateNames == {"startup", "idle", "pad", "boost", "fast", "coast", "drogue",
               "main", "landed", "invalid"}

(* The ten states by name.                                                 *)
LEMMA StatesByName == {States[i] : i \in DOMAIN States} = StateNames
<1>1. DOMAIN States = 1 .. 10
  BY DEF States
<1>2. /\ States[1] = "startup" /\ States[2] = "idle" /\ States[3] = "pad"
      /\ States[4] = "boost" /\ States[5] = "fast" /\ States[6] = "coast"
      /\ States[7] = "drogue" /\ States[8] = "main" /\ States[9] = "landed"
      /\ States[10] = "invalid"
  BY DEF States
<1>3. ASSUME NEW i \in 1 .. 10 PROVE States[i] \in StateNames
  <2>1. i = 1 \/ i = 2 \/ i = 3 \/ i = 4 \/ i = 5 \/ i = 6 \/ i = 7 \/ i = 8
          \/ i = 9 \/ i = 10
    OBVIOUS
  <2> QED BY <2>1, <1>2 DEF StateNames
<1>4. ASSUME NEW s \in StateNames PROVE \E i \in 1 .. 10 : States[i] = s
  BY <1>2 DEF StateNames
<1> QED BY <1>1, <1>3, <1>4

(* FlightTypeOK with the states by name.                                   *)
Types ==
  /\ ao_flight_state \in StateNames
  /\ boost_age \in 0 .. BoostMax + 1
  /\ launch_age \in 0 .. Lockout
  /\ ao_motor_number \in 0 .. MaxMotors
  /\ interval_left \in 0 .. IntervalTime
  /\ ao_coast_avg_accel \in 0 .. AvgTime
  /\ interval_quiet \in BOOLEAN /\ due \in BOOLEAN
  /\ rest \in 0 .. IntervalTime
  /\ thrust \in 0 .. AvgTime

LEMMA TypesByName == Types => FlightTypeOK
<1> DEFINE S == {States[i] : i \in DOMAIN States}
<1>1. S = StateNames
  BY StatesByName
<1>2. ao_flight_state \in StateNames => ao_flight_state \in S
  BY <1>1
<1> QED BY <1>2 DEF Types, FlightTypeOK

(* The next sample finds a boost that has reached its limit.               *)
BoostEnds == ao_flight_state = "boost" /\ ~due => boost_age <= BoostMax

(* While the heights of an interval are within their bounds, the rocket    *)
(* has been at rest for the part of the interval that is over.             *)
RestCounted ==
  ao_flight_state = "main" =>
    /\ ~due => interval_left >= 1
    /\ ~due /\ interval_quiet => rest + interval_left >= IntervalTime
    /\ due /\ interval_quiet => rest + interval_left + 1 >= IntervalTime

FlightInv == Types /\ BoostEnds /\ RestCounted

LEMMA FlightInvInit == FlightInit => FlightInv
<1> SUFFICES ASSUME FlightInit PROVE FlightInv
  OBVIOUS
<1>1. interval_quiet \in BOOLEAN /\ due \in BOOLEAN
  BY Zenon DEF FlightInit
<1>2. ao_flight_state \in StateNames /\ BoostEnds /\ RestCounted
  BY DEF FlightInit, BoostEnds, RestCounted, StateNames
<1>3. /\ boost_age = 0 /\ launch_age = 0 /\ ao_motor_number = 0
      /\ interval_left = 0 /\ ao_coast_avg_accel = 0
      /\ rest = 0 /\ thrust = 0
  BY DEF FlightInit
<1>4. /\ 0 \in 0 .. BoostMax + 1 /\ 0 \in 0 .. Lockout /\ 0 \in 0 .. MaxMotors
      /\ 0 \in 0 .. IntervalTime /\ 0 \in 0 .. AvgTime
  BY FlightAssumption
<1> QED BY <1>1, <1>2, <1>3, <1>4, Zenon DEF FlightInv, Types

LEMMA SumAtLeast == ASSUME NEW a \in Nat, NEW b \in Nat PROVE a + b >= b
  OBVIOUS

(* One sample keeps the invariant, and lands only a rocket at rest.        *)
LEMMA SampleInv ==
  ASSUME FlightInv, FlightSample
  PROVE  /\ FlightInv'
         /\ ao_flight_state' = "landed" /\ ao_flight_state # "landed"
              => rest' = IntervalTime
<1> USE FlightAssumption
    DEF FlightInv, Types, BoostEnds, RestCounted, StateNames, UpTo
<1>1. PICK d \in Samples :
        /\ \/ Startup \/ Pad(d) \/ Boost(d) \/ Fast(d) \/ Coast(d)
           \/ Drogue(d) \/ Main(d) \/ Other
        /\ rest' = IF ao_flight_state = "main" /\ ~d.moved
                     THEN UpTo(rest, IntervalTime) ELSE 0
        /\ thrust' = IF ao_flight_state = "coast" /\ d.accel = "boosting"
                       THEN UpTo(thrust, AvgTime) ELSE 0
  BY DEF FlightSample
<1>2. due /\ due' = FALSE
  BY DEF FlightSample
<1>3. rest' \in 0 .. IntervalTime /\ thrust' \in 0 .. AvgTime
  BY <1>1
<1> due' \in BOOLEAN /\ ~due'
  BY <1>2, Zenon
<1>4. CASE Startup
  BY <1>1, <1>2, <1>3, <1>4 DEF Startup, intervalVars
<1>5. CASE Pad(d)
  <2>1. /\ UNCHANGED <<ao_motor_number, interval_left, interval_quiet,
                       ao_coast_avg_accel>>
        /\ ao_flight_state = "pad"
    BY <1>5 DEF Pad, intervalVars
  <2>2. \/ ao_flight_state' = "boost" /\ boost_age' = 0 /\ launch_age' = 0
        \/ UNCHANGED <<ao_flight_state, boost_age, launch_age>>
    BY <1>5 DEF Pad
  <2>3. Types'
    <3>1. interval_quiet' \in BOOLEAN
      BY <2>1, Zenon
    <3> QED BY <2>1, <2>2, <3>1, <1>3
  <2>4. BoostEnds' /\ RestCounted'
    BY <2>1, <2>2
  <2> QED BY <2>1, <2>2, <2>3, <2>4
<1>6. CASE Boost(d)
  <2>1. /\ UNCHANGED <<boost_age, launch_age, interval_left, interval_quiet>>
        /\ ao_flight_state = "boost"
    BY <1>6 DEF Boost, intervalVars
  <2>2. ao_coast_avg_accel' \in 0 .. AvgTime
    BY <1>6 DEF Boost
  <2>3. \/ /\ ao_flight_state' = "fast"
           /\ ao_motor_number' = UpTo(ao_motor_number, MaxMotors)
        \/ /\ UNCHANGED <<ao_flight_state, ao_motor_number>>
           /\ ~(boost_age > BoostMax)
    BY <1>6 DEF Boost
  <2>4. Types'
    <3>1. interval_quiet' \in BOOLEAN
      BY <2>1, Zenon
    <3> QED BY <2>1, <2>2, <2>3, <3>1, <1>3
  <2>5. BoostEnds' /\ RestCounted'
    BY <2>1, <2>3
  <2> QED BY <2>1, <2>3, <2>4, <2>5
<1>7. ASSUME CheckReBoost(d), ao_flight_state \in {"fast", "coast"}
      PROVE  /\ FlightInv'
             /\ ao_flight_state' # "landed"
  <2>1. ao_coast_avg_accel' \in 0 .. AvgTime
    BY <1>7 DEF CheckReBoost, NextAverage
  <2>2. UNCHANGED <<launch_age, ao_motor_number, interval_left, interval_quiet>>
    BY <1>7 DEF CheckReBoost, intervalVars
  <2>3. \/ ao_flight_state' = "boost" /\ boost_age' = 0
        \/ UNCHANGED <<ao_flight_state, boost_age>>
    BY <1>7 DEF CheckReBoost
  <2>4. Types'
    <3>1. interval_quiet' \in BOOLEAN
      BY <2>2, Zenon
    <3> QED BY <2>1, <2>2, <2>3, <3>1, <1>3, <1>7
  <2>5. BoostEnds' /\ RestCounted'
    BY <2>3, <1>7
  <2> QED BY <2>3, <2>4, <2>5, <1>7
<1>8. CASE Fast(d)
  BY <1>1, <1>2, <1>3, <1>7, <1>8 DEF Fast, intervalVars
<1>9. CASE Coast(d)
  BY <1>1, <1>2, <1>3, <1>7, <1>9 DEF Coast, intervalVars
<1>10. CASE Drogue(d)
  <2>1. /\ UNCHANGED <<boost_age, launch_age, ao_motor_number, ao_coast_avg_accel>>
        /\ ao_flight_state = "drogue"
    BY <1>10 DEF Drogue
  <2>2. \/ /\ ao_flight_state' = "main"
           /\ interval_left' = IntervalTime /\ interval_quiet' = TRUE
        \/ UNCHANGED <<ao_flight_state, interval_left, interval_quiet>>
    BY <1>10 DEF Drogue, intervalVars
  <2>3. interval_quiet' \in BOOLEAN /\ due' \in BOOLEAN
    BY <1>2, <2>2
  <2>4. interval_left' \in 0 .. IntervalTime
    BY <2>2
  <2>5. Types'
    BY <2>1, <2>2, <2>3, <2>4, <1>3
  <2>6. BoostEnds' /\ RestCounted'
    BY <2>1, <2>2, <1>2, <1>3
  <2> QED BY <2>1, <2>2, <2>5, <2>6
<1>11. CASE Main(d)
  <2>1. /\ UNCHANGED <<boost_age, launch_age, ao_motor_number, ao_coast_avg_accel>>
        /\ ao_flight_state = "main"
    BY <1>11 DEF Main
  <2>2. CASE interval_left = 0
    <3>1. /\ interval_left' = IntervalTime /\ interval_quiet' = TRUE
          /\ ao_flight_state' \in {"main", "landed"}
          /\ ao_flight_state' = "landed" => interval_quiet /\ ~d.moved
      BY <1>11, <2>2 DEF Main
    <3>2. Types'
      <4>1. interval_quiet' \in BOOLEAN
        BY <3>1, Zenon
      <4>2. interval_left' \in 0 .. IntervalTime /\ ao_flight_state' \in StateNames
        BY <3>1
      <4> QED BY <2>1, <4>1, <4>2, <1>3
    <3>3. BoostEnds' /\ RestCounted'
      <4>1. interval_left' = IntervalTime /\ ao_flight_state' # "boost"
        BY <3>1
      <4>2. IntervalTime >= 1
        OBVIOUS
      <4>3. rest' + IntervalTime >= IntervalTime
        <5>1. rest' \in Nat /\ IntervalTime \in Nat
          BY <1>3
        <5> QED BY <5>1, SumAtLeast, Zenon
      <4> QED BY <4>1, <4>2, <4>3
    <3>4. ASSUME ao_flight_state' = "landed" PROVE rest' = IntervalTime
      <4>1. rest + 1 >= IntervalTime
        BY <2>1, <2>2, <3>1, <3>4, <1>2
      <4> QED BY <1>1, <2>1, <3>1, <3>4, <4>1
    <3> QED BY <3>2, <3>3, <3>4
  <2>3. CASE interval_left # 0
    <3>1. /\ UNCHANGED <<ao_flight_state, interval_left>>
          /\ interval_quiet' = (interval_quiet /\ ~d.moved)
      BY <1>11, <2>3 DEF Main
    <3>2. Types'
      <4>1. interval_quiet' \in BOOLEAN
        BY <3>1, Zenon
      <4> QED BY <2>1, <3>1, <4>1, <1>2, <1>3
    <3>3. interval_left' >= 1
      BY <2>3, <3>1
    <3>4. ASSUME interval_quiet' = TRUE
          PROVE  rest' + interval_left' >= IntervalTime
      <4>1. interval_quiet /\ ~d.moved
        BY <3>1, <3>4, Zenon
      <4>2. rest + interval_left + 1 >= IntervalTime
        BY <4>1, <2>1, <1>2
      <4> QED BY <4>1, <4>2, <3>1, <2>1, <1>1
    <3>5. RestCounted'
      BY <3>3, <3>4, <1>2
    <3>6. BoostEnds'
      BY <2>1, <3>1
    <3> QED BY <2>1, <3>1, <3>2, <3>5, <3>6
  <2> QED BY <2>2, <2>3
<1>12. CASE Other
  BY <1>1, <1>2, <1>3, <1>12 DEF Other, intervalVars
<1> QED BY <1>1, <1>4, <1>5, <1>6, <1>8, <1>9, <1>10, <1>11, <1>12

LEMMA TickInv ==
  ASSUME FlightInv, FlightTick
  PROVE  FlightInv' /\ ao_flight_state' = ao_flight_state
  BY FlightAssumption
  DEF FlightInv, Types, BoostEnds, RestCounted, FlightTick, UpTo

LEMMA FlightInvariance == FlightSpec => []FlightInv
<1>1. FlightInv /\ [FlightNext]_flightVars => FlightInv'
  <2> SUFFICES ASSUME FlightInv, [FlightNext]_flightVars PROVE FlightInv'
    OBVIOUS
  <2>1. CASE FlightSample
    BY <2>1, SampleInv
  <2>2. CASE FlightTick
    BY <2>2, TickInv
  <2>3. CASE UNCHANGED flightVars
    BY <2>3 DEF flightVars, FlightInv, Types, BoostEnds, RestCounted
  <2> QED BY <2>1, <2>2, <2>3 DEF FlightNext
<1> QED BY <1>1, FlightInvInit, PTL DEF FlightSpec

(* The state of the flight task keeps its types; in particular no boost    *)
(* goes on beyond its limit and one sample (ao_flight.c:274).              *)
THEOREM FlightTypes == FlightSpec => []FlightTypeOK
<1>1. FlightInv => FlightTypeOK
  BY TypesByName DEF FlightInv
<1> QED BY <1>1, FlightInvariance, PTL

(* A flight lands only after an interval at rest (ao_flight.c:442).        *)
THEOREM LandsOnlyAtRest == FlightSpec => LandedAtRest
<1>1. FlightInv /\ [FlightNext]_flightVars
        => [ao_flight_state' = "landed" /\ ao_flight_state # "landed"
              => rest' = IntervalTime]_flightVars
  BY SampleInv, TickInv DEF FlightNext
<1> QED BY <1>1, FlightInvariance, PTL DEF FlightSpec, LandedAtRest

-----------------------------------------------------------------------------
(* In coast the average has risen with every sample over 20 m/s2.          *)
AverageRises ==
  ao_flight_state = "coast" => thrust <= ao_coast_avg_accel /\ thrust < AvgTime

(* Without a lockout a motor that lights while the rocket coasts brings it *)
(* back to boost (ao_flight.c:387).                                        *)
THEOREM ReBoostWithoutLockout ==
  ASSUME Lockout = 0
  PROVE  FlightSpec => []ReBoostSeen
<1>1. FlightInit => AverageRises
  BY DEF FlightInit, AverageRises
<1>2. FlightInv /\ AverageRises /\ [FlightNext]_flightVars => AverageRises'
  <2> SUFFICES ASSUME FlightInv, AverageRises, [FlightNext]_flightVars,
                      ao_flight_state' = "coast"
               PROVE  thrust' <= ao_coast_avg_accel' /\ thrust' < AvgTime
    BY DEF AverageRises
  <2> USE FlightAssumption, Lockout = 0
      DEF FlightInv, Types, AverageRises, UpTo
  <2>1. ASSUME NEW d \in Samples,
               thrust' = IF ao_flight_state = "coast" /\ d.accel = "boosting"
                           THEN UpTo(thrust, AvgTime) ELSE 0,
               Fast(d)
        PROVE  thrust' <= ao_coast_avg_accel' /\ thrust' < AvgTime
    <3>1. ao_coast_avg_accel' \in 0 .. AvgTime
      BY <2>1 DEF Fast, CheckReBoost, NextAverage
    <3> QED BY <2>1, <3>1 DEF Fast
  <2>2. ASSUME NEW d \in Samples,
               thrust' = IF ao_flight_state = "coast" /\ d.accel = "boosting"
                           THEN UpTo(thrust, AvgTime) ELSE 0,
               Coast(d)
        PROVE  thrust' <= ao_coast_avg_accel' /\ thrust' < AvgTime
    <3>1. CheckReBoost(d) /\ ao_flight_state = "coast"
      BY <2>2 DEF Coast
    <3>2. ao_coast_avg_accel' # AvgTime
      BY <3>1 DEF CheckReBoost
    <3> QED BY <2>2, <3>1, <3>2 DEF CheckReBoost, NextAverage
  <2>3. CASE FlightSample
    <3>1. PICK d \in Samples :
            /\ \/ Startup \/ Pad(d) \/ Boost(d) \/ Fast(d) \/ Coast(d)
               \/ Drogue(d) \/ Main(d) \/ Other
            /\ thrust' = IF ao_flight_state = "coast" /\ d.accel = "boosting"
                           THEN UpTo(thrust, AvgTime) ELSE 0
      BY <2>3 DEF FlightSample
    <3> QED BY <3>1, <2>1, <2>2
         DEF Startup, Pad, Boost, Drogue, Main, Other
  <2>4. CASE FlightTick
    BY <2>4 DEF FlightTick
  <2>5. CASE UNCHANGED flightVars
    BY <2>5 DEF flightVars
  <2> QED BY <2>3, <2>4, <2>5 DEF FlightNext
<1>3. AverageRises /\ FlightInv => ReBoostSeen
  BY FlightAssumption DEF AverageRises, ReBoostSeen, FlightInv, Types
<1> QED BY <1>1, <1>2, <1>3, FlightInvariance, PTL DEF FlightSpec

-----------------------------------------------------------------------------
(* The place of each state in the enumeration.                             *)
LEMMA RankByName ==
  /\ Rank("startup") = 1 /\ Rank("idle") = 2 /\ Rank("pad") = 3
  /\ Rank("boost") = 4 /\ Rank("fast") = 5 /\ Rank("coast") = 6
  /\ Rank("drogue") = 7 /\ Rank("main") = 8 /\ Rank("landed") = 9
  /\ Rank("invalid") = 10
<1>1. DOMAIN States = 1 .. 10
  BY DEF States
<1>2. /\ States[1] = "startup" /\ States[2] = "idle" /\ States[3] = "pad"
      /\ States[4] = "boost" /\ States[5] = "fast" /\ States[6] = "coast"
      /\ States[7] = "drogue" /\ States[8] = "main" /\ States[9] = "landed"
      /\ States[10] = "invalid"
  BY DEF States
<1>3. \A i, j \in 1 .. 10 : States[i] = States[j] => i = j
  BY <1>2
<1>4. ASSUME NEW i \in 1 .. 10 PROVE Rank(States[i]) = i
  BY <1>1, <1>3, <1>4 DEF Rank
<1> QED BY <1>2, <1>4

LEMMA InFlightByName ==
  ASSUME ao_flight_state \in StateNames
  PROVE  /\ InFlight("boost") <=>
              ao_flight_state \in {"boost", "fast", "coast", "drogue", "main"}
         /\ InFlight("fast") <=>
              ao_flight_state \in {"fast", "coast", "drogue", "main"}
         /\ InFlight("drogue") <=> ao_flight_state \in {"drogue", "main"}
         /\ InFlight("main") <=> ao_flight_state = "main"
BY RankByName DEF StateNames, InFlight, Reached

(* What a sample does to the state of the flight, the time since the       *)
(* launch and the time at rest.                                            *)
LEMMA SampleMoves ==
  ASSUME FlightInv, FlightSample
  PROVE  /\ due /\ ~due'
         /\ rest' \in {0, UpTo(rest, IntervalTime)}
         /\ ao_flight_state = "drogue" => rest' = 0
         /\ \/ ao_flight_state' = ao_flight_state /\ launch_age' = launch_age
            \/ /\ ao_flight_state \in {"startup", "pad"}
               /\ ao_flight_state' \notin {"drogue", "main", "landed"}
            \/ /\ ao_flight_state \in {"boost", "fast", "coast"}
               /\ ao_flight_state' \in {"boost", "fast", "coast"}
               /\ launch_age' = launch_age
            \/ /\ ao_flight_state = "coast" /\ ao_flight_state' = "drogue"
               /\ launch_age >= Lockout /\ launch_age' = launch_age
            \/ /\ ao_flight_state = "drogue" /\ ao_flight_state' = "main"
               /\ launch_age' = launch_age
            \/ /\ ao_flight_state = "main" /\ ao_flight_state' = "landed"
               /\ launch_age' = launch_age
<1>1. PICK d \in Samples :
        /\ \/ Startup \/ Pad(d) \/ Boost(d) \/ Fast(d) \/ Coast(d)
           \/ Drogue(d) \/ Main(d) \/ Other
        /\ rest' = IF ao_flight_state = "main" /\ ~d.moved
                     THEN UpTo(rest, IntervalTime) ELSE 0
  BY DEF FlightSample
<1>2. due /\ ~due'
  BY DEF FlightSample
<1>3. CASE Startup \/ Pad(d)
  BY <1>1, <1>2, <1>3 DEF Startup, Pad
<1>4. CASE Boost(d) \/ Fast(d)
  BY <1>1, <1>2, <1>4 DEF Boost, Fast, CheckReBoost
<1>5. CASE Coast(d)
  BY <1>1, <1>2, <1>5 DEF Coast, CheckReBoost
<1>6. CASE Drogue(d) \/ Main(d)
  BY <1>1, <1>2, <1>6 DEF Drogue, Main
<1>7. CASE Other
  BY <1>1, <1>2, <1>7 DEF Other
<1> QED BY <1>1, <1>3, <1>4, <1>5, <1>6, <1>7

-----------------------------------------------------------------------------
(* The igniter.                                                            *)
Up == {"boost", "fast", "coast", "drogue", "main", "landed"}

-----------------------------------------------------------------------------
(* The tests of the plans, and what is left of what they fire.             *)
TestSet ==
  {Test("drogue", <<"drogue">>), Test("main", <<"main">>),
   Test("drogue", <<"drogue", "main">>), Test("main", <<"drogue", "main">>),
   Test("fast", <<"main">>)}
FireSet == {<<>>, <<"drogue">>, <<"main">>, <<"drogue", "main">>}

Firing == igniter \in {"delay", "fire", "charge"}

IgniteTypes ==
  /\ ignite_mode \in Modes /\ apogee_delay \in Delays
  /\ igniter \in {"asleep", "woken", "running", "delay", "fire", "charge"}
  /\ wait_left \in Nat /\ manual_left \in 0 .. FireTime
  /\ tests \in Seq(TestSet)
  /\ charges \in FireSet
  /\ Firing => charges # <<>>
  /\ igniter \in {"asleep", "woken"} => charges = <<>>
  /\ fired \subseteq Charges
  /\ manual \subseteq Charges
  /\ pins = manual \union IF igniter = "fire" THEN {Head(charges)} ELSE {}
  /\ apogee_age \in 0 .. ChargeTime

(* What is fired is marked so; the igniter and the command task do not     *)
(* fire the same charge, and the igniter has charges to fire only in       *)
(* flight or after it.                                                     *)
Apart ==
  /\ manual \subseteq fired
  /\ Firing => Head(charges) \in fired
  /\ igniter \in {"delay", "fire"} => Head(charges) \notin manual
  /\ charges # <<>> => ao_flight_state \in Up

(* The lockout is over when the drogue charge is due.                      *)
DrogueUnlocked ==
  /\ ao_flight_state \in {"drogue", "main", "landed"} => launch_age = Lockout
  /\ charges \in {<<"drogue">>, <<"drogue", "main">>} => launch_age = Lockout

(* How long the igniter may still be firing: what is left of its delays,   *)
(* and the charges that have not been fired.                               *)
Unfired ==
  (IF "drogue" \in fired THEN 0 ELSE apogee_delay + FireTime)
    + (IF "main" \in fired THEN 0 ELSE FireTime)
After == IF fired = Charges THEN 0 ELSE ChargeTime + Unfired
Left ==
  IF igniter = "delay" THEN wait_left + FireTime + After
  ELSE IF igniter = "fire" THEN wait_left + After
  ELSE IF igniter = "charge"
    THEN IF fired = Charges THEN 0 ELSE wait_left + Unfired
  ELSE Unfired + IF fired = {} THEN ChargeTime ELSE 0

Longest == apogee_delay + 2 * FireTime + ChargeTime

Active ==
  igniter \in {"delay", "fire"} \/ (igniter # "asleep" /\ fired # Charges)

(* Under the main parachute the time at rest and what the igniter still    *)
(* has to do are together no longer than all it has to do at most.         *)
InTime ==
  /\ Left <= Longest
  /\ ao_flight_state = "main" /\ Active =>
       Left + rest + (IF due THEN 1 ELSE 0) <= Longest
  /\ ao_flight_state = "landed" /\ Active /\ charges # <<>> =>
       Longest >= IntervalTime

IgniteInv ==
  FlightInv /\ IgniteTypes /\ Apart /\ DrogueUnlocked /\ InTime

LEMMA LeftIsNat ==
  ASSUME IgniteTypes
  PROVE  Left \in Nat /\ Longest \in Nat /\ Unfired \in Nat /\ After \in Nat
<1>1. apogee_delay \in Nat /\ FireTime \in Nat /\ ChargeTime \in Nat
  BY IgniteAssumption DEF IgniteTypes
<1>2. Unfired \in Nat
  BY <1>1 DEF Unfired
<1>3. After \in Nat
  BY <1>1, <1>2 DEF After
<1> QED BY <1>1, <1>2, <1>3 DEF Left, Longest, IgniteTypes

LEMMA ShortSeqs ==
  ASSUME NEW S, NEW a \in S, NEW b \in S
  PROVE  <<a>> \in Seq(S) /\ <<a, b>> \in Seq(S)
OBVIOUS

LEMMA PlanTests == ASSUME NEW m \in Modes PROVE Plan(m) \in Seq(TestSet)
<1> DEFINE A == Test("drogue", <<"drogue">>)
           B == Test("main", <<"main">>)
           C == Test("drogue", <<"drogue", "main">>)
           D == Test("main", <<"drogue", "main">>)
           E == Test("fast", <<"main">>)
<1>1. \/ Plan(m) = <<A, B>> \/ Plan(m) = <<C>> \/ Plan(m) = <<D>>
      \/ Plan(m) = <<E, A>>
  <2>1. CASE m = "DUAL"     BY <2>1, Zenon DEF Plan
  <2>2. CASE m = "APOGEE"   BY <2>2, Zenon DEF Plan
  <2>3. CASE m = "MAIN"     BY <2>3, Zenon DEF Plan
  <2>4. CASE m = "BOOSTER"  BY <2>4, Zenon DEF Plan
  <2> QED BY <2>1, <2>2, <2>3, <2>4 DEF Modes
<1>2. TestSet = {A, B, C, D, E}
  BY DEF TestSet
<1> HIDE DEF A, B, C, D, E
<1>3. /\ A \in TestSet /\ B \in TestSet /\ C \in TestSet /\ D \in TestSet
      /\ E \in TestSet
  BY <1>2
<1> QED BY <1>1, <1>3, ShortSeqs, Zenon

LEMMA FireHeads ==
  /\ Head(<<"drogue">>) = "drogue" /\ Head(<<"main">>) = "main"
  /\ Head(<<"drogue", "main">>) = "drogue"
  /\ Tail(<<"drogue">>) = <<>> /\ Tail(<<"main">>) = <<>>
  /\ Tail(<<"drogue", "main">>) = <<"main">>
  /\ <<>> # <<"drogue">> /\ <<>> # <<"main">> /\ <<>> # <<"drogue", "main">>
  /\ <<"drogue">> # <<"main">> /\ <<"drogue">> # <<"drogue", "main">>
  /\ <<"main">> # <<"drogue", "main">>
OBVIOUS

LEMMA IgniteInitInv == IgniteInit => IgniteInv
<1> SUFFICES ASSUME IgniteInit PROVE IgniteInv
  OBVIOUS
<1>1. FlightInv
  BY FlightInvInit DEF IgniteInit
<1>2. IgniteTypes /\ Apart
  BY IgniteAssumption DEF IgniteInit, IgniteTypes, Apart, Firing, FireSet
<1>3. DrogueUnlocked
  BY FireHeads DEF IgniteInit, FlightInit, DrogueUnlocked
<1>4. InTime
  <2>1. fired = {} /\ igniter = "asleep" /\ ao_flight_state = "startup"
    BY DEF IgniteInit, FlightInit
  <2>2. Left = apogee_delay + FireTime + FireTime + ChargeTime
    BY <2>1, <1>2, IgniteAssumption DEF Left, Unfired, IgniteTypes
  <2> QED BY <2>1, <2>2, <1>2, IgniteAssumption DEF InTime, Longest, IgniteTypes
<1> QED BY <1>1, <1>2, <1>3, <1>4 DEF IgniteInv

LEMMA NothingMore ==
  ASSUME NEW a \in Nat, NEW b \in Nat, NEW n \in Nat, a + b <= n
  PROVE  a + b + 0 <= n
OBVIOUS

LEMMA OneLater ==
  ASSUME NEW a \in Nat, NEW b \in Nat, NEW c \in Nat, NEW n \in Nat,
         a + b + 1 <= n, c <= b + 1
  PROVE  a + c <= n
OBVIOUS

LEMMA NatSums ==
  ASSUME NEW a \in Nat, NEW b \in Nat, NEW c \in Nat
  PROVE  a + b \in Nat /\ a + b + c \in Nat
OBVIOUS

-----------------------------------------------------------------------------
(* The flight task samples: only here does the state of the flight change. *)
LEMMA SampledInv == IgniteInv /\ Sampled => IgniteInv'
<1> SUFFICES ASSUME IgniteInv, Sampled PROVE IgniteInv'
  OBVIOUS
<1>1. FlightSample /\ FlightInv /\ FlightInv'
  BY SampleInv DEF Sampled, IgniteInv
<1>2. /\ UNCHANGED <<ignite_mode, apogee_delay, wait_left, charges, fired, pins,
                     manual, manual_left, apogee_age>>
      /\ igniter # "running"
      /\ \/ igniter = "asleep" /\ igniter' = "woken" /\ tests' = Plan(ignite_mode)
            /\ ao_flight_state' # ao_flight_state
         \/ UNCHANGED <<igniter, tests>>
            /\ (igniter = "asleep" => ao_flight_state' = ao_flight_state)
  BY DEF Sampled, configVars, manualVars
<1>3. IgniteTypes'
  <2>1. tests' \in Seq(TestSet)
    BY <1>2, PlanTests DEF IgniteInv, IgniteTypes
  <2> QED BY <1>2, <2>1 DEF IgniteInv, IgniteTypes, Firing
<1>4. Apart'
  BY <1>1, <1>2, SampleMoves
  DEF IgniteInv, IgniteTypes, Apart, Firing, Up
<1>5. DrogueUnlocked'
  <2>1. launch_age \in 0 .. Lockout /\ launch_age' \in 0 .. Lockout /\ Lockout \in Nat
    BY <1>1, FlightAssumption DEF FlightInv, Types
  <2>2. ao_flight_state' \in {"drogue", "main", "landed"} => launch_age' = Lockout
    BY <1>1, <2>1, SampleMoves DEF IgniteInv, DrogueUnlocked
  <2>3. charges # <<>> => launch_age' = launch_age
    BY <1>1, SampleMoves DEF IgniteInv, Apart, Up
  <2> QED BY <1>2, <2>2, <2>3, FireHeads DEF IgniteInv, DrogueUnlocked
<1>6. InTime'
  <2>1. Left' = Left /\ Longest' = Longest /\ Left \in Nat /\ Longest \in Nat
    <3>1. UNCHANGED <<Unfired, After, Longest>>
      BY <1>2 DEF Unfired, After, Longest
    <3>2. Left' = Left
      BY <1>2, <3>1 DEF Left
    <3> QED BY <3>1, <3>2, LeftIsNat DEF IgniteInv
  <2>2. due /\ ~due' /\ rest' \in {0, UpTo(rest, IntervalTime)} /\ rest \in Nat
    BY <1>1, SampleMoves DEF FlightInv, Types
  <2>3. /\ UpTo(rest, IntervalTime) \in Nat
        /\ UpTo(rest, IntervalTime) <= rest + 1 /\ IntervalTime \in Nat
    BY <1>1, FlightAssumption DEF FlightInv, Types, UpTo
  <2>4. Left + rest' <= Longest \/ ~(ao_flight_state' = "main" /\ Active')
    <3>1. CASE ao_flight_state = "main" /\ Active
      <4>1. Left + rest + (IF due THEN 1 ELSE 0) <= Longest
        BY <3>1 DEF IgniteInv, InTime
      <4>2. Left + rest + 1 <= Longest
        BY <4>1, <2>2
      <4>3. rest' <= rest + 1 /\ rest' \in Nat
        BY <2>2, <2>3
      <4>4. Left + rest' <= Longest
        BY <4>2, <4>3, <2>1, <2>2, OneLater, Zenon
      <4> QED BY <4>4
    <3>2. CASE ao_flight_state = "main" /\ ~Active /\ ao_flight_state' = "main"
      BY <1>2, <3>2 DEF Active
    <3>3. CASE ao_flight_state # "main" /\ ao_flight_state' = "main"
      <4>1. rest' = 0
        BY <1>1, <3>3, SampleMoves
      <4> QED BY <4>1, <2>1 DEF IgniteInv, InTime
    <3> QED BY <3>1, <3>2, <3>3
  <2>5. ASSUME ao_flight_state' = "landed", Active', charges' # <<>>
        PROVE  Longest >= IntervalTime
    <3>1. charges # <<>> /\ igniter \notin {"asleep", "woken"}
      BY <1>2, <2>5 DEF IgniteInv, IgniteTypes
    <3>2. Active
      BY <1>2, <2>5, <3>1 DEF Active
    <3>3. CASE ao_flight_state = "landed"
      BY <3>1, <3>2, <3>3 DEF IgniteInv, InTime
    <3>4. CASE ao_flight_state # "landed"
      <4>1. ao_flight_state = "main"
        BY <1>1, <2>5, <3>4, SampleMoves
      <4>2. rest' = IntervalTime
        BY <1>1, <2>5, <3>4, SampleInv
      <4>3. Left + rest + 1 <= Longest
        BY <3>2, <4>1, <2>2 DEF IgniteInv, InTime
      <4> QED BY <4>2, <4>3, <2>1, <2>2, <2>3
    <3> QED BY <3>3, <3>4
  <2>6. (IF due' THEN 1 ELSE 0) = 0
    BY <2>2
  <2>7. rest' \in Nat /\ Left <= Longest
    BY <2>2, <2>3 DEF UpTo, IgniteInv, InTime
  <2>8. ASSUME ao_flight_state' = "main", Active'
        PROVE  Left' + rest' + (IF due' THEN 1 ELSE 0) <= Longest'
    <3>1. Left + rest' <= Longest
      BY <2>4, <2>8, Zenon
    <3>2. Left + rest' + 0 <= Longest
      BY <3>1, <2>1, <2>7, NothingMore, Zenon
    <3>3. Left + rest' + (IF due' THEN 1 ELSE 0) <= Longest
      BY <3>2, <2>6, Zenon
    <3> QED BY <3>3, <2>1, Zenon
  <2> QED BY <2>1, <2>5, <2>7, <2>8, FlightAssumption DEF InTime
<1> QED BY <1>1, <1>3, <1>4, <1>5, <1>6 DEF IgniteInv

-----------------------------------------------------------------------------
(* The igniter takes its steps: the flight stands still meanwhile, and what *)
(* is left does not grow.                                                  *)
LEMMA IgniterStill ==
  ASSUME IgniteInv, UNCHANGED <<flightVars, configVars, manualVars>>,
         Left' <= Left, Left' \in Nat,
         Active' => Active,
         charges' # <<>> => charges # <<>> \/ ao_flight_state # "landed"
  PROVE  FlightInv' /\ InTime'
<1>1. UNCHANGED <<ao_flight_state, boost_age, launch_age, ao_motor_number,
                  interval_left, interval_quiet, ao_coast_avg_accel, due, rest,
                  thrust, ignite_mode, apogee_delay>>
  BY DEF flightVars, configVars
<1>2. FlightInv'
  BY <1>1 DEF IgniteInv, FlightInv, Types, BoostEnds, RestCounted
<1>3. Longest' = Longest /\ Longest \in Nat /\ Left \in Nat /\ rest \in Nat
  BY <1>1, LeftIsNat DEF Longest, IgniteInv, FlightInv, Types
<1>4. Left' <= Longest'
  BY <1>3 DEF IgniteInv, InTime
<1>5. ASSUME ao_flight_state' = "main", Active'
      PROVE  Left' + rest' + (IF due' THEN 1 ELSE 0) <= Longest'
  <2> DEFINE d == IF due THEN 1 ELSE 0
  <2>1. Left + rest + d <= Longest
    BY <1>1, <1>5 DEF IgniteInv, InTime
  <2>2. d \in Nat
    OBVIOUS
  <2>3. (IF due' THEN 1 ELSE 0) = d
    BY <1>1
  <2> HIDE DEF d
  <2>4. Left' + rest + d <= Longest
    <3>1. \E l, m, n \in Nat : l = Left /\ m = Left' /\ n = Longest
      BY <1>3, Zenon
    <3>2. PICK l, m, n \in Nat : l = Left /\ m = Left' /\ n = Longest
      BY <3>1, Zenon
    <3>3. l + rest + d <= n
      BY <2>1, <3>2, Zenon
    <3>4. m <= l
      BY <3>2, Zenon
    <3>5. m + rest + d <= n
      BY <3>3, <3>4, <2>2, <1>3
    <3> QED BY <3>2, <3>5, Zenon
  <2> QED BY <2>3, <2>4, <1>1, <1>3, Zenon
<1>6. ASSUME ao_flight_state' = "landed", Active', charges' # <<>>
      PROVE  Longest' >= IntervalTime
  BY <1>1, <1>3, <1>6 DEF IgniteInv, InTime
<1> QED BY <1>2, <1>4, <1>5, <1>6 DEF InTime

LEMMA IgniterWakesInv ==
  ASSUME IgniteInv, UNCHANGED <<flightVars, configVars, manualVars>>,
         IgniterWakes \/ IgniterSleeps
  PROVE  IgniteInv'
<1>1. /\ UNCHANGED <<wait_left, tests, charges, fired, pins, apogee_age,
                     ignite_mode, apogee_delay, manual, manual_left,
                     ao_flight_state, launch_age>>
      /\ \/ igniter = "woken" /\ igniter' = "running"
         \/ igniter = "running" /\ igniter' = "asleep"
      /\ charges = <<>>
  BY DEF IgniterWakes, IgniterSleeps, IgniteInv, IgniteTypes, configVars,
         manualVars, flightVars
<1>2. IgniteTypes' /\ Apart' /\ DrogueUnlocked'
  BY <1>1 DEF IgniteInv, IgniteTypes, Apart, DrogueUnlocked, Firing
<1>3. Left' = Left
  BY <1>1 DEF Left, Unfired, After
<1>4. Active' => Active
  BY <1>1 DEF Active
<1> QED BY <1>1, <1>2, <1>3, <1>4, IgniterStill, LeftIsNat DEF IgniteInv

(* What a test adds is due in the present state.                           *)
LEMMA IgniterTestsInv ==
  ASSUME IgniteInv, UNCHANGED <<flightVars, configVars, manualVars>>,
         IgniterTests
  PROVE  IgniteInv'
<1>1. /\ UNCHANGED <<igniter, wait_left, fired, pins, apogee_age,
                     ignite_mode, apogee_delay, manual, manual_left,
                     ao_flight_state, launch_age>>
      /\ igniter = "running" /\ charges = <<>> /\ tests # <<>>
      /\ charges' = IF InFlight(Head(tests).from) THEN Head(tests).fire ELSE <<>>
      /\ tests' = Tail(tests)
  BY DEF IgniterTests, configVars, manualVars, flightVars
<1>2. Head(tests) \in TestSet /\ tests' \in Seq(TestSet)
  BY <1>1 DEF IgniteInv, IgniteTypes
<1>3. PICK t \in TestSet : t = Head(tests)
  BY <1>2
<1>4. /\ t.fire \in FireSet /\ t.from \in {"fast", "drogue", "main"}
      /\ t.fire # <<"main">> => t.from \in {"drogue", "main"}
  BY FireHeads DEF TestSet, Test, FireSet
<1>5. ao_flight_state \in StateNames
  BY DEF IgniteInv, FlightInv, Types
<1>6. charges' # <<>> =>
        /\ ao_flight_state \in {"fast", "coast", "drogue", "main"}
        /\ charges' # <<"main">> => ao_flight_state \in {"drogue", "main"}
  BY <1>1, <1>3, <1>4, <1>5, InFlightByName
<1>7. charges' \in FireSet
  BY <1>1, <1>3, <1>4 DEF FireSet
<1>8. IgniteTypes' /\ Apart'
  BY <1>1, <1>2, <1>6, <1>7 DEF IgniteInv, IgniteTypes, Apart, Firing, Up
<1>9. DrogueUnlocked'
  BY <1>1, <1>6, FireHeads DEF IgniteInv, DrogueUnlocked
<1>10. Left' = Left /\ (Active' => Active)
  BY <1>1 DEF Left, Unfired, After, Active
<1>11. charges' # <<>> => ao_flight_state # "landed"
  BY <1>6
<1> QED BY <1>8, <1>9, <1>10, <1>11, IgniterStill, LeftIsNat DEF IgniteInv

(* A charge that is fired is marked, and pulses once.                      *)
LEMMA IgniterFiresInv ==
  ASSUME IgniteInv, UNCHANGED <<flightVars, configVars, manualVars>>,
         IgniterFires
  PROVE  IgniteInv'
<1> DEFINE c == Head(charges)
<1>1. /\ UNCHANGED <<tests, apogee_age, ignite_mode, apogee_delay, manual,
                     manual_left, ao_flight_state, launch_age>>
      /\ igniter = "running" /\ charges # <<>>
  BY DEF IgniterFires, configVars, manualVars, flightVars
<1>2. c \in Charges /\ charges \in FireSet
  BY <1>1, FireHeads DEF IgniteInv, IgniteTypes, FireSet, Charges
<1>3. CASE /\ c \in fired /\ charges' = Tail(charges)
           /\ UNCHANGED <<igniter, wait_left, fired, pins>>
  <2>1. /\ charges' \in FireSet
        /\ charges' = <<>> \/ charges' = <<"main">>
    BY <1>1, <1>2, <1>3, FireHeads DEF FireSet
  <2>2. IgniteTypes' /\ Apart'
    BY <1>1, <1>3, <2>1 DEF IgniteInv, IgniteTypes, Apart, Firing
  <2>3. DrogueUnlocked'
    BY <1>1, <2>1, FireHeads DEF IgniteInv, DrogueUnlocked
  <2>4. Left' = Left /\ (Active' => Active)
    BY <1>1, <1>3 DEF Left, Unfired, After, Active
  <2> QED BY <1>1, <2>2, <2>3, <2>4, IgniterStill, LeftIsNat DEF IgniteInv
<1>4. CASE /\ c \notin fired /\ fired' = fired \union {c}
           /\ UNCHANGED charges
           /\ \/ /\ c = "drogue" /\ UNCHANGED pins
                 /\ igniter' = "delay" /\ wait_left' = apogee_delay
              \/ /\ pins' = pins \union {c}
                 /\ igniter' = "fire" /\ wait_left' = FireTime
  <2>1. /\ apogee_delay \in Nat /\ FireTime \in Nat /\ ChargeTime \in Nat
        /\ FireTime > 0
    BY IgniteAssumption DEF IgniteInv, IgniteTypes
  <2>2. IgniteTypes'
    <3>1. fired' \subseteq Charges /\ wait_left' \in Nat
      BY <1>2, <1>4, <2>1 DEF IgniteInv, IgniteTypes
    <3>2. pins' = manual \union IF igniter' = "fire" THEN {c} ELSE {}
      BY <1>1, <1>4 DEF IgniteInv, IgniteTypes
    <3> QED BY <1>1, <1>4, <3>1, <3>2 DEF IgniteInv, IgniteTypes, Firing
  <2>3. Apart'
    BY <1>1, <1>4 DEF IgniteInv, IgniteTypes, Apart, Firing
  <2>4. DrogueUnlocked'
    BY <1>1, <1>4 DEF IgniteInv, DrogueUnlocked
  <2>5. Left' <= Left
    <3>1. CASE fired = {}
      <4>1. Left = apogee_delay + FireTime + FireTime + ChargeTime
        BY <1>1, <2>1, <3>1 DEF Left, Unfired
      <4>2. CASE c = "drogue"
        <5>1. "drogue" \in fired' /\ "main" \notin fired' /\ fired' # Charges
          BY <1>4, <3>1, <4>2 DEF Charges
        <5>2. Unfired' = FireTime /\ After' = ChargeTime + FireTime
          BY <5>1, <2>1 DEF Unfired, After
        <5> QED BY <4>1, <5>2, <1>4, <2>1 DEF Left
      <4>3. CASE c = "main"
        <5>1. "main" \in fired' /\ "drogue" \notin fired' /\ fired' # Charges
          BY <1>4, <3>1, <4>3 DEF Charges
        <5>2. /\ Unfired' = apogee_delay + FireTime
              /\ After' = ChargeTime + apogee_delay + FireTime
          BY <5>1, <2>1, <1>1 DEF Unfired, After
        <5> QED BY <4>1, <5>2, <1>4, <4>3, <2>1 DEF Left
      <4> QED BY <4>2, <4>3, <1>2 DEF Charges
    <3>2. CASE fired # {}
      <4>1. fired' = Charges /\ After' = 0
        BY <3>2, <1>2, <1>4 DEF IgniteInv, IgniteTypes, Charges, After
      <4>2. CASE c = "drogue"
        <5>1. "drogue" \notin fired /\ "main" \in fired
          BY <3>2, <4>2, <1>4 DEF IgniteInv, IgniteTypes, Charges
        <5>2. Left = apogee_delay + FireTime
          BY <5>1, <3>2, <1>1, <2>1 DEF Left, Unfired
        <5> QED BY <5>2, <4>1, <1>4, <2>1 DEF Left
      <4>3. CASE c = "main"
        <5>1. "main" \notin fired /\ "drogue" \in fired
          BY <3>2, <4>3, <1>4 DEF IgniteInv, IgniteTypes, Charges
        <5>2. Left = FireTime
          BY <5>1, <3>2, <1>1, <2>1 DEF Left, Unfired
        <5> QED BY <5>2, <4>1, <4>3, <1>4, <2>1 DEF Left
      <4> QED BY <4>2, <4>3, <1>2 DEF Charges
    <3> QED BY <3>1, <3>2
  <2>6. Left' \in Nat
    <3>1. Unfired' \in Nat
      BY <2>1, <1>1 DEF Unfired
    <3>2. After' \in Nat
      <4>1. After' = 0 \/ After' = ChargeTime + Unfired'
        BY Zenon DEF After
      <4>2. ChargeTime + Unfired' \in Nat
        BY <2>1, <3>1, NatSums, Zenon
      <4> QED BY <4>1, <4>2
    <3>3. wait_left' \in Nat
      BY <1>4, <2>1
    <3>4. \/ Left' = wait_left' + FireTime + After'
          \/ Left' = wait_left' + After'
      BY <1>4, Zenon DEF Left
    <3>5. /\ wait_left' + FireTime + After' \in Nat
          /\ wait_left' + After' \in Nat
      BY <2>1, <3>2, <3>3, NatSums, Zenon
    <3> QED BY <3>4, <3>5, Zenon
  <2>7. Active
    BY <1>1, <1>2, <1>4 DEF Active
  <2> QED BY <1>1, <2>2, <2>3, <2>4, <2>5, <2>6, <2>7, IgniterStill DEF IgniteInv
<1> QED BY <1>3, <1>4 DEF IgniterFires

(* The delays of the igniter end.                                          *)
LEMMA DelaysEndInv ==
  ASSUME IgniteInv, UNCHANGED <<flightVars, configVars, manualVars>>,
         ApogeeDelayEnds \/ PulseEnds \/ ChargeEnds
  PROVE  IgniteInv'
<1>1. /\ UNCHANGED <<tests, fired, ignite_mode, apogee_delay, manual,
                     manual_left, ao_flight_state, launch_age>>
      /\ wait_left = 0 /\ Firing
  BY DEF ApogeeDelayEnds, PulseEnds, ChargeEnds, configVars, manualVars,
         flightVars, Firing
<1>2. /\ Unfired' = Unfired /\ After' = After
      /\ Unfired \in Nat /\ After \in Nat /\ Left \in Nat
  BY <1>1, LeftIsNat DEF Unfired, After, IgniteInv
<1>3. /\ charges # <<>> /\ charges \in FireSet
      /\ Head(charges) \in fired /\ Head(charges) \in Charges /\ fired # {}
  BY <1>1, FireHeads DEF IgniteInv, IgniteTypes, Apart, FireSet, Charges
<1>4. FireTime \in Nat /\ ChargeTime \in Nat
  BY IgniteAssumption
<1>5. CASE ApogeeDelayEnds
  <2>1. /\ UNCHANGED <<charges, apogee_age>>
        /\ igniter = "delay" /\ igniter' = "fire" /\ wait_left' = FireTime
        /\ pins' = pins \union {Head(charges)}
    BY <1>5 DEF ApogeeDelayEnds
  <2>2. IgniteTypes' /\ Apart' /\ DrogueUnlocked'
    BY <1>1, <1>3, <1>4, <2>1
    DEF IgniteInv, IgniteTypes, Apart, DrogueUnlocked, Firing
  <2>3. Left' = Left /\ (Active' => Active)
    <3>1. Left = FireTime + After /\ Left' = FireTime + After
      BY <1>1, <1>2, <1>4, <2>1 DEF Left
    <3> QED BY <2>1, <3>1 DEF Active
  <2> QED BY <1>1, <1>2, <1>3, <2>2, <2>3, IgniterStill DEF IgniteInv
<1>6. CASE PulseEnds
  <2>1. /\ UNCHANGED charges
        /\ igniter = "fire" /\ igniter' = "charge" /\ wait_left' = ChargeTime
        /\ pins' = pins \ {Head(charges)}
        /\ apogee_age' \in {0, apogee_age}
    BY <1>6 DEF PulseEnds
  <2>2. IgniteTypes' /\ Apart' /\ DrogueUnlocked'
    <3>1. pins' = manual
      BY <2>1 DEF IgniteInv, IgniteTypes, Apart
    <3>2. apogee_age' \in 0 .. ChargeTime
      BY <2>1, <1>4 DEF IgniteInv, IgniteTypes
    <3> QED BY <1>1, <1>3, <1>4, <2>1, <3>1, <3>2
            DEF IgniteInv, IgniteTypes, Apart, DrogueUnlocked, Firing
  <2>3. Left' = Left /\ (Active' => Active)
    <3>1. Left = After
      BY <1>1, <1>2, <2>1 DEF Left
    <3>2. Left' = After
      BY <1>1, <1>2, <2>1 DEF Left, After
    <3> QED BY <2>1, <3>1, <3>2 DEF Active
  <2> QED BY <1>1, <1>2, <1>3, <2>2, <2>3, IgniterStill DEF IgniteInv
<1>7. CASE ChargeEnds
  <2>1. /\ UNCHANGED <<wait_left, pins, apogee_age>>
        /\ igniter = "charge" /\ igniter' = "running"
        /\ charges' = Tail(charges)
    BY <1>7 DEF ChargeEnds
  <2>2. charges' = <<>> \/ charges' = <<"main">>
    BY <1>3, <2>1, FireHeads DEF FireSet
  <2>3. IgniteTypes' /\ Apart' /\ DrogueUnlocked'
    BY <1>1, <1>3, <2>1, <2>2, FireHeads
    DEF IgniteInv, IgniteTypes, Apart, DrogueUnlocked, Firing, FireSet
  <2>4. Left' = Left /\ (Active' => Active)
    <3>1. fired = Charges => Unfired = 0
      BY DEF Unfired, Charges
    <3>2. Left = IF fired = Charges THEN 0 ELSE Unfired
      BY <1>1, <1>2, <2>1 DEF Left
    <3>3. Left' = Unfired
      BY <1>1, <1>2, <1>3, <2>1 DEF Left
    <3> QED BY <1>1, <2>1, <3>1, <3>2, <3>3 DEF Active
  <2> QED BY <1>1, <1>2, <1>3, <2>3, <2>4, IgniterStill DEF IgniteInv
<1> QED BY <1>5, <1>6, <1>7

-----------------------------------------------------------------------------
(* The console fires on the ground only, where the igniter has nothing to  *)
(* fire.                                                                   *)
LEMMA ManualInv ==
  ASSUME IgniteInv, ManualEnds \/ \E c \in Charges : ManualFire(c)
  PROVE  IgniteInv'
<1>1. /\ UNCHANGED <<flightVars, ignite_mode, apogee_delay, igniter, wait_left,
                     tests, charges, apogee_age>>
      /\ igniter # "running"
  BY DEF ManualFire, ManualEnds, configVars, taskVars
<1>2. UNCHANGED <<ao_flight_state, boost_age, launch_age, ao_motor_number,
                  interval_left, interval_quiet, ao_coast_avg_accel, due, rest,
                  thrust>>
  BY <1>1 DEF flightVars
<1>3. FlightInv' /\ DrogueUnlocked'
  BY <1>1, <1>2
  DEF IgniteInv, FlightInv, Types, BoostEnds, RestCounted, DrogueUnlocked
<1>4. CASE ManualEnds
  <2>1. fired' = fired /\ manual' = {} /\ pins' = pins \ manual
        /\ manual_left' = manual_left
    BY <1>4 DEF ManualEnds
  <2>2. IgniteTypes' /\ Apart'
    BY <1>1, <1>2, <2>1 DEF IgniteInv, IgniteTypes, Apart, Firing
  <2>3. Left' = Left /\ Longest' = Longest /\ Active' = Active
    BY <1>1, <2>1 DEF Left, Unfired, After, Longest, Active
  <2>4. InTime'
    BY <1>1, <1>2, <2>3 DEF IgniteInv, InTime
  <2> QED BY <1>3, <2>2, <2>4 DEF IgniteInv
<1>5. ASSUME NEW c \in Charges, ManualFire(c) PROVE IgniteInv'
  <2>1. /\ ao_flight_state \in {"startup", "idle", "invalid"}
        /\ fired' = fired \union {c} /\ pins' = pins \union {c}
        /\ manual = {} /\ manual' = {c} /\ manual_left' = FireTime
    BY <1>5 DEF ManualFire
  <2>2. charges = <<>> /\ igniter \in {"asleep", "woken"}
    BY <1>1, <2>1 DEF IgniteInv, IgniteTypes, Apart, Up, Firing
  <2>3. IgniteTypes' /\ Apart'
    BY <1>1, <1>2, <2>1, <2>2, IgniteAssumption
    DEF IgniteInv, IgniteTypes, Apart, Firing
  <2>4. /\ apogee_delay \in Nat /\ FireTime \in Nat /\ ChargeTime \in Nat
        /\ fired \subseteq Charges /\ c \in Charges
    BY <1>5, IgniteAssumption DEF IgniteInv, IgniteTypes
  <2>5. Unfired' <= apogee_delay + FireTime + FireTime
    BY <1>1, <2>1, <2>4 DEF Unfired
  <2>6. Left' = Unfired'
    <3>1. Left' = Unfired' + 0
      BY <1>1, <2>1, <2>2 DEF Left
    <3>2. Unfired' + 0 = Unfired'
      BY <1>1, <2>1, <2>4 DEF Unfired
    <3> QED BY <3>1, <3>2, Zenon
  <2>7. Left' <= Longest'
    <3>1. Unfired' <= Longest'
      BY <1>1, <2>1, <2>4, <2>5 DEF Longest, Unfired
    <3> QED BY <3>1, <2>6, Zenon
  <2>8. ao_flight_state' \notin {"main", "landed"}
    BY <1>2, <2>1
  <2> QED BY <1>3, <2>3, <2>7, <2>8 DEF IgniteInv, InTime
<1> QED BY <1>4, <1>5

-----------------------------------------------------------------------------
(* Time passes while the igniter sleeps or waits: what is left of its work *)
(* becomes less by as much as the next sample adds to the time at rest.    *)
LEMMA IgniteTickInv == IgniteInv /\ IgniteTick => IgniteInv'
<1> SUFFICES ASSUME IgniteInv, IgniteTick PROVE IgniteInv'
  OBVIOUS
<1>1. /\ UNCHANGED <<ignite_mode, apogee_delay, igniter, tests, charges, fired,
                     pins, manual>>
      /\ wait_left' = CountDown(wait_left)
      /\ manual_left' = CountDown(manual_left)
      /\ apogee_age' = UpTo(apogee_age, ChargeTime)
      /\ igniter \notin {"woken", "running"}
      /\ Firing => wait_left # 0
  BY DEF IgniteTick, configVars, Running, DelayOver, Firing
<1>2. FlightTick /\ FlightInv /\ FlightInv' /\ ao_flight_state' = ao_flight_state
  BY TickInv DEF IgniteTick, IgniteInv
<1>3. /\ ~due /\ due' = TRUE /\ rest' = rest /\ rest \in Nat
      /\ launch_age' \in {launch_age, UpTo(launch_age, Lockout)}
      /\ launch_age \in 0 .. Lockout /\ Lockout \in Nat
  BY <1>2, FlightAssumption DEF FlightTick, FlightInv, Types
<1>4. IgniteTypes' /\ Apart'
  BY <1>1, <1>2, IgniteAssumption
  DEF IgniteInv, IgniteTypes, Apart, Firing, CountDown, UpTo
<1>5. DrogueUnlocked'
  BY <1>1, <1>2, <1>3 DEF IgniteInv, DrogueUnlocked, UpTo
<1>6. InTime'
  <2>1. /\ Unfired' = Unfired /\ After' = After /\ Longest' = Longest
        /\ Unfired \in Nat /\ After \in Nat /\ Left \in Nat /\ Longest \in Nat
        /\ FireTime \in Nat
    BY <1>1, LeftIsNat, IgniteAssumption
    DEF Unfired, After, Longest, IgniteInv
  <2>2. PICK u, a, n \in Nat : u = Unfired /\ a = After /\ n = Longest
    BY <2>1, Zenon
  <2>3. /\ Unfired = u /\ Unfired' = u /\ After = a /\ After' = a
        /\ Longest = n /\ Longest' = n
    BY <2>1, <2>2, Zenon
  <2>4. wait_left \in Nat
    BY DEF IgniteInv, IgniteTypes
  <2>5. \E l, m \in Nat :
          /\ l = Left /\ m = Left' /\ m <= l
          /\ Active => m + 1 <= l
    <3>1. CASE Firing
      <4>1. wait_left' = wait_left - 1 /\ wait_left > 0
        BY <1>1, <2>4, <3>1 DEF CountDown
      <4>2. CASE igniter = "delay"
        <5>1. Left = wait_left + FireTime + a /\ Left' = wait_left' + FireTime + a
          BY <1>1, <2>3, <4>2, Zenon DEF Left
        <5> QED BY <2>1, <2>4, <4>1, <5>1
      <4>3. CASE igniter = "fire"
        <5>1. Left = wait_left + a /\ Left' = wait_left' + a
          BY <1>1, <2>3, <4>3 DEF Left
        <5> QED BY <2>1, <2>4, <4>1, <5>1
      <4>4. CASE igniter = "charge" /\ fired # Charges
        <5>1. Left = wait_left + u /\ Left' = wait_left' + u
          BY <1>1, <2>3, <4>4 DEF Left
        <5> QED BY <2>1, <2>4, <4>1, <5>1
      <4>5. CASE igniter = "charge" /\ fired = Charges
        <5>1. Left = 0 /\ Left' = 0 /\ ~Active
          BY <1>1, <4>5 DEF Left, Active
        <5> QED BY <5>1
      <4> QED BY <3>1, <4>2, <4>3, <4>4, <4>5 DEF Firing
    <3>2. CASE ~Firing
      <4>1. igniter = "asleep" /\ ~Active
        BY <1>1, <3>2 DEF IgniteInv, IgniteTypes, Firing, Active
      <4>2. Left' = Left
        <5> DEFINE k == IF fired = {} THEN ChargeTime ELSE 0
        <5>1. Left = u + k
          BY <1>1, <2>3, <4>1 DEF Left
        <5>2. Left' = u + k
          BY <1>1, <2>3, <4>1 DEF Left
        <5> QED BY <5>1, <5>2
      <4> QED BY <2>1, <4>1, <4>2
    <3> QED BY <3>1, <3>2
  <2>6. PICK l, m \in Nat :
          /\ l = Left /\ m = Left' /\ m <= l
          /\ Active => m + 1 <= l
    BY <2>5, Zenon
  <2>7. Active' <=> Active
    BY <1>1 DEF Active
  <2>8. Left' <= Longest'
    <3>1. l <= n
      BY <2>3, <2>6, Zenon DEF IgniteInv, InTime
    <3>2. m <= n
      BY <2>6, <3>1
    <3> QED BY <2>3, <2>6, <3>2, Zenon
  <2>9. ASSUME ao_flight_state' = "main", Active'
        PROVE  Left' + rest' + (IF due' THEN 1 ELSE 0) <= Longest'
    <3>1. l + rest + (IF due THEN 1 ELSE 0) <= n
      BY <1>2, <2>3, <2>6, <2>7, <2>9, Zenon DEF IgniteInv, InTime
    <3>2. (IF due THEN 1 ELSE 0) = 0 /\ (IF due' THEN 1 ELSE 0) = 1
      BY <1>3
    <3>3. l + rest + 0 <= n
      BY <3>1, <3>2, Zenon
    <3>4. m + 1 <= l
      BY <2>6, <2>7, <2>9, Zenon
    <3>5. m + rest + 1 <= n
      BY <3>3, <3>4, <1>3
    <3> QED BY <3>2, <3>5, <2>3, <2>6, <1>3, Zenon
  <2>10. ASSUME ao_flight_state' = "landed", Active', charges' # <<>>
         PROVE  Longest' >= IntervalTime
    BY <1>1, <1>2, <2>1, <2>7, <2>10 DEF IgniteInv, InTime
  <2> QED BY <2>8, <2>9, <2>10 DEF InTime
<1> QED BY <1>2, <1>4, <1>5, <1>6 DEF IgniteInv

LEMMA IgniteStutterInv == IgniteInv /\ UNCHANGED igniteVars => IgniteInv'
<1> SUFFICES ASSUME IgniteInv, UNCHANGED igniteVars PROVE IgniteInv'
  OBVIOUS
<1>1. /\ UNCHANGED <<flightVars, configVars, manualVars>>
      /\ UNCHANGED <<ignite_mode, apogee_delay, igniter, wait_left, tests,
                     charges, fired, pins, manual, manual_left, apogee_age,
                     ao_flight_state, launch_age>>
  BY DEF igniteVars, flightVars, configVars, taskVars, manualVars
<1>2. IgniteTypes' /\ Apart' /\ DrogueUnlocked'
  BY <1>1 DEF IgniteInv, IgniteTypes, Apart, DrogueUnlocked, Firing
<1>3. Left' = Left /\ (Active' => Active)
  BY <1>1 DEF Left, Unfired, After, Active
<1> QED BY <1>1, <1>2, <1>3, IgniterStill, LeftIsNat DEF IgniteInv

LEMMA IgniteNextInv == IgniteInv /\ [IgniteNext]_igniteVars => IgniteInv'
<1> SUFFICES ASSUME IgniteInv, [IgniteNext]_igniteVars PROVE IgniteInv'
  OBVIOUS
<1>1. CASE Igniter
  <2>1. UNCHANGED <<flightVars, configVars, manualVars>>
    BY <1>1 DEF Igniter
  <2> QED BY <1>1, <2>1, IgniterWakesInv, IgniterTestsInv, IgniterFiresInv,
             DelaysEndInv DEF Igniter
<1> QED BY <1>1, SampledInv, ManualInv, IgniteTickInv, IgniteStutterInv
        DEF IgniteNext

LEMMA IgniteInvariance == IgniteSpec => []IgniteInv
BY IgniteInitInv, IgniteNextInv, PTL DEF IgniteSpec

-----------------------------------------------------------------------------
LEMMA SeqOfSubset ==
  ASSUME NEW S, NEW T, S \subseteq T, NEW s \in Seq(S)
  PROVE  s \in Seq(T)
OBVIOUS

(* The flight and the igniter keep their types; only the two tasks that    *)
(* fire charges hold a pin (ao_ignite.c:80).                               *)
THEOREM IgniterTypes == IgniteSpec => []IgniteTypeOK
<1>1. IgniteInv => IgniteTypeOK
  <2> SUFFICES ASSUME IgniteInv PROVE IgniteTypeOK
    OBVIOUS
  <2>1. FlightTypeOK
    BY TypesByName DEF IgniteInv, FlightInv
  <2> DEFINE T == [from : {"fast", "drogue", "main"},
                   fire : {<<"drogue">>, <<"main">>, <<"drogue", "main">>}]
  <2>2. TestSet \subseteq T
    BY DEF TestSet, Test
  <2>3. tests \in Seq(T)
    BY <2>2, SeqOfSubset DEF IgniteInv, IgniteTypes
  <2>4. charges \in Seq(Charges)
    <3>1. "drogue" \in Charges /\ "main" \in Charges
      BY DEF Charges
    <3>2. /\ <<>> \in Seq(Charges) /\ <<"drogue">> \in Seq(Charges)
          /\ <<"main">> \in Seq(Charges)
          /\ <<"drogue", "main">> \in Seq(Charges)
      BY <3>1, ShortSeqs
    <3> QED BY <3>2 DEF IgniteInv, IgniteTypes, FireSet
  <2> QED BY <2>1, <2>3, <2>4 DEF IgniteInv, IgniteTypes, IgniteTypeOK, Firing
<1> QED BY <1>1, IgniteInvariance, PTL

(* The igniter does not fire on the ground where its delays are shorter    *)
(* than the time at rest that a landing takes (ao_ignite.c:112).           *)
THEOREM NoPulsesOnGround == IgniteSpec => []NoPulseOnGround
<1>1. IgniteInv => NoPulseOnGround
  <2> SUFFICES ASSUME IgniteInv, pins # manual PROVE
               \/ InFlight("boost")
               \/ /\ ao_flight_state = "landed"
                  /\ apogee_delay + 2 * FireTime + ChargeTime >= IntervalTime
    BY DEF NoPulseOnGround
  <2>1. igniter = "fire" /\ charges # <<>>
    BY DEF IgniteInv, IgniteTypes, Firing
  <2>2. ao_flight_state \in Up /\ ao_flight_state \in StateNames /\ Active
    BY <2>1 DEF IgniteInv, Apart, FlightInv, Types, Active
  <2>3. CASE ao_flight_state # "landed"
    BY <2>2, <2>3, InFlightByName DEF Up
  <2>4. CASE ao_flight_state = "landed"
    BY <2>1, <2>2, <2>4 DEF IgniteInv, InTime, Longest
  <2> QED BY <2>3, <2>4
<1> QED BY <1>1, IgniteInvariance, PTL

(* The igniter keeps the apogee charge back during the lockout             *)
(* (ao_flight.c:322).                                                      *)
THEOREM ApogeeLockedOut == IgniteSpec => []LockedOut
<1>1. IgniteInv => LockedOut
  <2> SUFFICES ASSUME IgniteInv, launch_age < Lockout, "drogue" \in pins \ manual
               PROVE  FALSE
    BY DEF LockedOut
  <2>1. igniter = "fire" /\ Head(charges) = "drogue" /\ charges # <<>>
    BY DEF IgniteInv, IgniteTypes, Firing
  <2>2. charges \in {<<"drogue">>, <<"drogue", "main">>}
    BY <2>1, FireHeads DEF IgniteInv, IgniteTypes, FireSet
  <2> QED BY <2>2, FlightAssumption DEF IgniteInv, DrogueUnlocked
<1> QED BY <1>1, IgniteInvariance, PTL

-----------------------------------------------------------------------------
(* After the pulse of the apogee charge the igniter waits ChargeTime       *)
(* before it goes on, and only that charge is ever delayed.                *)
Rested ==
  /\ igniter # "charge" => apogee_age = ChargeTime
  /\ igniter = "charge" => apogee_age + wait_left >= ChargeTime
  /\ igniter = "delay" => Head(charges) = "drogue"

LEMMA RestedInit == IgniteInit => Rested
BY DEF IgniteInit, Rested

LEMMA RestedNext ==
  ASSUME IgniteInv, Rested, [IgniteNext]_igniteVars
  PROVE  Rested'
<1>1. /\ wait_left \in Nat /\ apogee_age \in 0 .. ChargeTime /\ ChargeTime \in Nat
      /\ igniter \in {"asleep", "woken", "running", "delay", "fire", "charge"}
  BY IgniteAssumption DEF IgniteInv, IgniteTypes
<1>2. ASSUME UNCHANGED <<apogee_age, wait_left, charges>>,
             igniter' = igniter \/ (igniter # "charge" /\ igniter' = "woken")
      PROVE  Rested'
  BY <1>2 DEF Rested
<1>3. CASE Sampled \/ (\E c \in Charges : ManualFire(c)) \/ ManualEnds
           \/ UNCHANGED igniteVars
  BY <1>2, <1>3 DEF Sampled, ManualFire, ManualEnds, igniteVars, taskVars
<1>4. CASE Igniter
  <2>1. CASE IgniterWakes \/ IgniterTests \/ IgniterSleeps
    BY <2>1 DEF IgniterWakes, IgniterTests, IgniterSleeps, Rested
  <2>2. CASE IgniterFires
    BY <2>2 DEF IgniterFires, Rested, IgniteInv, IgniteTypes, Charges
  <2>3. CASE ApogeeDelayEnds
    BY <2>3 DEF ApogeeDelayEnds, Rested
  <2>4. CASE PulseEnds
    BY <2>4, <1>1 DEF PulseEnds, Rested
  <2>5. CASE ChargeEnds
    BY <2>5, <1>1 DEF ChargeEnds, Rested
  <2> QED BY <1>4, <2>1, <2>2, <2>3, <2>4, <2>5 DEF Igniter
<1>5. CASE IgniteTick
  <2>1. /\ UNCHANGED <<igniter, charges>>
        /\ wait_left' = CountDown(wait_left)
        /\ apogee_age' = UpTo(apogee_age, ChargeTime)
    BY <1>5 DEF IgniteTick
  <2> QED BY <2>1, <1>1 DEF Rested, CountDown, UpTo
<1> QED BY <1>3, <1>4, <1>5 DEF IgniteNext

(* The igniter has no charge to fire while one is fired from the console:  *)
(* that pulse, begun on the ground, is over when the rocket is fast.       *)
HandsOff == charges # <<>> => manual = {}

(* The main charge waits for the battery to recover from the apogee charge *)
(* (ao_ignite.c:86), unless that one was fired by hand just before.        *)
THEOREM MainWaits == IgniteSpec /\ []HandsOff => ChargesApart
<1> DEFINE Waits ==
      \A c \in (pins' \ pins) \ manual' : c = "main" =>
        "drogue" \notin pins /\ apogee_age = ChargeTime
<1>1. ASSUME IgniteInv, Rested, HandsOff, [IgniteNext]_igniteVars
      PROVE  [Waits]_igniteVars
  <2> SUFFICES ASSUME "main" \in (pins' \ pins) \ manual'
               PROVE  "drogue" \notin pins /\ apogee_age = ChargeTime
    OBVIOUS
  <2>1. CASE Sampled \/ ManualEnds \/ IgniteTick \/ UNCHANGED igniteVars
    BY <2>1 DEF Sampled, ManualEnds, IgniteTick, igniteVars
  <2>2. CASE \E c \in Charges : ManualFire(c)
    BY <2>2 DEF ManualFire
  <2>3. CASE Igniter
    <3>1. CASE IgniterFires
      <4>1. igniter = "running" /\ charges # <<>>
        BY <3>1 DEF IgniterFires
      <4>2. pins = {}
        BY <1>1, <4>1 DEF HandsOff, IgniteInv, IgniteTypes
      <4> QED BY <1>1, <4>1, <4>2 DEF Rested
    <3>2. CASE ApogeeDelayEnds
      BY <1>1, <3>2 DEF ApogeeDelayEnds, Rested
    <3>3. CASE IgniterWakes \/ IgniterTests \/ IgniterSleeps \/ PulseEnds
               \/ ChargeEnds
      BY <3>3 DEF IgniterWakes, IgniterTests, IgniterSleeps, PulseEnds, ChargeEnds
    <3> QED BY <2>3, <3>1, <3>2, <3>3 DEF Igniter
  <2> QED BY <1>1, <2>1, <2>2, <2>3 DEF IgniteNext
<1>2. IgniteSpec => []Rested
  <2>1. IgniteInv /\ Rested /\ [IgniteNext]_igniteVars => Rested'
    BY RestedNext
  <2> QED BY RestedInit, <2>1, IgniteInvariance, PTL DEF IgniteSpec
<1> HIDE DEF Waits
<1>3. IgniteSpec /\ []HandsOff => [][Waits]_igniteVars
  BY <1>1, <1>2, IgniteInvariance, PTL DEF IgniteSpec
<1> QED BY <1>3 DEF Waits, ChargesApart

(* A pulse of one sample, which is begun on the ground, is over before the *)
(* boost is.                                                               *)
OverInBoost ==
  manual # {} =>
    \/ ao_flight_state \in {"startup", "idle", "invalid"}
    \/ ao_flight_state = "pad" /\ (due => manual_left = 0)
    \/ ao_flight_state = "boost" /\ ~due /\ manual_left = 0

LEMMA OverSampled ==
  ASSUME IgniteInv, OverInBoost, Sampled
  PROVE  OverInBoost'
<1>1. /\ due /\ due' = FALSE
      /\ \E d \in Samples : \/ Startup \/ Pad(d) \/ Boost(d) \/ Fast(d) \/ Coast(d)
                            \/ Drogue(d) \/ Main(d) \/ Other
      /\ UNCHANGED manualVars
  BY DEF Sampled, FlightSample
<1>2. SUFFICES ASSUME manual # {} PROVE OverInBoost'
  BY <1>1 DEF OverInBoost, manualVars
<1>3. CASE ao_flight_state \in {"startup", "idle", "invalid"}
  <2>1. ao_flight_state' \in {"startup", "pad", "idle", "invalid"}
    BY <1>1, <1>3 DEF Startup, Pad, Boost, Fast, Coast, Drogue, Main, Other, flightVars
  <2> QED BY <1>1, <2>1 DEF OverInBoost
<1>4. CASE ao_flight_state = "pad" /\ manual_left = 0
  <2>1. ao_flight_state' \in {"pad", "boost"}
    BY <1>1, <1>4 DEF Startup, Pad, Boost, Fast, Coast, Drogue, Main, Other, flightVars
  <2> QED BY <1>1, <1>4, <2>1 DEF OverInBoost, manualVars
<1> QED BY <1>1, <1>2, <1>3, <1>4 DEF OverInBoost

LEMMA HandsOffNext ==
  ASSUME FireTime = 1, IgniteInv, OverInBoost, HandsOff, [IgniteNext]_igniteVars
  PROVE  OverInBoost' /\ HandsOff'
<1> USE DEF OverInBoost, HandsOff
<1>1. CASE Sampled
  BY <1>1, OverSampled DEF Sampled, manualVars
<1>2. ASSUME NEW c \in Charges, ManualFire(c) PROVE OverInBoost' /\ HandsOff'
  BY <1>2 DEF ManualFire, flightVars, taskVars, IgniteInv, Apart, Up
<1>3. CASE ManualEnds
  BY <1>3 DEF ManualEnds
<1>4. CASE IgniterTests /\ UNCHANGED <<flightVars, manualVars>>
  <2>1. /\ tests # <<>>
        /\ charges' # <<>> => InFlight(Head(tests).from)
    BY <1>4 DEF IgniterTests
  <2>2. Head(tests) \in TestSet
    BY <2>1 DEF IgniteInv, IgniteTypes
  <2>3. Head(tests).from \in {"fast", "drogue", "main"}
    BY <2>2 DEF TestSet, Test
  <2>4. charges' # <<>> =>
          ao_flight_state \notin {"startup", "idle", "invalid", "pad", "boost"}
    BY <2>1, <2>3, InFlightByName DEF IgniteInv, FlightInv, Types
  <2> QED BY <1>4, <2>4 DEF flightVars, manualVars
<1>5. CASE Igniter /\ ~IgniterTests
  <2>1. charges' = charges \/ (charges # <<>> /\ charges' = Tail(charges))
    BY <1>5 DEF Igniter, IgniterWakes, IgniterSleeps, IgniterFires,
                ApogeeDelayEnds, PulseEnds, ChargeEnds, IgniteInv, IgniteTypes, Firing
  <2> QED BY <1>5, <2>1 DEF Igniter, flightVars, manualVars
<1>6. CASE IgniteTick
  <2>1. /\ ao_flight_state' = ao_flight_state /\ due' = TRUE /\ ~due
        /\ manual # {} => manual_left # 0
        /\ manual' = manual /\ charges' = charges
        /\ manual_left' = CountDown(manual_left)
    BY <1>6 DEF IgniteTick, FlightTick, ManualOver
  <2>2. manual_left \in 0 .. 1
    BY DEF IgniteInv, IgniteTypes
  <2>3. manual # {} => manual_left' = 0
    BY <2>1, <2>2 DEF CountDown
  <2> QED BY <2>1, <2>3
<1>7. CASE UNCHANGED igniteVars
  BY <1>7 DEF igniteVars, flightVars, taskVars, manualVars
<1> QED BY <1>1, <1>2, <1>3, <1>4, <1>5, <1>6, <1>7 DEF IgniteNext, Igniter

(* A pulse no longer than the time between two samples needs no hands      *)
(* off: then the main charge always waits, see MainWaits.                  *)
THEOREM MainWaitsShort == FireTime = 1 => (IgniteSpec => ChargesApart)
<1>1. IgniteInit => OverInBoost /\ HandsOff
  BY DEF IgniteInit, OverInBoost, HandsOff
<1>2. SUFFICES ASSUME FireTime = 1 PROVE IgniteSpec => ChargesApart
  OBVIOUS
<1>3. IgniteInv /\ OverInBoost /\ HandsOff /\ [IgniteNext]_igniteVars
        => OverInBoost' /\ HandsOff'
  BY <1>2, HandsOffNext
<1> QED BY <1>1, <1>3, IgniteInvariance, MainWaits, PTL DEF IgniteSpec

-----------------------------------------------------------------------------
(* The task looks at the channels after the boost only.                    *)
Awake ==
  pyro_task \in {"period", "pulse", "gap"} =>
    ao_flight_state \notin {"startup", "idle", "pad"}

(* A doubt inhibits a channel that has not fired.                          *)
DoubtsHold == doubted \subseteq ao_pyro_inhibited /\ PyroHeld

PyroInv == FlightInv /\ PyroTypeOK /\ Awake /\ DoubtsHold

LEMMA PyroInitInv == PyroInit => PyroInv
<1> SUFFICES ASSUME PyroInit PROVE PyroInv
  OBVIOUS
<1>1. FlightInv
  BY FlightInvInit DEF PyroInit
<1>2. PyroTypeOK /\ Awake /\ DoubtsHold
  BY DEF PyroInit, PyroTypeOK, Awake, DoubtsHold, PyroHeld
<1> QED BY <1>1, <1>2 DEF PyroInv

LEMMA PyroSampledInv == PyroInv /\ PyroSampled => PyroInv'
<1> SUFFICES ASSUME PyroInv, PyroSampled PROVE PyroInv'
  OBVIOUS
<1>1. FlightSample /\ FlightInv /\ FlightInv'
  BY SampleInv DEF PyroSampled, PyroInv
<1>2. /\ UNCHANGED <<pyro, ao_pyro_fired, ao_pyro_inhibited, delaying,
                     delay_left, pyro_left, pyro_pins, manual_pin, manual_task,
                     doubted>>
      /\ sensed_ok' \subseteq Pyros
      /\ pyro_task' = pyro_task \/ (pyro_task = "asleep" /\ pyro_task' = "woken")
  BY DEF PyroSampled, manualPyro
<1>3. PyroTypeOK' /\ DoubtsHold'
  BY <1>2 DEF PyroInv, PyroTypeOK, DoubtsHold, PyroHeld
<1>4. Awake'
  BY <1>1, <1>2, SampleMoves DEF PyroInv, Awake
<1> QED BY <1>1, <1>3, <1>4 DEF PyroInv

LEMMA PyroCheckInv ==
  ASSUME PyroInv, PyroCheck, UNCHANGED <<flightVars, pyro, manualPyro>>,
         pyro_task = "period"
  PROVE  PyroTypeOK' /\ DoubtsHold'
<1> DEFINE D == {p \in Waiting \cap delaying : ~Ready(p)}
           S == {p \in Waiting \ delaying : Ready(p)}
<1>1. /\ delaying' = delaying \union S
      /\ delay_left' = [p \in Pyros |-> IF p \in S THEN pyro[p].delay
                                        ELSE delay_left[p]]
      /\ ao_pyro_inhibited' = ao_pyro_inhibited \union D
      /\ ao_pyro_fired' = ao_pyro_fired \union Fires
      /\ doubted' = doubted \union D
      /\ pyro_pins' = Fires
      /\ UNCHANGED <<sensed_ok, pyro, manual_pin, manual_task>>
  BY DEF PyroCheck, Inhibited, manualPyro
<1>2. \/ Fires # {} /\ pyro_task' = "pulse" /\ pyro_left' = PyroTime
      \/ Fires = {} /\ pyro_task' = "period" /\ pyro_left' = Period
      \/ Fires = {} /\ pyro_task' = "exited" /\ pyro_left' = pyro_left
  BY DEF PyroCheck
<1>3. /\ Waiting \subseteq Pyros
      /\ Waiting \cap ao_pyro_fired = {} /\ Waiting \cap ao_pyro_inhibited = {}
      /\ Fires \subseteq Waiting /\ D \subseteq Waiting /\ D \subseteq delaying
      /\ D \cap Fires = {}
  BY DEF Waiting, Fires
<1>4. DoubtsHold'
  <2> HIDE DEF D, S
  <2> QED BY <1>1, <1>3 DEF PyroInv, DoubtsHold, PyroHeld
<1>5. delay_left' \in [Pyros -> Nat]
  <2>1. ASSUME NEW p \in Pyros PROVE pyro[p].delay \in Nat
    BY PyroAssumption DEF PyroInv, PyroTypeOK
  <2> HIDE DEF D, S
  <2> QED BY <1>1, <2>1 DEF PyroInv, PyroTypeOK
<1>6. S \subseteq Pyros
  BY <1>3
<1>7. PyroTypeOK'
  <2> HIDE DEF D, S
  <2> QED BY <1>1, <1>2, <1>3, <1>5, <1>6, PyroAssumption
          DEF PyroInv, PyroTypeOK
<1> QED BY <1>4, <1>7

LEMMA FlightStill ==
  ASSUME FlightInv, UNCHANGED flightVars
  PROVE  FlightInv' /\ ao_flight_state' = ao_flight_state
<1>1. UNCHANGED <<ao_flight_state, boost_age, launch_age, ao_motor_number,
                  interval_left, interval_quiet, ao_coast_avg_accel, due, rest,
                  thrust>>
  BY DEF flightVars
<1> QED BY <1>1 DEF FlightInv, Types, BoostEnds, RestCounted

LEMMA ReachedByName ==
  ASSUME ao_flight_state \in StateNames
  PROVE  /\ Reached("boost") <=>
              ao_flight_state \notin {"startup", "idle", "pad"}
         /\ Reached("landed") <=> ao_flight_state \in {"landed", "invalid"}
BY RankByName DEF StateNames, Reached

LEMMA PyroTurnInv == PyroInv /\ PyroTurn => PyroInv'
<1> SUFFICES ASSUME PyroInv, PyroTurn PROVE PyroInv'
  OBVIOUS
<1>1. /\ UNCHANGED <<flightVars, pyro, manualPyro>>
      /\ UNCHANGED <<manual_pin, manual_task>>
  BY DEF PyroTurn, manualPyro
<1>2. FlightInv' /\ ao_flight_state' = ao_flight_state
      /\ ao_flight_state \in StateNames
  BY <1>1, FlightStill DEF PyroInv, FlightInv, Types
<1>3. CASE PyroWakes
  <2>1. PyroTypeOK' /\ DoubtsHold'
    BY <1>1, <1>3, PyroAssumption
    DEF PyroWakes, PyroInv, PyroTypeOK, DoubtsHold, PyroHeld, pyroState
  <2>2. Awake'
    BY <1>2, <1>3, ReachedByName DEF PyroWakes, Awake
  <2> QED BY <1>2, <2>1, <2>2 DEF PyroInv
<1>4. CASE PyroDue("period") /\ PyroCheck
  <2>1. pyro_task = "period" /\ pyro_task' \in {"pulse", "period", "exited"}
    BY <1>4 DEF PyroDue, PyroCheck
  <2>2. Awake'
    BY <1>2, <2>1 DEF PyroInv, Awake
  <2> QED BY <1>1, <1>2, <1>4, <2>1, <2>2, PyroCheckInv DEF PyroInv
<1>5. CASE \/ PyroDue("period") /\ PyroEnds
           \/ PyroDue("pulse") /\ PulseOver
           \/ PyroDue("gap") /\ GapOver
  <2>1. /\ UNCHANGED <<sensed_ok, ao_pyro_fired, ao_pyro_inhibited, delaying,
                       delay_left, doubted>>
        /\ \/ /\ pyro_task = "period" /\ pyro_task' = "exited"
              /\ UNCHANGED <<pyro_left, pyro_pins>>
           \/ /\ pyro_task = "pulse" /\ pyro_task' = "gap" /\ pyro_pins' = {}
              /\ pyro_left' = GapTime
           \/ /\ pyro_task = "gap" /\ pyro_task' = "period"
              /\ pyro_left' = Period /\ UNCHANGED pyro_pins
    BY <1>5 DEF PyroDue, PyroEnds, PulseOver, GapOver, pyroState
  <2>2. PyroTypeOK' /\ DoubtsHold'
    BY <1>1, <2>1, PyroAssumption
    DEF PyroInv, PyroTypeOK, DoubtsHold, PyroHeld
  <2>3. Awake'
    BY <1>2, <2>1 DEF PyroInv, Awake
  <2> QED BY <1>2, <2>2, <2>3 DEF PyroInv
<1>6. \/ PyroWakes
      \/ PyroDue("period") /\ PyroCheck
      \/ PyroDue("period") /\ PyroEnds
      \/ PyroDue("pulse") /\ PulseOver
      \/ PyroDue("gap") /\ GapOver
  BY Zenon DEF PyroTurn
<1> QED BY <1>3, <1>4, <1>5, <1>6

LEMMA PyroTickInv == PyroInv /\ PyroTick => PyroInv'
<1> SUFFICES ASSUME PyroInv, PyroTick PROVE PyroInv'
  OBVIOUS
<1>1. FlightInv' /\ ao_flight_state' = ao_flight_state
  BY TickInv DEF PyroTick, PyroInv
<1>2. /\ UNCHANGED <<pyro, sensed_ok, ao_pyro_fired, ao_pyro_inhibited,
                     delaying, pyro_task, pyro_pins, manual_pin, manual_task,
                     doubted>>
      /\ pyro_left' = PyroCountDown(pyro_left)
      /\ delay_left' = [p \in Pyros |-> PyroCountDown(delay_left[p])]
  BY DEF PyroTick, manualPyro
<1>3. pyro_left' \in Nat /\ delay_left' \in [Pyros -> Nat]
  BY <1>2 DEF PyroCountDown, PyroInv, PyroTypeOK
<1> QED BY <1>1, <1>2, <1>3
        DEF PyroInv, PyroTypeOK, Awake, DoubtsHold, PyroHeld

LEMMA ManualPyroInv ==
  ASSUME PyroInv,
         \/ UNCHANGED pyroVars
         \/ ManualPyroEnds
         \/ \E p \in Pyros : ManualPyro(p)
  PROVE  PyroInv' /\ UNCHANGED pyro_pins
<1>1. UNCHANGED <<flightVars, pyro, sensed_ok, ao_pyro_fired,
                  ao_pyro_inhibited, delaying, delay_left, pyro_task,
                  pyro_left, pyro_pins, doubted>>
  BY DEF ManualPyro, ManualPyroEnds, pyroVars, pyroState, pyroTask
<1>2. manual_pin' \subseteq Pyros /\ manual_task' \in {"idle", "pulse"}
  BY DEF ManualPyro, ManualPyroEnds, pyroVars, manualPyro, PyroInv, PyroTypeOK
<1>3. FlightInv' /\ ao_flight_state' = ao_flight_state
  BY <1>1, FlightStill DEF PyroInv
<1> QED BY <1>1, <1>2, <1>3
        DEF PyroInv, PyroTypeOK, Awake, DoubtsHold, PyroHeld

LEMMA PyroNextInv == PyroInv /\ [PyroNext]_pyroVars => PyroInv'
BY PyroSampledInv, PyroTurnInv, PyroTickInv, ManualPyroInv DEF PyroNext

LEMMA PyroInvariance == PyroSpec => []PyroInv
BY PyroInitInv, PyroNextInv, PTL DEF PyroSpec

-----------------------------------------------------------------------------
(* The pyro task keeps its types; it holds pins of channels it has marked  *)
(* as fired, for a pulse (ao_pyro.c:242).                                  *)
THEOREM PyroTypes == PyroSpec => []PyroTypeOK
<1>1. PyroInv => PyroTypeOK
  BY DEF PyroInv
<1> QED BY <1>1, PyroInvariance, PTL

(* A channel that was not ready at a check during its delay never fires    *)
(* (ao_pyro.c:326).                                                        *)
THEOREM DoubtedPyrosHeld == PyroSpec => []PyroHeld
<1>1. PyroInv => PyroHeld
  BY DEF PyroInv, DoubtsHold
<1> QED BY <1>1, PyroInvariance, PTL

(* The task puts pins on between the boost and the landing only            *)
(* (ao_pyro.c:406).                                                        *)
THEOREM PyrosFireInFlight == PyroSpec => PyrosInFlight
<1>1. PyroInv /\ [PyroNext]_pyroVars
        => [~(pyro_pins' \subseteq pyro_pins) => InFlight("boost")]_pyroVars
  <2> SUFFICES ASSUME PyroInv, PyroNext, ~(pyro_pins' \subseteq pyro_pins)
               PROVE  InFlight("boost")
    OBVIOUS
  <2>1. PyroTurn
    BY ManualPyroInv DEF PyroNext, PyroSampled, PyroTick
  <2>2. PyroDue("period") /\ ~Reached("landed")
    BY <2>1 DEF PyroTurn, PyroWakes, PyroEnds, PulseOver, GapOver
  <2>3. ao_flight_state \in StateNames /\ pyro_task = "period"
    BY <2>2 DEF PyroDue, PyroInv, FlightInv, Types
  <2> QED BY <2>2, <2>3, ReachedByName DEF PyroInv, Awake, InFlight
<1> QED BY <1>1, PyroInvariance, PTL DEF PyroSpec, PyrosInFlight
=============================================================================
