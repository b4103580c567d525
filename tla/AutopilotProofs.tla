-------------------------- MODULE AutopilotProofs --------------------------
(***************************************************************************)
(* Safety of the autopilot, for every delay and both build options.  The   *)
(* inductive invariant says of the state between calls (Good) that the     *)
(* arming counter is within the bounds its state relies on, that KILL mode *)
(* means off and that kill_throttle tells the motors, and of the history   *)
(* that a count in OFF_STICK_PUSHED stands for frames with the stick       *)
(* pushed.  Every operator that runs between frames keeps a good state     *)
(* good and, as far as the arming sequence goes, either leaves it alone or *)
(* resets it (Resets).                                                     *)
(***************************************************************************)
EXTENDS Autopilot, TLAPS

CountBounded(s) ==
  /\ s.arming \in {"SAFETY_WAIT", "OFF_STICK_PUSHED"} => s.motors_on_counter < ArmingDelay
  /\ s.arming = "ON_STICK_PUSHED" => s.motors_on_counter > 0

Killed(s) ==
  s.mode = "KILL" => ~s.motors_on /\ ~s.thrust /\ (TakeoffModule \/ ~s.in_flight)

Told(s) == s.kill_throttle = ~s.motors_on

Good(s) == s \in State /\ CountBounded(s) /\ Killed(s) /\ Told(s)

Resets(s, t) ==
  \/ t.arming = s.arming /\ t.motors_on_counter = s.motors_on_counter
  \/ t.arming \in {"ON", "RC_KILLED", "AUTOMATICALLY_OFF"}

-----------------------------------------------------------------------------
(* Switching the motors other than by arming keeps a good state good.      *)
LEMMA SetMotors ==
  ASSUME NEW s, Good(s), NEW motors_on \in BOOLEAN, NEW preflight \in BOOLEAN
  PROVE  LET t == autopilot_set_motors_on(s, motors_on, preflight)
         IN  Good(t) /\ Resets(s, t) /\ t.mode = s.mode /\ t.thrust = s.thrust
             /\ t.in_flight = s.in_flight /\ (~motors_on => ~t.motors_on)
<1> DEFINE t == autopilot_set_motors_on(s, motors_on, preflight)
           on == motors_on /\ s.mode # "KILL"
           arming == IF on THEN "ON"
                     ELSE IF s.kill_switch /\ s.arming = "ON" THEN "RC_KILLED"
                     ELSE "AUTOMATICALLY_OFF"
<1>1. CASE Refused(s, motors_on, preflight)
  <2>1. t = s
    BY <1>1 DEF autopilot_set_motors_on
  <2>2. s.motors_on \in BOOLEAN
    BY DEF Good, State
  <2>3. ~motors_on => ~s.motors_on
    BY <1>1, <2>2 DEF Refused
  <2> QED BY <2>1, <2>3 DEF Resets
<1>2. CASE ~Refused(s, motors_on, preflight)
  <2>1. t = [[s EXCEPT !.arming = arming] EXCEPT !.motors_on = on, !.kill_throttle = ~on]
    BY <1>2 DEF autopilot_set_motors_on, autopilot_force_motors_on, autopilot_arming_set
  <2>2. arming \in {"ON", "RC_KILLED", "AUTOMATICALLY_OFF"}
    OBVIOUS
  <2>3. s \in State
    BY DEF Good
  <2> HIDE DEF t, on, arming
  <2>4. /\ t.arming = arming /\ t.motors_on = on /\ t.kill_throttle = ~on
        /\ t.mode = s.mode /\ t.thrust = s.thrust /\ t.in_flight = s.in_flight
        /\ t.motors_on_counter = s.motors_on_counter
    BY <2>1, <2>3 DEF State
  <2>5. on \in BOOLEAN /\ (s.mode = "KILL" => ~on) /\ (~motors_on => ~on)
    BY DEF on
  <2>6. t \in State
    BY <2>1, <2>2, <2>3, <2>5 DEF State, ArmingStates
  <2>7. CountBounded(t) /\ Resets(s, t)
    BY <2>2, <2>4 DEF CountBounded, Resets
  <2>8. Killed(t) /\ Told(t)
    BY <2>4, <2>5 DEF Killed, Told, Good
  <2> QED BY <2>4, <2>5, <2>6, <2>7, <2>8 DEF Good, t
<1> QED BY <1>1, <1>2

(* Landing is not a step of the arming sequence.                           *)
LEMMA ClearInFlight ==
  ASSUME NEW s, Good(s)
  PROVE  LET t == autopilot_set_in_flight(s, FALSE)
         IN  Good(t) /\ Resets(s, t) /\ t.mode = s.mode /\ ~t.in_flight
<1>1. s \in State
  BY DEF Good
<1>2. autopilot_set_in_flight(s, FALSE) = [s EXCEPT !.in_flight = FALSE, !.in_flight_counter = 0]
  BY DEF autopilot_set_in_flight
<1> DEFINE t == autopilot_set_in_flight(s, FALSE)
<1> HIDE DEF t
<1>3. t = [s EXCEPT !.in_flight = FALSE, !.in_flight_counter = 0]
  BY <1>2 DEF t
<1>4. /\ t.in_flight = FALSE /\ t.arming = s.arming /\ t.mode = s.mode /\ t.thrust = s.thrust
      /\ t.motors_on = s.motors_on /\ t.kill_throttle = s.kill_throttle
      /\ t.motors_on_counter = s.motors_on_counter
  BY <1>1, <1>3 DEF State
<1>5. 0 \in 0..InFlightTime
  BY AutopilotAssumption
<1>6. t \in State
  BY <1>1, <1>3, <1>5 DEF State
<1>7. CountBounded(t) /\ Resets(s, t)
  BY <1>4 DEF CountBounded, Resets, Good
<1>8. Killed(t) /\ Told(t)
  BY <1>4 DEF Killed, Told, Good
<1> QED BY <1>4, <1>6, <1>7, <1>8 DEF Good, t

(* A change of mode, to KILL above all, keeps a good state good.           *)
LEMMA SetMode ==
  ASSUME NEW s, Good(s), NEW mode \in Modes
  PROVE  LET t == autopilot_set_mode(s, mode)
         IN  Good(t) /\ Resets(s, t) /\ t.mode = mode
<1> DEFINE t == autopilot_set_mode(s, mode)
<1>1. CASE mode = s.mode
  BY <1>1 DEF autopilot_set_mode, Resets
<1>2. CASE mode # s.mode /\ mode = "KILL"
  <2> DEFINE u == autopilot_set_motors_on(autopilot_set_in_flight(s, FALSE), FALSE, TRUE)
  <2>1. /\ Good(u) /\ Resets(s, u)
        /\ ~u.motors_on /\ ~u.in_flight
    BY ClearInFlight, SetMotors DEF Resets
  <2>2. t = [u EXCEPT !.mode = mode, !.thrust = FALSE]
    BY <1>2 DEF autopilot_set_mode
  <2>3. u \in State
    BY <2>1 DEF Good
  <2> HIDE DEF u, t
  <2>4. /\ t.mode = mode /\ t.thrust = FALSE
        /\ t.in_flight = u.in_flight /\ t.arming = u.arming
        /\ t.motors_on = u.motors_on /\ t.kill_throttle = u.kill_throttle
        /\ t.motors_on_counter = u.motors_on_counter
    BY <2>2, <2>3 DEF State
  <2>5. t \in State
    BY <2>2, <2>3 DEF State
  <2>6. CountBounded(t) /\ Resets(s, t)
    BY <2>1, <2>4 DEF CountBounded, Resets, Good
  <2>7. Killed(t) /\ Told(t)
    BY <2>1, <2>4 DEF Killed, Told, Good
  <2> QED BY <2>4, <2>5, <2>6, <2>7 DEF Good, t
<1>3. CASE mode # s.mode /\ mode # "KILL"
  <2>1. t = [s EXCEPT !.mode = mode]
    BY <1>3 DEF autopilot_set_mode
  <2>2. s \in State
    BY DEF Good
  <2> HIDE DEF t
  <2>3. /\ t.mode = mode /\ t.arming = s.arming
        /\ t.motors_on = s.motors_on /\ t.kill_throttle = s.kill_throttle
        /\ t.motors_on_counter = s.motors_on_counter
    BY <2>1, <2>2 DEF State
  <2>4. t \in State
    BY <2>1, <2>2 DEF State
  <2>5. CountBounded(t) /\ Resets(s, t)
    BY <2>3 DEF CountBounded, Resets, Good
  <2>6. Killed(t) /\ Told(t)
    BY <1>3, <2>3 DEF Killed, Told, Good
  <2> QED BY <2>3, <2>4, <2>5, <2>6 DEF Good, t
<1> QED BY <1>1, <1>2, <1>3

-----------------------------------------------------------------------------
(* The parts of autopilot_periodic.                                        *)

(* The modes the autopilot chooses by itself are modes.                    *)
LEMMA SafetyModesAreModes == {"KILL", "FAILSAFE", "HOME", "NAV"} \subseteq Modes
BY DEF Modes

(* The checks for a lost pilot or lost GPS keep a good state good.         *)
LEMMA FailsafeChecks ==
  ASSUME NEW s, Good(s), NEW t \in autopilot_failsafe_checks(s)
  PROVE  Good(t) /\ Resets(s, t)
<1> DEFINE u == IF status = "REALLY_LOST" /\ s.mode \notin SafetyModes \cup NavLike
                  THEN autopilot_set_mode(s, "FAILSAFE") ELSE s
<1>1. Good(u) /\ Resets(s, u)
  BY SetMode, SafetyModesAreModes DEF Resets
<1>2. t = u \/ t = autopilot_set_mode(u, "FAILSAFE")
  BY DEF autopilot_failsafe_checks
<1> HIDE DEF u
<1>3. t = u \/ (Good(t) /\ Resets(u, t))
  BY <1>1, <1>2, SetMode, SafetyModesAreModes
<1> QED BY <1>1, <1>3 DEF Resets

(* Noticing the start and the end of a flight changes nothing else.        *)
LEMMA CheckInFlight ==
  ASSUME NEW s, Good(s)
  PROVE  LET t == autopilot_check_in_flight(s) IN Good(t) /\ Resets(s, t)
<1> DEFINE t == autopilot_check_in_flight(s)
           Only(n, b) == t = [s EXCEPT !.in_flight_counter = n, !.in_flight = b]
<1>0. s \in State /\ s.in_flight_counter \in 0..InFlightTime /\ s.in_flight \in BOOLEAN
  BY DEF Good, State
<1>9. InFlightTime \in 0..InFlightTime /\ 0 \in 0..InFlightTime
  BY AutopilotAssumption
<1>1. ASSUME NEW n \in 0..InFlightTime, NEW b \in BOOLEAN, Only(n, b),
             s.mode = "KILL" => ~b \/ s.in_flight
      PROVE  Good(t) /\ Resets(s, t)
  <2>1. t = [s EXCEPT !.in_flight_counter = n, !.in_flight = b]
    BY <1>1
  <2> HIDE DEF t
  <2>2. /\ t.mode = s.mode /\ t.arming = s.arming /\ t.thrust = s.thrust /\ t.in_flight = b
        /\ t.motors_on = s.motors_on /\ t.kill_throttle = s.kill_throttle
        /\ t.motors_on_counter = s.motors_on_counter
    BY <1>0, <2>1 DEF State
  <2>3. t \in State
    BY <1>0, <2>1 DEF State
  <2>4. CountBounded(t) /\ Resets(s, t)
    BY <2>2 DEF CountBounded, Resets, Good
  <2>5. Killed(t) /\ Told(t)
    BY <1>1, <2>2 DEF Killed, Told, Good
  <2> QED BY <2>3, <2>4, <2>5 DEF Good
<1>2. t = s => Good(t) /\ Resets(s, t)
  BY DEF Resets
<1> HIDE DEF Only
<1>3. CASE s.in_flight
  <2>1. t = InFlightEnds(s)
    BY <1>3 DEF autopilot_check_in_flight
  <2>2. CASE s.in_flight_counter = 0
    BY <1>2, <2>1, <2>2 DEF InFlightEnds
  <2>3. CASE s.in_flight_counter # 0 /\ (s.thrust \/ ~resting)
    <3>1. t = [s EXCEPT !.in_flight_counter = InFlightTime]
      BY <2>1, <2>3 DEF InFlightEnds
    <3>2. Only(InFlightTime, s.in_flight)
      BY <1>0, <3>1 DEF State, Only
    <3> QED BY <1>0, <1>1, <1>3, <1>9, <3>2
  <2>4. CASE s.in_flight_counter # 0 /\ ~(s.thrust \/ ~resting)
    <3>1. Only(s.in_flight_counter - 1, s.in_flight_counter > 1)
      BY <2>1, <2>4 DEF InFlightEnds, Only
    <3>2. s.in_flight_counter - 1 \in 0..InFlightTime /\ (s.in_flight_counter > 1) \in BOOLEAN
      BY <1>0, <2>4, AutopilotAssumption
    <3> QED BY <1>1, <1>3, <3>1, <3>2
  <2> QED BY <2>2, <2>3, <2>4
<1>4. CASE ~s.in_flight
  <2>1. t = InFlightStarts(s)
    BY <1>4 DEF autopilot_check_in_flight
  <2>2. CASE s.in_flight_counter = InFlightTime \/ ~s.motors_on
    BY <1>2, <2>1, <2>2 DEF InFlightStarts
  <2>3. CASE ~(s.in_flight_counter = InFlightTime \/ ~s.motors_on) /\ s.thrust
    <3>1. Only(s.in_flight_counter + 1, s.in_flight_counter + 1 = InFlightTime)
      BY <2>1, <2>3 DEF InFlightStarts, Only
    <3>2. /\ s.in_flight_counter + 1 \in 0..InFlightTime
          /\ (s.in_flight_counter + 1 = InFlightTime) \in BOOLEAN
      BY <1>0, <2>3, AutopilotAssumption
    <3>3. s.mode # "KILL"
      BY <2>3 DEF Good, Killed
    <3> QED BY <1>1, <3>1, <3>2, <3>3
  <2>4. CASE ~(s.in_flight_counter = InFlightTime \/ ~s.motors_on) /\ ~s.thrust
    <3>1. t = [s EXCEPT !.in_flight_counter = 0]
      BY <2>1, <2>4 DEF InFlightStarts
    <3>2. Only(0, s.in_flight)
      BY <1>0, <3>1 DEF State, Only
    <3> QED BY <1>0, <1>1, <1>4, <1>9, <3>2
  <2> QED BY <2>2, <2>3, <2>4
<1> QED BY <1>3, <1>4

(* The geofence only changes the mode.                                     *)
LEMMA GeofenceKeeps ==
  ASSUME NEW s, Good(s), NEW t \in Geofence(s)
  PROVE  Good(t) /\ Resets(s, t)
<1>1. t = s \/ \E mode \in {"HOME", "FAILSAFE"} : t = autopilot_set_mode(s, mode)
  BY DEF Geofence
<1>2. CASE t = s
  BY <1>2 DEF Resets
<1>3. ASSUME NEW mode \in {"HOME", "FAILSAFE"}, t = autopilot_set_mode(s, mode)
      PROVE  Good(t) /\ Resets(s, t)
  BY <1>3, SetMode, SafetyModesAreModes
<1> QED BY <1>1, <1>2, <1>3

(* The takeoff's own state is of no concern to the motors.                 *)
LEMMA SetTakeoff ==
  ASSUME NEW s, Good(s), NEW st \in {"INIT", "START_MOTOR", "CLIMB", "DONE"}
  PROVE  LET t == [s EXCEPT !.takeoff = st] IN Good(t) /\ Resets(s, t)
<1> DEFINE t == [s EXCEPT !.takeoff = st]
<1>1. s \in State
  BY DEF Good
<1>2. t \in State
  BY <1>1 DEF State
<1>3. /\ t.mode = s.mode /\ t.arming = s.arming /\ t.thrust = s.thrust
      /\ t.in_flight = s.in_flight /\ t.motors_on = s.motors_on
      /\ t.kill_throttle = s.kill_throttle /\ t.motors_on_counter = s.motors_on_counter
  BY <1>1 DEF State
<1> HIDE DEF t
<1>4. CountBounded(t) /\ Resets(s, t)
  BY <1>3 DEF CountBounded, Resets, Good
<1>5. Killed(t) /\ Told(t)
  BY <1>3 DEF Killed, Told, Good
<1> QED BY <1>2, <1>4, <1>5 DEF Good, t

(* The climb of the takeoff module sets in_flight in any mode.             *)
LEMMA Climb ==
  ASSUME TakeoffModule, NEW s, Good(s)
  PROVE  LET t == autopilot_set_in_flight(s, TRUE) IN Good(t) /\ Resets(s, t)
<1> DEFINE t == autopilot_set_in_flight(s, TRUE)
<1>1. s \in State
  BY DEF Good
<1>2. t = [s EXCEPT !.in_flight = TRUE]
  BY <1>1 DEF autopilot_set_in_flight, State
<1> HIDE DEF t
<1>3. t \in State
  BY <1>1, <1>2 DEF State
<1>4. /\ t.mode = s.mode /\ t.arming = s.arming /\ t.thrust = s.thrust
      /\ t.motors_on = s.motors_on
      /\ t.kill_throttle = s.kill_throttle /\ t.motors_on_counter = s.motors_on_counter
  BY <1>1, <1>2 DEF State
<1>5. CountBounded(t) /\ Resets(s, t)
  BY <1>4 DEF CountBounded, Resets, Good
<1>6. Killed(t) /\ Told(t)
  BY <1>4 DEF Killed, Told, Good
<1> QED BY <1>3, <1>5, <1>6 DEF Good, t

(* The flight plan starts motors in NAV mode only.                         *)
LEMMA Resurrect ==
  ASSUME NEW s, Good(s), NEW preflight \in BOOLEAN
  PROVE  LET t == NavResurrect(s, preflight) IN Good(t) /\ Resets(s, t)
BY SetMotors DEF NavResurrect, Resets

(* The flight plan stops motors in NAV mode only.                          *)
LEMMA KillThrottle ==
  ASSUME NEW s, Good(s)
  PROVE  LET t == NavKillThrottle(s) IN Good(t) /\ Resets(s, t)
BY SetMotors DEF NavKillThrottle, Resets

(* One call of nav_takeoff_run, whichever its phase.                       *)
LEMMA TakeoffRun ==
  ASSUME TakeoffModule, NEW s, Good(s), NEW preflight \in BOOLEAN, NEW over \in BOOLEAN
  PROVE  LET t == nav_takeoff_run(s, preflight, over) IN Good(t) /\ Resets(s, t)
<1> DEFINE t == nav_takeoff_run(s, preflight, over)
           Phases == {"INIT", "START_MOTOR", "CLIMB", "DONE"}
<1>1. \E u : Good(u) /\ Resets(s, u) /\ \E st \in Phases : t = [u EXCEPT !.takeoff = st]
  <2>1. CASE s.takeoff = "INIT"
    BY <2>1 DEF nav_takeoff_run, Resets
  <2>2. CASE s.takeoff = "START_MOTOR"
    <3> DEFINE u == NavResurrect(s, preflight)
               st == IF over THEN IF u.motors_on THEN "CLIMB" ELSE "DONE" ELSE u.takeoff
    <3>1. Good(u) /\ Resets(s, u)
      BY Resurrect
    <3>2. st \in Phases
      BY <3>1 DEF Good, State
    <3>3. t = [u EXCEPT !.takeoff = st]
      BY <2>2 DEF nav_takeoff_run
    <3> QED BY <3>1, <3>2, <3>3
  <2>3. CASE s.takeoff = "CLIMB"
    <3> DEFINE u == autopilot_set_in_flight(s, TRUE)
               st == IF over THEN "DONE" ELSE u.takeoff
    <3>1. Good(u) /\ Resets(s, u)
      BY Climb
    <3>2. st \in Phases
      BY <3>1 DEF Good, State
    <3>3. t = [u EXCEPT !.takeoff = st]
      BY <2>3 DEF nav_takeoff_run
    <3> QED BY <3>1, <3>2, <3>3
  <2>4. CASE s.takeoff \notin {"INIT", "START_MOTOR", "CLIMB"}
    BY <2>4 DEF nav_takeoff_run, Resets
  <2> QED BY <2>1, <2>2, <2>3, <2>4
<1> HIDE DEF t
<1>2. PICK u : Good(u) /\ Resets(s, u) /\ \E st \in Phases : t = [u EXCEPT !.takeoff = st]
  BY <1>1
<1>3. Good(t) /\ Resets(u, t)
  BY <1>2, SetTakeoff
<1> QED BY <1>2, <1>3 DEF Resets, t

(* Whatever the flight plan calls keeps a good state good.                 *)
LEMMA FlightPlanKeeps ==
  ASSUME NEW s, Good(s), NEW t \in FlightPlan(s)
  PROVE  Good(t) /\ Resets(s, t)
<1>1. CASE t = s
  BY <1>1 DEF Resets
<1>2. CASE t = [s EXCEPT !.takeoff = "INIT"]
  BY <1>2, SetTakeoff
<1>3. CASE t = NavKillThrottle(s)
  BY <1>3, KillThrottle
<1>4. CASE t = NavResurrect(s, TRUE)
  BY <1>4, Resurrect
<1>5. CASE /\ TakeoffModule
           /\ \E preflight, over \in BOOLEAN : t = nav_takeoff_run(s, preflight, over)
  BY <1>5, TakeoffRun
<1>6. t = s \/ t = [s EXCEPT !.takeoff = "INIT"] \/ t \in PlanCalls(s)
  BY DEF FlightPlan
<1>7. ASSUME t \in PlanCalls(s)
      PROVE  \/ t = NavKillThrottle(s) \/ t = NavResurrect(s, TRUE)
             \/ /\ TakeoffModule
                /\ \E preflight, over \in BOOLEAN : t = nav_takeoff_run(s, preflight, over)
  <2> DEFINE Runs == {nav_takeoff_run(s, preflight, over) : preflight, over \in BOOLEAN}
  <2>1. t \in Runs => \E preflight, over \in BOOLEAN : t = nav_takeoff_run(s, preflight, over)
    OBVIOUS
  <2>2. PlanCalls(s) = {NavKillThrottle(s), NavResurrect(s, TRUE)}
                         \cup (IF TakeoffModule THEN Runs ELSE {})
    BY DEF PlanCalls
  <2> HIDE DEF Runs
  <2> QED BY <1>7, <2>1, <2>2
<1> QED BY <1>1, <1>2, <1>3, <1>4, <1>5, <1>6, <1>7

(* A landing in FAILSAFE kills, and nothing else does.                     *)
LEMMA LandsOrNot ==
  ASSUME NEW s, Good(s)
  PROVE  LET t == FailsafeLands(s) IN Good(t) /\ Resets(s, t)
BY SetMode, SafetyModesAreModes DEF FailsafeLands, Resets

(* Guidance sets the thrust, of turning motors only.                       *)
LEMMA GuidanceKeeps ==
  ASSUME NEW s, Good(s), NEW t \in Guidance(s)
  PROVE  Good(t) /\ Resets(s, t)
<1>1. CASE t = s
  BY <1>1 DEF Resets
<1>2. ASSUME s.mode # "KILL",
             NEW thrust \in BOOLEAN, t = [s EXCEPT !.thrust = thrust /\ s.motors_on]
      PROVE  Good(t) /\ Resets(s, t)
  <2>1. s \in State
    BY DEF Good
  <2>2. (thrust /\ s.motors_on) \in BOOLEAN
    OBVIOUS
  <2>3. t \in State
    BY <1>2, <2>1, <2>2 DEF State
  <2>4. /\ t.mode = s.mode /\ t.arming = s.arming /\ t.motors_on = s.motors_on
        /\ t.kill_throttle = s.kill_throttle /\ t.motors_on_counter = s.motors_on_counter
    BY <1>2, <2>1 DEF State
  <2>5. CountBounded(t) /\ Resets(s, t)
    BY <2>4 DEF CountBounded, Resets, Good
  <2>6. Killed(t) /\ Told(t)
    BY <1>2, <2>4 DEF Killed, Told, Good
  <2> QED BY <2>3, <2>5, <2>6 DEF Good
<1> QED BY <1>1, <1>2 DEF Guidance

(* One period, from the checks to the commands.                            *)
LEMMA PeriodicKeeps ==
  ASSUME Good(autopilot), autopilot_periodic
  PROVE  Good(autopilot') /\ Resets(autopilot, autopilot')
<1>1. PICK s \in autopilot_failsafe_checks(autopilot) :
        \E t \in Geofence(autopilot_check_in_flight(s)) :
          \E u \in FlightPlan(t) : autopilot' \in Guidance(FailsafeLands(u))
  BY DEF autopilot_periodic
<1>2. Good(s) /\ Resets(autopilot, s)
  BY FailsafeChecks
<1> DEFINE c == autopilot_check_in_flight(s)
<1>3. Good(c) /\ Resets(s, c)
  BY <1>2, CheckInFlight
<1>4. PICK t \in Geofence(c) : \E u \in FlightPlan(t) : autopilot' \in Guidance(FailsafeLands(u))
  BY <1>1
<1> HIDE DEF c
<1>5. Good(t) /\ Resets(c, t)
  BY <1>3, GeofenceKeeps
<1>6. PICK u \in FlightPlan(t) : autopilot' \in Guidance(FailsafeLands(u))
  BY <1>4
<1>7. Good(u) /\ Resets(t, u)
  BY <1>5, FlightPlanKeeps
<1> DEFINE l == FailsafeLands(u)
<1>8. Good(l) /\ Resets(u, l)
  BY <1>7, LandsOrNot
<1>9. autopilot' \in Guidance(l)
  BY <1>6
<1> HIDE DEF l
<1>10. Good(autopilot') /\ Resets(l, autopilot')
  BY <1>8, <1>9, GuidanceKeeps
<1> QED BY <1>2, <1>3, <1>5, <1>7, <1>8, <1>10 DEF Resets

-----------------------------------------------------------------------------
(* Radio frames.  Sticks relates the state a frame finds, once its mode is *)
(* chosen, to the one it leaves: only a pushed stick starts or continues a *)
(* count, and only a full count reaches START.                             *)

Sticks(s, f, t) ==
  /\ t.arming = "START" /\ s.arming # "START" =>
       s.arming = "OFF_STICK_PUSHED" /\ s.motors_on_counter + 1 >= ArmingDelay
  /\ t.arming = "OFF_STICK_PUSHED" =>
       /\ ArmingValid(f, FALSE)
       /\ \/ t.motors_on_counter = 0
          \/ s.arming = "OFF_STICK_PUSHED" /\ t.motors_on_counter = s.motors_on_counter + 1

(* The switches of a frame choose a mode and keep the rest.                *)
LEMMA FrameMode ==
  ASSUME NEW s, Good(s), NEW f \in Frame, NEW k \in BOOLEAN,
         NEW t \in ModeOfFrame([s EXCEPT !.kill_switch = k], f)
  PROVE  Good(t) /\ Resets(s, t)
<1> DEFINE u == [s EXCEPT !.kill_switch = k]
<1>1. s \in State
  BY DEF Good
<1>2. u \in State
  BY <1>1 DEF State
<1>3. /\ u.mode = s.mode /\ u.arming = s.arming /\ u.thrust = s.thrust
      /\ u.in_flight = s.in_flight /\ u.motors_on = s.motors_on
      /\ u.kill_throttle = s.kill_throttle /\ u.motors_on_counter = s.motors_on_counter
  BY <1>1 DEF State
<1>4. t = u \/ \E mode \in Modes : t = autopilot_set_mode(u, mode)
  BY DEF ModeOfFrame, Frame, Modes, Manual
<1> HIDE DEF u
<1>5. CountBounded(u) /\ Resets(s, u)
  BY <1>3 DEF CountBounded, Resets, Good
<1>6. Killed(u) /\ Told(u)
  BY <1>3 DEF Killed, Told, Good
<1>7. Good(u)
  BY <1>2, <1>5, <1>6 DEF Good
<1> QED BY <1>4, <1>5, <1>7, SetMode DEF Resets

(* Switching the motors leaves the arming sequence where it is.            *)
LEMMA ArmMotors ==
  ASSUME NEW s \in State, NEW motors_on \in BOOLEAN, NEW preflight \in BOOLEAN
  PROVE  LET t == Motors(s, motors_on, preflight)
         IN  /\ t \in State /\ t.arming = s.arming /\ t.mode = s.mode
             /\ t.motors_on_counter = s.motors_on_counter
<1> DEFINE t == Motors(s, motors_on, preflight)
<1>1. t = s \/ t = [s EXCEPT !.motors_on = motors_on]
  BY DEF Motors, autopilot_arming_motors_on
<1> HIDE DEF t
<1> QED BY <1>1 DEF State, t

(* Setting the counter leaves the rest where it is.                        *)
LEMMA CountsTo ==
  ASSUME NEW s \in State, NEW n \in 0..ArmingDelay
  PROVE  LET t == Counts(s, n)
         IN  t \in State /\ t.arming = s.arming /\ t.mode = s.mode /\ t.motors_on_counter = n
BY DEF Counts, State

(* The two together, as a frame does them.                                 *)
LEMMA SwitchAndCount ==
  ASSUME NEW s \in State, NEW motors_on \in BOOLEAN, NEW preflight \in BOOLEAN,
         NEW n \in 0..ArmingDelay
  PROVE  LET t == Counts(Motors(s, motors_on, preflight), n)
         IN  t \in State /\ t.arming = s.arming /\ t.mode = s.mode /\ t.motors_on_counter = n
<1> DEFINE u == Motors(s, motors_on, preflight)
<1>1. u \in State /\ u.arming = s.arming /\ u.mode = s.mode
  BY ArmMotors
<1> HIDE DEF u
<1>2. LET t == Counts(u, n)
      IN  t \in State /\ t.arming = u.arming /\ t.mode = u.mode /\ t.motors_on_counter = n
  BY <1>1, CountsTo
<1> QED BY <1>1, <1>2 DEF u

(* kill_throttle is set last, from motors_on.                              *)
LEMMA EndOfFrame ==
  ASSUME NEW u \in State, CountBounded(u), u.mode = "KILL" => Killed(u)
  PROVE  LET t == FrameEnds(u)
         IN  /\ Good(t) /\ t.mode = u.mode
             /\ t.arming = u.arming /\ t.motors_on_counter = u.motors_on_counter
<1> DEFINE t == [u EXCEPT !.kill_throttle = ~u.motors_on]
<1>1. t \in State
  BY DEF State
<1>2. /\ t.mode = u.mode /\ t.arming = u.arming /\ t.thrust = u.thrust
      /\ t.in_flight = u.in_flight /\ t.motors_on = u.motors_on
      /\ t.motors_on_counter = u.motors_on_counter
  BY DEF State
<1>3. t.kill_throttle = ~u.motors_on
  BY DEF State
<1> HIDE DEF t
<1>4. CountBounded(t)
  BY <1>2 DEF CountBounded
<1>5. Killed(t) /\ Told(t)
  BY <1>2, <1>3 DEF Killed, Told
<1>6. Good(t)
  BY <1>1, <1>4, <1>5 DEF Good
<1> QED BY <1>2, <1>6 DEF FrameEnds, t

(* One frame, once its mode is chosen: each state of the arming sequence.  *)
LEMMA FrameArms ==
  ASSUME NEW s, Good(s), NEW f \in Frame, NEW preflight \in BOOLEAN,
         ArmingCheck(s, f, preflight)
  PROVE  Good(autopilot') /\ autopilot'.mode = s.mode
         /\ (s.mode # "KILL" => Sticks(s, f, autopilot'))
         /\ (s.mode = "KILL" => Resets(s, autopilot'))
<1>0. /\ s \in State /\ s.motors_on_counter \in 0..ArmingDelay /\ s.arming \in ArmingStates
      /\ 0 \in 0..ArmingDelay /\ ArmingDelay \in 0..ArmingDelay /\ ArmingDelay > 0
  BY AutopilotAssumption DEF Good, State
<1> DEFINE Leaves(u) == /\ u \in State /\ CountBounded(u) /\ u.mode = s.mode
                        /\ Sticks(s, f, u)
           Valid(yaw) == ArmingValid(f, yaw)
<1>1. ASSUME s.mode = "KILL", ArmingKilled(s)
      PROVE  Good(autopilot') /\ autopilot'.mode = s.mode /\ Resets(s, autopilot')
  <2>1. Motors(s, FALSE, TRUE) = s
    <3>1. s.motors_on = FALSE
      BY <1>1, <1>0 DEF Good, Killed, State
    <3> QED BY <3>1 DEF Motors, autopilot_arming_motors_on, Refused
  <2>2. autopilot' = FrameEnds(s)
    BY <1>1, <2>1 DEF ArmingKilled
  <2>3. CountBounded(s) /\ Killed(s)
    BY DEF Good
  <2> QED BY <1>0, <2>2, <2>3, EndOfFrame DEF Resets
<1>2. ASSUME s.mode # "KILL", NEW u, Leaves(u), autopilot' = FrameEnds(u)
      PROVE  Good(autopilot') /\ autopilot'.mode = s.mode /\ Sticks(s, f, autopilot')
  <2>1. /\ Good(autopilot') /\ autopilot'.mode = u.mode /\ autopilot'.arming = u.arming
        /\ autopilot'.motors_on_counter = u.motors_on_counter
    BY <1>2, EndOfFrame
  <2> QED BY <1>2, <2>1 DEF Sticks
<1>3. /\ "OFF" \in ArmingStates /\ "OFF_STICK_PUSHED" \in ArmingStates
      /\ "SAFETY_WAIT" \in ArmingStates /\ "START" \in ArmingStates /\ "ON" \in ArmingStates
      /\ "ON_STICK_PUSHED" \in ArmingStates /\ "STOP" \in ArmingStates
  BY DEF ArmingStates
<1>5. ASSUME ArmingWaits(s, f)
      PROVE  \E u : Leaves(u) /\ autopilot' = FrameEnds(u)
  <2>1. CASE s.arming = "INITIALISE_RC"
    <3> DEFINE u == Goes(s, Valid(TRUE), "OFF")
    <3>1. autopilot' = FrameEnds(u)
      BY <1>5, <2>1 DEF ArmingWaits
    <3>2. u = s \/ u = [s EXCEPT !.arming = "OFF"]
      BY DEF Goes
    <3> HIDE DEF u
    <3>3. u \in State /\ u.mode = s.mode /\ u.arming \in {"INITIALISE_RC", "OFF"}
      BY <1>0, <1>3, <2>1, <3>2 DEF State
    <3>4. Leaves(u)
      BY <3>3 DEF CountBounded, Sticks
    <3> QED BY <3>1, <3>4
  <2>2. CASE s.arming = "RC_KILLED"
    <3>1. PICK u \in {[s EXCEPT !.arming = "ON", !.motors_on = TRUE],
                      [s EXCEPT !.arming = "AUTOMATICALLY_OFF", !.motors_on = FALSE]} :
             autopilot' = FrameEnds(u)
      BY <1>5, <2>2 DEF ArmingWaits
    <3>2. u \in State /\ u.mode = s.mode /\ u.arming \in {"ON", "AUTOMATICALLY_OFF"}
      BY <1>0 DEF State, ArmingStates
    <3>3. Leaves(u)
      BY <3>2 DEF CountBounded, Sticks
    <3> QED BY <3>1, <3>3
  <2>3. CASE s.arming = "AUTOMATICALLY_OFF"
    <3> DEFINE v == Counts(Motors(s, FALSE, TRUE), 0)
               u == Goes(v, Valid(TRUE), "SAFETY_WAIT")
    <3>1. autopilot' = FrameEnds(u)
      BY <1>5, <2>3 DEF ArmingWaits
    <3>3. v \in State /\ v.arming = s.arming /\ v.mode = s.mode /\ v.motors_on_counter = 0
      BY <1>0, SwitchAndCount
    <3> HIDE DEF v
    <3>4. u = v \/ u = [v EXCEPT !.arming = "SAFETY_WAIT"]
      BY DEF Goes
    <3> HIDE DEF u
    <3>5. /\ u \in State /\ u.mode = s.mode /\ u.motors_on_counter = 0
          /\ u.arming \in {"AUTOMATICALLY_OFF", "SAFETY_WAIT"}
      BY <1>3, <2>3, <3>3, <3>4 DEF State
    <3>6. Leaves(u)
      BY <1>0, <3>5 DEF CountBounded, Sticks
    <3> QED BY <3>1, <3>6
  <2>4. CASE s.arming = "SAFETY_WAIT"
    <3> DEFINE n == s.motors_on_counter + 1
               v == Counts(s, n)
               u == Goes(v, n >= ArmingDelay, "OFF")
    <3>1. autopilot' = FrameEnds(u)
      BY <1>5, <2>4 DEF ArmingWaits
    <3>2. n \in 0..ArmingDelay
      BY <1>0, <2>4, AutopilotAssumption DEF Good, CountBounded
    <3> HIDE DEF n
    <3>3. v \in State /\ v.arming = s.arming /\ v.mode = s.mode /\ v.motors_on_counter = n
      BY <1>0, <3>2, CountsTo
    <3> HIDE DEF v
    <3>4. u = [v EXCEPT !.arming = "OFF"] \/ (u = v /\ ~(n >= ArmingDelay))
      BY DEF Goes
    <3> HIDE DEF u
    <3>5. u \in State /\ u.mode = s.mode /\ u.motors_on_counter = n
      BY <1>3, <3>3, <3>4 DEF State
    <3>6. u.arming = "OFF" \/ (u.arming = "SAFETY_WAIT" /\ ~(n >= ArmingDelay))
      BY <1>3, <2>4, <3>3, <3>4 DEF State
    <3>7. u.arming = "OFF" \/ (u.arming = "SAFETY_WAIT" /\ u.motors_on_counter < ArmingDelay)
      BY <3>2, <3>5, <3>6, AutopilotAssumption
    <3>8. Leaves(u)
      BY <3>5, <3>7 DEF CountBounded, Sticks
    <3> QED BY <3>1, <3>8
  <2> QED BY <1>5, <2>1, <2>2, <2>3, <2>4 DEF ArmingWaits
<1>6. ASSUME ArmingStarts(s, f, preflight)
      PROVE  \E u : Leaves(u) /\ autopilot' = FrameEnds(u)
  <2>1. CASE s.arming = "OFF"
    <3> DEFINE v == Counts(Motors(s, FALSE, TRUE), 0)
               u == Goes(v, Valid(FALSE), "OFF_STICK_PUSHED")
    <3>1. autopilot' = FrameEnds(u)
      BY <1>6, <2>1 DEF ArmingStarts
    <3>2. v \in State /\ v.arming = s.arming /\ v.mode = s.mode /\ v.motors_on_counter = 0
      BY <1>0, SwitchAndCount
    <3> HIDE DEF v
    <3>3. u = v \/ (u = [v EXCEPT !.arming = "OFF_STICK_PUSHED"] /\ ArmingValid(f, FALSE))
      BY DEF Goes
    <3> HIDE DEF u
    <3>4. /\ u \in State /\ u.mode = s.mode /\ u.motors_on_counter = 0
          /\ u.arming = "OFF" \/ (u.arming = "OFF_STICK_PUSHED" /\ ArmingValid(f, FALSE))
      BY <1>3, <2>1, <3>2, <3>3 DEF State
    <3>5. Leaves(u)
      BY <1>0, <3>4 DEF CountBounded, Sticks
    <3> QED BY <3>1, <3>5
  <2>2. CASE s.arming = "OFF_STICK_PUSHED"
    <3> DEFINE n == s.motors_on_counter + 1
               v == Counts(Motors(s, FALSE, TRUE), n)
               u == IF n >= ArmingDelay THEN Goes(v, TRUE, "START")
                    ELSE Goes(v, ~Valid(FALSE), "OFF")
    <3>1. autopilot' = FrameEnds(u)
      BY <1>6, <2>2 DEF ArmingStarts
    <3>2. n \in 0..ArmingDelay
      BY <1>0, <2>2, AutopilotAssumption DEF Good, CountBounded
    <3>3. n = s.motors_on_counter + 1
      OBVIOUS
    <3> HIDE DEF n
    <3>4. v \in State /\ v.arming = s.arming /\ v.mode = s.mode /\ v.motors_on_counter = n
      BY <1>0, <3>2, SwitchAndCount
    <3> HIDE DEF v
    <3>5. \/ u = [v EXCEPT !.arming = "START"] /\ n >= ArmingDelay
          \/ u = [v EXCEPT !.arming = "OFF"]
          \/ u = v /\ ~(n >= ArmingDelay) /\ ArmingValid(f, FALSE)
      BY DEF Goes
    <3> HIDE DEF u
    <3>6. u \in State /\ u.mode = s.mode /\ u.motors_on_counter = n
      BY <1>3, <3>4, <3>5 DEF State
    <3>7. \/ u.arming = "START" /\ n >= ArmingDelay
          \/ u.arming = "OFF"
          \/ u.arming = "OFF_STICK_PUSHED" /\ ~(n >= ArmingDelay) /\ ArmingValid(f, FALSE)
      BY <1>3, <2>2, <3>4, <3>5 DEF State
    <3>8. n >= ArmingDelay \/ n < ArmingDelay
      BY <3>2, AutopilotAssumption
    <3>9. CountBounded(u)
      BY <3>6, <3>7, <3>8 DEF CountBounded
    <3>10. Sticks(s, f, u)
      BY <2>2, <3>3, <3>6, <3>7 DEF Sticks
    <3> QED BY <3>1, <3>6, <3>9, <3>10
  <2>3. CASE s.arming = "START"
    <3> DEFINE v == Counts(Motors(s, TRUE, preflight), ArmingDelay)
               w == [v EXCEPT !.in_flight = FALSE, !.in_flight_counter = 0]
               u == Goes(w, f.yaw = "centred", IF w.motors_on THEN "ON" ELSE "OFF")
    <3>1. autopilot' = FrameEnds(u)
      BY <1>6, <2>3 DEF ArmingStarts, autopilot_set_in_flight
    <3>2. /\ v \in State /\ v.arming = s.arming /\ v.mode = s.mode
          /\ v.motors_on_counter = ArmingDelay
      BY <1>0, SwitchAndCount
    <3> HIDE DEF v
    <3>3. 0 \in 0..InFlightTime
      BY AutopilotAssumption
    <3>4. w \in State /\ w.arming = s.arming /\ w.mode = s.mode
      BY <3>2, <3>3 DEF State
    <3> HIDE DEF w
    <3>5. u = w \/ u = [w EXCEPT !.arming = "ON"] \/ u = [w EXCEPT !.arming = "OFF"]
      BY DEF Goes
    <3> HIDE DEF u
    <3>6. u \in State /\ u.mode = s.mode /\ u.arming \in {"START", "ON", "OFF"}
      BY <1>3, <2>3, <3>4, <3>5 DEF State
    <3>7. Leaves(u)
      BY <2>3, <3>6 DEF CountBounded, Sticks
    <3> QED BY <3>1, <3>7
  <2> QED BY <1>6, <2>1, <2>2, <2>3 DEF ArmingStarts
<1>7. ASSUME ArmingStops(s, f, preflight)
      PROVE  \E u : Leaves(u) /\ autopilot' = FrameEnds(u)
  <2>1. CASE s.arming = "ON"
    <3> DEFINE v == Counts(Motors(s, TRUE, preflight), ArmingDelay)
               u == Goes(v, StickPushed(f), "ON_STICK_PUSHED")
    <3>1. autopilot' = FrameEnds(u)
      BY <1>7, <2>1 DEF ArmingStops
    <3>2. /\ v \in State /\ v.arming = s.arming /\ v.mode = s.mode
          /\ v.motors_on_counter = ArmingDelay
      BY <1>0, SwitchAndCount
    <3> HIDE DEF v
    <3>3. u = v \/ u = [v EXCEPT !.arming = "ON_STICK_PUSHED"]
      BY DEF Goes
    <3> HIDE DEF u
    <3>4. /\ u \in State /\ u.mode = s.mode /\ u.motors_on_counter = ArmingDelay
          /\ u.arming \in {"ON", "ON_STICK_PUSHED"}
      BY <1>3, <2>1, <3>2, <3>3 DEF State
    <3>5. Leaves(u)
      BY <1>0, <3>4 DEF CountBounded, Sticks
    <3> QED BY <3>1, <3>5
  <2>2. CASE s.arming = "ON_STICK_PUSHED"
    <3> DEFINE n == s.motors_on_counter - 1
               v == Counts(Motors(s, TRUE, preflight), n)
               u == IF n = 0 THEN Goes(v, TRUE, "STOP") ELSE Goes(v, ~StickPushed(f), "ON")
    <3>1. autopilot' = FrameEnds(u)
      BY <1>7, <2>2 DEF ArmingStops
    <3>2. n \in 0..ArmingDelay
      BY <1>0, <2>2, AutopilotAssumption DEF Good, CountBounded
    <3> HIDE DEF n
    <3>3. v \in State /\ v.arming = s.arming /\ v.mode = s.mode /\ v.motors_on_counter = n
      BY <1>0, <3>2, SwitchAndCount
    <3> HIDE DEF v
    <3>4. \/ u = [v EXCEPT !.arming = "STOP"] \/ u = [v EXCEPT !.arming = "ON"]
          \/ u = v /\ n # 0
      BY DEF Goes
    <3> HIDE DEF u
    <3>5. u \in State /\ u.mode = s.mode /\ u.motors_on_counter = n
      BY <1>3, <3>3, <3>4 DEF State
    <3>6. u.arming \in {"STOP", "ON"} \/ (u.arming = "ON_STICK_PUSHED" /\ n # 0)
      BY <1>3, <2>2, <3>3, <3>4 DEF State
    <3>7. CountBounded(u)
      BY <3>2, <3>5, <3>6, AutopilotAssumption DEF CountBounded
    <3>8. Sticks(s, f, u)
      BY <3>6 DEF Sticks
    <3> QED BY <3>1, <3>5, <3>7, <3>8
  <2>3. CASE s.arming = "STOP"
    <3> DEFINE v == Counts(Motors(s, FALSE, TRUE), 0)
               u == Goes(v, Valid(TRUE), "OFF")
    <3>1. autopilot' = FrameEnds(u)
      BY <1>7, <2>3 DEF ArmingStops
    <3>2. v \in State /\ v.arming = s.arming /\ v.mode = s.mode
      BY <1>0, SwitchAndCount
    <3> HIDE DEF v
    <3>3. u = v \/ u = [v EXCEPT !.arming = "OFF"]
      BY DEF Goes
    <3> HIDE DEF u
    <3>4. u \in State /\ u.mode = s.mode /\ u.arming \in {"STOP", "OFF"}
      BY <1>3, <2>3, <3>2, <3>3 DEF State
    <3>5. Leaves(u)
      BY <3>4 DEF CountBounded, Sticks
    <3> QED BY <3>1, <3>5
  <2> QED BY <1>7, <2>1, <2>2, <2>3 DEF ArmingStops
<1> HIDE DEF Leaves
<1> QED BY <1>1, <1>2, <1>5, <1>6, <1>7 DEF ArmingCheck, ArmingKilled

-----------------------------------------------------------------------------
(* The invariant.                                                          *)

HistoryOk ==
  /\ status \in {"OK", "LOST", "REALLY_LOST"}
  /\ time_since_last_frame \in 0..ReallyLostTime
  /\ resting \in BOOLEAN
  /\ pushed \in 0..ArmingDelay /\ period \in {0, 1}
  /\ autopilot.arming = "OFF_STICK_PUSHED" => pushed >= autopilot.motors_on_counter + 1

IInv == Good(autopilot) /\ HistoryOk

(* The first state is good.                                                *)
LEMMA InitGood == Init => IInv
<1> SUFFICES ASSUME Init PROVE IInv
  OBVIOUS
<1>1. /\ 0 \in 0..InFlightTime /\ 0 \in 0..ArmingDelay
      /\ ReallyLostTime \in 0..ReallyLostTime
  BY AutopilotAssumption
<1>2. autopilot \in State
  BY <1>1 DEF Init, State, Modes, ArmingStates
<1>3. CountBounded(autopilot) /\ Killed(autopilot) /\ Told(autopilot)
  BY DEF Init, CountBounded, Killed, Told
<1>4. HistoryOk
  BY <1>1 DEF Init, HistoryOk
<1> QED BY <1>2, <1>3, <1>4 DEF IInv, Good

(* A frame lengthens the history exactly when the stick is pushed.         *)
LEMMA FrameGood ==
  ASSUME IInv, NEW f \in Frame, RcFrame(f)
  PROVE  /\ IInv'
         /\ autopilot.arming # "START" /\ autopilot'.arming = "START" => pushed = ArmingDelay
<1> DEFINE k == f.switch = "KILL"
<1>1. PICK s \in ModeOfFrame([autopilot EXCEPT !.kill_switch = k], f), preflight \in BOOLEAN :
        ArmingCheck(s, f, preflight)
  BY DEF RcFrame
<1>2. k \in BOOLEAN
  OBVIOUS
<1> HIDE DEF k
<1>3. Good(s) /\ Resets(autopilot, s)
  BY <1>1, <1>2, FrameMode DEF IInv
<1>4. /\ Good(autopilot') /\ autopilot'.mode = s.mode
      /\ s.mode # "KILL" => Sticks(s, f, autopilot')
      /\ s.mode = "KILL" => Resets(s, autopilot')
  BY <1>1, <1>3, FrameArms
<1>5. /\ pushed \in 0..ArmingDelay /\ ArmingDelay \in Nat /\ ArmingDelay > 0
      /\ autopilot.motors_on_counter \in 0..ArmingDelay
      /\ autopilot'.motors_on_counter \in 0..ArmingDelay
  BY <1>4, AutopilotAssumption DEF IInv, HistoryOk, Good, State
<1>6. pushed' = IF autopilot'.mode = "KILL" THEN pushed
                ELSE IF f.throttle # "down, level" \/ f.yaw = "centred" THEN 0
                ELSE IF pushed < ArmingDelay THEN pushed + 1 ELSE pushed
  BY DEF RcFrame
<1>7. pushed' \in 0..ArmingDelay
  <2>1. pushed' \in {0, pushed} \/ (pushed < ArmingDelay /\ pushed' = pushed + 1)
    BY <1>6
  <2> QED BY <1>5, <2>1
<1>11. /\ status' \in {"OK", "LOST", "REALLY_LOST"} /\ resting' \in BOOLEAN
       /\ time_since_last_frame' \in 0..ReallyLostTime /\ period' \in {0, 1}
  <2>1. /\ status' = "OK" /\ time_since_last_frame' = 0
        /\ resting' = resting /\ period' = period
    BY DEF RcFrame
  <2>2. 0 \in 0..ReallyLostTime /\ resting \in BOOLEAN /\ period \in {0, 1}
    BY AutopilotAssumption DEF IInv, HistoryOk
  <2> QED BY <2>1, <2>2
<1>8. ArmingValid(f, FALSE) => f.throttle = "down, level" /\ f.yaw # "centred"
  BY DEF ArmingValid
<1>9. CASE s.mode = "KILL"
  <2>1. Resets(autopilot, autopilot') /\ pushed' = pushed
    BY <1>3, <1>4, <1>6, <1>9 DEF Resets
  <2>2. autopilot'.arming = "OFF_STICK_PUSHED" => pushed' >= autopilot'.motors_on_counter + 1
    BY <2>1 DEF Resets, IInv, HistoryOk
  <2>3. ~(autopilot.arming # "START" /\ autopilot'.arming = "START")
    BY <2>1 DEF Resets
  <2> QED BY <1>4, <1>7, <1>11, <2>2, <2>3 DEF IInv, HistoryOk
<1>10. CASE s.mode # "KILL"
  <2>1. Sticks(s, f, autopilot')
    BY <1>4, <1>10
  <2>2. pushed' = IF f.throttle # "down, level" \/ f.yaw = "centred" THEN 0
                  ELSE IF pushed < ArmingDelay THEN pushed + 1 ELSE pushed
    BY <1>4, <1>6, <1>10
  <2>3. s.arming = "OFF_STICK_PUSHED" => pushed >= s.motors_on_counter + 1
    BY <1>3 DEF Resets, IInv, HistoryOk
  <2>4. s.motors_on_counter \in 0..ArmingDelay
    BY <1>3 DEF Good, State
  <2>5. CountBounded(autopilot')
    BY <1>4 DEF Good
  <2>6. autopilot'.arming = "OFF_STICK_PUSHED" => pushed' >= autopilot'.motors_on_counter + 1
    <3> SUFFICES ASSUME autopilot'.arming = "OFF_STICK_PUSHED"
                 PROVE  pushed' >= autopilot'.motors_on_counter + 1
      OBVIOUS
    <3>1. autopilot'.motors_on_counter < ArmingDelay
      BY <2>5 DEF CountBounded
    <3>2. pushed' = IF pushed < ArmingDelay THEN pushed + 1 ELSE pushed
      BY <1>8, <2>1, <2>2 DEF Sticks
    <3>3. CASE autopilot'.motors_on_counter = 0
      BY <1>5, <3>2, <3>3
    <3>4. CASE /\ s.arming = "OFF_STICK_PUSHED"
               /\ autopilot'.motors_on_counter = s.motors_on_counter + 1
      BY <1>5, <2>3, <2>4, <3>1, <3>2, <3>4
    <3> QED BY <2>1, <3>3, <3>4 DEF Sticks
  <2>7. autopilot.arming # "START" /\ autopilot'.arming = "START" => pushed = ArmingDelay
    <3> SUFFICES ASSUME autopilot.arming # "START", autopilot'.arming = "START"
                 PROVE  pushed = ArmingDelay
      OBVIOUS
    <3>1. s.arming # "START"
      BY <1>3 DEF Resets
    <3>2. s.arming = "OFF_STICK_PUSHED" /\ s.motors_on_counter + 1 >= ArmingDelay
      BY <2>1, <3>1 DEF Sticks
    <3> QED BY <1>5, <2>3, <2>4, <3>2
  <2> QED BY <1>4, <1>7, <1>11, <2>6, <2>7 DEF IInv, HistoryOk
<1> QED BY <1>9, <1>10

(* Every other action keeps the sequence or resets it.                     *)
LEMMA QuietGood ==
  ASSUME IInv, Good(autopilot'), Resets(autopilot, autopilot'),
         UNCHANGED <<resting, pushed>> \/ (resting' = ~resting /\ UNCHANGED pushed),
         period' \in {0, 1}, status' \in {"OK", "LOST", "REALLY_LOST"},
         time_since_last_frame' \in 0..ReallyLostTime
  PROVE  /\ IInv'
         /\ ~(autopilot.arming # "START" /\ autopilot'.arming = "START")
<1>1. pushed' \in 0..ArmingDelay /\ resting' \in BOOLEAN
  BY DEF IInv, HistoryOk
<1>2. autopilot'.arming = "OFF_STICK_PUSHED" => pushed' >= autopilot'.motors_on_counter + 1
  BY DEF Resets, IInv, HistoryOk
<1>3. ~(autopilot.arming # "START" /\ autopilot'.arming = "START")
  BY DEF Resets
<1> QED BY <1>1, <1>2, <1>3 DEF IInv, HistoryOk

(* Every step keeps the invariant and arms only by the stick.              *)
LEMMA NextGood ==
  ASSUME IInv, [Next]_vars
  PROVE  /\ IInv'
         /\ autopilot.arming # "START" /\ autopilot'.arming = "START" => pushed = ArmingDelay
<1>0. /\ Good(autopilot) /\ status \in {"OK", "LOST", "REALLY_LOST"}
      /\ time_since_last_frame \in 0..ReallyLostTime /\ period \in {0, 1}
  BY DEF IInv, HistoryOk
<1>1. ASSUME NEW f \in Frame, RcFrame(f)
      PROVE  /\ IInv'
             /\ autopilot.arming # "START" /\ autopilot'.arming = "START" => pushed = ArmingDelay
  BY <1>1, FrameGood
<1>2. CASE radio_control_periodic_task
  <2>1. /\ time_since_last_frame' \in 0..ReallyLostTime
        /\ status' \in {"OK", "LOST", "REALLY_LOST"}
    BY <1>0, <1>2, AutopilotAssumption DEF radio_control_periodic_task
  <2>2. autopilot' = autopilot /\ UNCHANGED <<resting, pushed, period>>
    BY <1>2 DEF radio_control_periodic_task
  <2>3. Good(autopilot') /\ Resets(autopilot, autopilot')
    BY <1>0, <2>2 DEF Resets
  <2> QED BY <1>0, <2>1, <2>2, <2>3, QuietGood
<1>3. CASE autopilot_periodic
  <2>1. /\ UNCHANGED <<status, time_since_last_frame, resting, pushed>>
        /\ period' \in {0, 1}
    BY <1>0, <1>3 DEF autopilot_periodic
  <2> QED BY <1>0, <1>3, <2>1, PeriodicKeeps, QuietGood
<1>4. ASSUME NEW mode \in Modes, autopilot_SetModeHandler(mode)
      PROVE  /\ IInv'
             /\ ~(autopilot.arming # "START" /\ autopilot'.arming = "START")
  <2>1. /\ UNCHANGED <<status, time_since_last_frame, resting, pushed, period>>
        /\ autopilot' = autopilot_set_mode(autopilot, mode)
    BY <1>4 DEF autopilot_SetModeHandler
  <2>2. Good(autopilot') /\ Resets(autopilot, autopilot')
    BY <1>0, <2>1, SetMode
  <2> QED BY <1>0, <2>1, <2>2, QuietGood
<1>5. ASSUME NEW kill \in BOOLEAN, autopilot_set_kill_throttle(kill)
      PROVE  /\ IInv'
             /\ ~(autopilot.arming # "START" /\ autopilot'.arming = "START")
  <2>1. PICK preflight \in BOOLEAN :
          autopilot' = autopilot_set_motors_on(autopilot, ~kill, preflight)
    BY <1>5 DEF autopilot_set_kill_throttle
  <2>2. UNCHANGED <<status, time_since_last_frame, resting, pushed, period>>
    BY <1>5 DEF autopilot_set_kill_throttle
  <2>3. PICK on \in BOOLEAN : autopilot' = autopilot_set_motors_on(autopilot, on, preflight)
    <3>1. CASE kill = TRUE
      BY <2>1, <3>1
    <3>2. CASE kill = FALSE
      BY <2>1, <3>2
    <3> QED BY <3>1, <3>2
  <2>4. Good(autopilot') /\ Resets(autopilot, autopilot')
    BY <1>0, <2>3, SetMotors
  <2> QED BY <1>0, <2>2, <2>4, QuietGood
<1>6. CASE Vehicle
  <2>1. /\ autopilot' = autopilot /\ resting' = ~resting
        /\ UNCHANGED <<status, time_since_last_frame, pushed, period>>
    BY <1>6 DEF Vehicle
  <2>2. Good(autopilot') /\ Resets(autopilot, autopilot')
    BY <1>0, <2>1 DEF Resets
  <2> QED BY <1>0, <2>1, <2>2, QuietGood
<1>7. CASE UNCHANGED vars
  BY <1>7 DEF vars, IInv, HistoryOk
<1> QED BY <1>1, <1>2, <1>3, <1>4, <1>5, <1>6, <1>7 DEF Next

(* The invariant holds in every state.                                     *)
THEOREM Invariance == Spec => []IInv
<1>1. IInv /\ [Next]_vars => IInv'
  BY NextGood
<1> QED BY InitGood, <1>1, PTL DEF Spec

(* TypeOK: counters stay within their delays, for every delay.             *)
THEOREM AutopilotTyping == Spec => []TypeOK
<1>1. IInv => TypeOK
  BY DEF IInv, Good, HistoryOk, TypeOK
<1> QED BY <1>1, Invariance, PTL

(* KILL mode means off, for every delay, with or without a kill switch,    *)
(* unless the takeoff module sets in_flight by itself.                     *)
THEOREM AutopilotKilled ==
  ASSUME ~TakeoffModule PROVE Spec => []KilledIsOff
<1>1. IInv => KilledIsOff
  BY DEF IInv, Good, Killed, KilledIsOff
<1> QED BY <1>1, Invariance, PTL

(* kill_throttle tells whether the motors are off, whoever switched them.  *)
THEOREM AutopilotKillThrottle == Spec => []KillThrottleTellsMotors
<1>1. IInv => KillThrottleTellsMotors
  BY DEF IInv, Good, Told, KillThrottleTellsMotors
<1> QED BY <1>1, Invariance, PTL

(* The arming sequence reaches START only by MOTOR_ARMING_DELAY frames in  *)
(* a row with the stick pushed, for every delay.                           *)
THEOREM AutopilotArmed == Spec => ArmedByStick
<1>1. IInv /\ [Next]_vars =>
        [autopilot.arming # "START" /\ autopilot'.arming = "START" => pushed = ArmingDelay]_vars
  BY NextGood
<1> QED BY <1>1, Invariance, PTL DEF Spec, ArmedByStick
=============================================================================
