----------------------------- MODULE Autopilot -----------------------------
(***************************************************************************)
(* The rotorcraft autopilot: modes, motors, arming by the yaw stick,       *)
(* in-flight detection, loss of the radio control and failsafe.  Radio     *)
(* frames, datalink settings, the 60 Hz radio task and the autopilot's     *)
(* period run on one thread, in any order.                                 *)
(* (autopilot.c, autopilot_static.c, autopilot_firmware.c,                 *)
(* autopilot_arming_yaw.h, radio_control.c, rc_datalink.c)                 *)
(*                                                                         *)
(* Data: of the sticks only what the thresholds tell apart; GUIDED stands  *)
(* for GUIDED, MODULE and FLIP, RC_Z for every mode flown with sticks      *)
(* besides the manual one.  Whether the preflight checks succeed, the GPS  *)
(* is lost or the vehicle is too far is chosen anew at every use.  What    *)
(* the guidance loops command is abstracted to thrust above the in-flight  *)
(* threshold.  The airframe is bebop_course_orangeavoid.xml: manual mode   *)
(* ATTITUDE_DIRECT, start-up mode NAV, no FAILSAFE_GROUND_DETECT.          *)
(***************************************************************************)
EXTENDS Integers

CONSTANTS
  InFlightTime,   (* AUTOPILOT_IN_FLIGHT_TIME                              *)
  ArmingDelay,    (* MOTOR_ARMING_DELAY                                    *)
  LostTime,       (* RC_LOST_TIME                                          *)
  ReallyLostTime, (* RC_REALLY_LOST_TIME                                   *)
  KillSwitch,     (* RADIO_KILL_SWITCH is defined                          *)
  TakeoffModule   (* the flight plan uses nav_takeoff_and_landing          *)

ASSUME AutopilotAssumption ==
  /\ InFlightTime \in Nat \ {0} /\ ArmingDelay \in Nat \ {0}
  /\ LostTime \in Nat /\ ReallyLostTime \in Nat /\ LostTime < ReallyLostTime
  /\ KillSwitch \in BOOLEAN /\ TakeoffModule \in BOOLEAN

VARIABLES
  autopilot,             (* struct autopilot and the static variables of   *)
                         (* its files                                      *)
  status,                (* radio_control.status                           *)
  time_since_last_frame,
  resting,               (* vertical speed and acceleration are small      *)
  pushed,                (* history: frames in a row, KILL mode aside,     *)
                         (* with the sticks in the arming position         *)
  period                 (* parity of the periods run, so that one that    *)
                         (* changes nothing else is a step, too            *)

vars == <<autopilot, status, time_since_last_frame, resting, pushed, period>>

Manual == "ATTITUDE_DIRECT"
Modes  == {"KILL", "FAILSAFE", "HOME", Manual, "RC_Z", "NAV", "GUIDED"}
SafetyModes == {"KILL", "FAILSAFE", "HOME"}
NavLike     == {"NAV", "GUIDED"}

ArmingStates ==
  {"INITIALISE_RC", "RC_KILLED", "AUTOMATICALLY_OFF", "SAFETY_WAIT", "OFF",
   "OFF_STICK_PUSHED", "START", "ON", "ON_STICK_PUSHED", "STOP"}

State == [mode : Modes, motors_on : BOOLEAN, kill_throttle : BOOLEAN,
          in_flight : BOOLEAN, in_flight_counter : 0..InFlightTime,
          arming : ArmingStates, motors_on_counter : 0..ArmingDelay,
          takeoff : {"INIT", "START_MOTOR", "CLIMB", "DONE"},  (* takeoff.status *)
          thrust : BOOLEAN,      (* stabilization_cmd[COMMAND_THRUST]      *)
          kill_switch : BOOLEAN] (* radio_control.values[RADIO_KILL_SWITCH] *)

(* A radio frame.                                                          *)
Frame == [yaw : {"centred", "between", "pushed"},
          throttle : {"up", "down, tilted", "down, level"}, (* pitch, roll *)
          switch : {Manual, "RC_Z", "NAV"} \cup (IF KillSwitch THEN {"KILL"} ELSE {})]

-----------------------------------------------------------------------------
(* Motors.  An operator takes the state it is called in and gives the one  *)
(* it returns in; preflight is the outcome of the checks, should they run. *)

autopilot_arming_set(s, motors_on) ==
  [s EXCEPT !.arming = IF motors_on THEN "ON"
                       ELSE IF s.kill_switch /\ s.arming = "ON" THEN "RC_KILLED"
                       ELSE "AUTOMATICALLY_OFF"]

(* Faulty variant: the mode is not looked at.                              *)
force_motors_on_in_any_mode(s, motors_on) ==
  [autopilot_arming_set(s, motors_on) EXCEPT !.motors_on = motors_on, !.kill_throttle = ~motors_on]

autopilot_force_motors_on(s, motors_on) ==
  LET on == motors_on /\ s.mode # "KILL"
  IN  [autopilot_arming_set(s, on) EXCEPT !.motors_on = on, !.kill_throttle = ~on]

Refused(s, motors_on, preflight) == s.motors_on = motors_on \/ (motors_on /\ ~preflight)

autopilot_set_motors_on(s, motors_on, preflight) ==
  IF Refused(s, motors_on, preflight) THEN s ELSE autopilot_force_motors_on(s, motors_on)

autopilot_arming_motors_on(s, motors_on, preflight) ==
  IF Refused(s, motors_on, preflight) THEN s ELSE [s EXCEPT !.motors_on = motors_on]

autopilot_set_in_flight(s, in_flight) ==
  [s EXCEPT !.in_flight = in_flight,
            !.in_flight_counter = IF in_flight THEN @ ELSE 0]

autopilot_set_mode(s, mode) ==
  IF mode = s.mode THEN s
  ELSE IF mode = "KILL"
    THEN [autopilot_set_motors_on(autopilot_set_in_flight(s, FALSE), FALSE, TRUE)
            EXCEPT !.mode = mode, !.thrust = FALSE]
    ELSE [s EXCEPT !.mode = mode]

-----------------------------------------------------------------------------
(* autopilot_static_on_rc_frame after the choice of the mode:              *)
(* autopilot_arming_check_motors_on in state s, then kill_throttle.        *)

(* Faulty variant: the pushed stick is not checked.                        *)
ArmingValidWithoutPush(f, yaw_must_be_centred) ==
  /\ f.throttle = "down, level"
  /\ yaw_must_be_centred => f.yaw = "centred"

ArmingValid(f, yaw_must_be_centred) ==
  /\ f.throttle = "down, level"
  /\ yaw_must_be_centred <=> f.yaw = "centred"

StickPushed(f) == f.throttle # "up" /\ f.yaw = "pushed"

(* Faulty variant: kill_throttle is left to autopilot_set_motors_on.       *)
FrameEndsAsIs(s) == s

FrameEnds(s) == [s EXCEPT !.kill_throttle = ~s.motors_on]

Motors(s, motors_on, preflight) == autopilot_arming_motors_on(s, motors_on, preflight)
Goes(s, condition, arming)      == IF condition THEN [s EXCEPT !.arming = arming] ELSE s
Counts(s, n)                    == [s EXCEPT !.motors_on_counter = n]

ArmingKilled(s) ==
  /\ s.mode = "KILL"
  /\ autopilot' = FrameEnds(IF s.kill_switch THEN Motors(s, FALSE, TRUE) ELSE s)

ArmingWaits(s, f) ==
  \/ /\ s.arming = "INITIALISE_RC"
     /\ autopilot' = FrameEnds(Goes(s, ArmingValid(f, TRUE), "OFF"))
  \/ /\ s.arming = "RC_KILLED"     (* within MOTOR_RE_ARM_TIME, or later   *)
     /\ \/ autopilot' = FrameEnds([s EXCEPT !.arming = "ON", !.motors_on = TRUE])
        \/ autopilot' = FrameEnds([s EXCEPT !.arming = "AUTOMATICALLY_OFF", !.motors_on = FALSE])
  \/ /\ s.arming = "AUTOMATICALLY_OFF"
     /\ autopilot' = FrameEnds(Goes(Counts(Motors(s, FALSE, TRUE), 0),
                                    ArmingValid(f, TRUE), "SAFETY_WAIT"))
  \/ /\ s.arming = "SAFETY_WAIT"
     /\ autopilot' = FrameEnds(Goes(Counts(s, s.motors_on_counter + 1),
                                    s.motors_on_counter + 1 >= ArmingDelay, "OFF"))

(* Once the delay is over the sticks are not looked at again before the    *)
(* motors start.                                                           *)
ArmingStarts(s, f, preflight) ==
  \/ /\ s.arming = "OFF"
     /\ autopilot' = FrameEnds(Goes(Counts(Motors(s, FALSE, TRUE), 0),
                                    ArmingValid(f, FALSE), "OFF_STICK_PUSHED"))
  \/ /\ s.arming = "OFF_STICK_PUSHED"
     /\ LET n == s.motors_on_counter + 1
            u == Counts(Motors(s, FALSE, TRUE), n)
        IN  autopilot' = FrameEnds(IF n >= ArmingDelay THEN Goes(u, TRUE, "START")
                                   ELSE Goes(u, ~ArmingValid(f, FALSE), "OFF"))
  \/ /\ s.arming = "START"
     /\ LET u == autopilot_set_in_flight(Counts(Motors(s, TRUE, preflight), ArmingDelay), FALSE)
        IN  autopilot' = FrameEnds(Goes(u, f.yaw = "centred", IF u.motors_on THEN "ON" ELSE "OFF"))

ArmingStops(s, f, preflight) ==
  \/ /\ s.arming = "ON"
     /\ autopilot' = FrameEnds(Goes(Counts(Motors(s, TRUE, preflight), ArmingDelay),
                                    StickPushed(f), "ON_STICK_PUSHED"))
  \/ /\ s.arming = "ON_STICK_PUSHED"
     /\ LET n == s.motors_on_counter - 1
            u == Counts(Motors(s, TRUE, preflight), n)
        IN  autopilot' = FrameEnds(IF n = 0 THEN Goes(u, TRUE, "STOP")
                                   ELSE Goes(u, ~StickPushed(f), "ON"))
  \/ /\ s.arming = "STOP"
     /\ autopilot' = FrameEnds(Goes(Counts(Motors(s, FALSE, TRUE), 0), ArmingValid(f, TRUE), "OFF"))

ArmingCheck(s, f, preflight) ==
  \/ ArmingKilled(s)
  \/ /\ s.mode # "KILL"
     /\ \/ ArmingWaits(s, f)
        \/ ArmingStarts(s, f, preflight)
        \/ ArmingStops(s, f, preflight)

(* The mode a frame asks for, and whether it is granted.                   *)
Granted(s, f) == f.switch = Manual \/ s.mode \notin {"HOME", "FAILSAFE"}

ModeOfFrame(s, f) ==
  IF f.switch = "KILL" THEN {autopilot_set_mode(s, "KILL")}
  ELSE (IF Granted(s, f) THEN {autopilot_set_mode(s, f.switch)} ELSE {s})
       \cup (IF f.switch = "NAV" THEN {s} ELSE {})     (* the GPS is lost  *)

-----------------------------------------------------------------------------
(* The parts of autopilot_periodic, in their order.  Where something       *)
(* besides the state decides, the operator gives the set of states.        *)

LosesGps(s) == s.motors_on /\ s.mode \in {"NAV", "HOME"}

(* Faulty variant: the loss of the radio control is not checked.           *)
failsafe_checks_gps(s) ==
  {s} \cup (IF LosesGps(s) THEN {autopilot_set_mode(s, "FAILSAFE")} ELSE {})

autopilot_failsafe_checks(s) ==
  LET t == IF status = "REALLY_LOST" /\ s.mode \notin SafetyModes \cup NavLike
             THEN autopilot_set_mode(s, "FAILSAFE") ELSE s
  IN  {t} \cup (IF LosesGps(t) THEN {autopilot_set_mode(t, "FAILSAFE")} ELSE {})

(* Faulty variant: the counter runs out unnoticed.                         *)
InFlightEndsUnseen(s) ==
  IF s.in_flight_counter = 0 THEN s
  ELSE IF s.thrust \/ ~resting THEN [s EXCEPT !.in_flight_counter = InFlightTime]
  ELSE [s EXCEPT !.in_flight_counter = @ - 1]

(* The end of a flight is noticed while the counter is positive.           *)
InFlightEnds(s) ==
  IF s.in_flight_counter = 0 THEN s
  ELSE IF s.thrust \/ ~resting THEN [s EXCEPT !.in_flight_counter = InFlightTime]
  ELSE [s EXCEPT !.in_flight_counter = @ - 1, !.in_flight = s.in_flight_counter > 1]

(* Faulty variant: the flight starts one period later.                     *)
InFlightStartsLate(s) ==
  IF s.in_flight_counter > InFlightTime \/ ~s.motors_on THEN s
  ELSE IF s.thrust THEN [s EXCEPT !.in_flight_counter = @ + 1,
                                  !.in_flight = s.in_flight_counter = InFlightTime]
  ELSE [s EXCEPT !.in_flight_counter = 0]

InFlightStarts(s) ==
  IF s.in_flight_counter = InFlightTime \/ ~s.motors_on THEN s
  ELSE IF s.thrust THEN [s EXCEPT !.in_flight_counter = @ + 1,
                                  !.in_flight = s.in_flight_counter + 1 = InFlightTime]
  ELSE [s EXCEPT !.in_flight_counter = 0]

autopilot_check_in_flight(s) == IF s.in_flight THEN InFlightEnds(s) ELSE InFlightStarts(s)

(* Beyond a limit the vehicle goes home, beyond failsafe_mode_dist2 down.  *)
Geofence(s) ==
  {s} \cup (IF s.in_flight /\ s.mode = "NAV"
              THEN {autopilot_set_mode(s, mode) : mode \in {"HOME", "FAILSAFE"}} ELSE {})

NavKillThrottle(s) ==
  IF s.mode = "NAV" THEN autopilot_set_motors_on(s, FALSE, TRUE) ELSE s

NavResurrect(s, preflight) ==
  IF s.mode = "NAV" THEN autopilot_set_motors_on(s, TRUE, preflight) ELSE s

(* A call of nav_takeoff_run; over says that the second of START_MOTOR, or *)
(* the climb, is over.                                                     *)
nav_takeoff_run(s, preflight, over) ==
  LET started == NavResurrect(s, preflight)
      next == IF started.motors_on THEN "CLIMB" ELSE "DONE"
  IN  IF s.takeoff = "INIT" THEN [s EXCEPT !.takeoff = "START_MOTOR"]
      ELSE IF s.takeoff = "START_MOTOR"
        THEN [started EXCEPT !.takeoff = IF over THEN next ELSE @]
      ELSE IF s.takeoff = "CLIMB"
        THEN [autopilot_set_in_flight(s, TRUE) EXCEPT !.takeoff = IF over THEN "DONE" ELSE @]
      ELSE [s EXCEPT !.takeoff = "INIT"]

(* What one pass of the flight plan calls.  It runs in every mode but HOME. *)
PlanCalls(s) ==
  {NavKillThrottle(s), NavResurrect(s, TRUE)}
    \cup (IF TakeoffModule
            THEN {nav_takeoff_run(s, preflight, over) : preflight, over \in BOOLEAN} ELSE {})

(* Between passes a takeoff that is not called any more times out.         *)
FlightPlan(s) ==
  {s, [s EXCEPT !.takeoff = "INIT"]} \cup (IF s.mode = "HOME" THEN {} ELSE PlanCalls(s))

FailsafeLands(s) ==
  IF s.mode = "FAILSAFE" /\ ~s.in_flight THEN autopilot_set_mode(s, "KILL") ELSE s

(* The guidance loops command a thrust, which motors that are off clear.   *)
Guidance(s) ==
  IF s.mode = "KILL" THEN {s}
  ELSE {[s EXCEPT !.thrust = thrust /\ s.motors_on] : thrust \in BOOLEAN}

-----------------------------------------------------------------------------
Init ==
  /\ autopilot = [mode |-> "NAV", motors_on |-> FALSE, kill_throttle |-> TRUE,
                  in_flight |-> FALSE, in_flight_counter |-> 0,
                  arming |-> "INITIALISE_RC", motors_on_counter |-> 0,
                  takeoff |-> "INIT", thrust |-> FALSE, kill_switch |-> FALSE]
  /\ status = "REALLY_LOST" /\ time_since_last_frame = ReallyLostTime
  /\ resting = TRUE
  /\ pushed = 0 /\ period = 0

(* rc_datalink_event: the callback of a frame runs in the same call.       *)
RcFrame(f) ==
  /\ status' = "OK" /\ time_since_last_frame' = 0
  /\ \E s \in ModeOfFrame([autopilot EXCEPT !.kill_switch = f.switch = "KILL"], f),
       preflight \in BOOLEAN : ArmingCheck(s, f, preflight)
  /\ pushed' = IF autopilot'.mode = "KILL" THEN pushed
               ELSE IF f.throttle # "down, level" \/ f.yaw = "centred" THEN 0
               ELSE IF pushed < ArmingDelay THEN pushed + 1 ELSE pushed
  /\ UNCHANGED <<resting, period>>

radio_control_periodic_task ==
  /\ status' = IF time_since_last_frame >= ReallyLostTime THEN "REALLY_LOST"
               ELSE IF time_since_last_frame >= LostTime THEN "LOST" ELSE status
  /\ time_since_last_frame' = IF time_since_last_frame >= ReallyLostTime
                                THEN time_since_last_frame ELSE time_since_last_frame + 1
  /\ UNCHANGED <<autopilot, resting, pushed, period>>

autopilot_periodic ==
  /\ UNCHANGED <<status, time_since_last_frame, resting, pushed>>
  /\ period' = 1 - period
  /\ \E s \in autopilot_failsafe_checks(autopilot) :
       \E t \in Geofence(autopilot_check_in_flight(s)) :
         \E u \in FlightPlan(t) : autopilot' \in Guidance(FailsafeLands(u))

(* Settings from the ground station.                                       *)
autopilot_SetModeHandler(mode) ==
  /\ mode \in SafetyModes \/ (status # "OK" /\ mode \in NavLike)
  /\ autopilot' = autopilot_set_mode(autopilot, mode)
  /\ UNCHANGED <<status, time_since_last_frame, resting, pushed, period>>

autopilot_set_kill_throttle(kill) ==
  /\ \E preflight \in BOOLEAN :
       autopilot' = autopilot_set_motors_on(autopilot, ~kill, preflight)
  /\ UNCHANGED <<status, time_since_last_frame, resting, pushed, period>>

(* The vehicle moves or comes to rest.                                     *)
Vehicle ==
  /\ resting' = ~resting
  /\ UNCHANGED <<autopilot, status, time_since_last_frame, pushed, period>>

Next ==
  \/ \E f \in Frame : RcFrame(f)
  \/ radio_control_periodic_task
  \/ autopilot_periodic
  \/ \E mode \in Modes : autopilot_SetModeHandler(mode)
  \/ \E kill \in BOOLEAN : autopilot_set_kill_throttle(kill)
  \/ Vehicle

Spec == Init /\ [][Next]_vars

(* The autopilot's timer never stops; nothing else is assumed to happen.   *)
FairSpec == Spec /\ WF_vars(autopilot_periodic)

-----------------------------------------------------------------------------
TypeOK ==
  /\ autopilot \in State
  /\ status \in {"OK", "LOST", "REALLY_LOST"}
  /\ time_since_last_frame \in 0..ReallyLostTime
  /\ resting \in BOOLEAN
  /\ pushed \in 0..ArmingDelay
  /\ period \in {0, 1}

(* In KILL mode the motors are off, nothing is commanded and the vehicle   *)
(* is taken to be on the ground, whatever mixture of arming, settings,     *)
(* flight plan and re-arming came before or comes meanwhile                *)
(* (autopilot_static.c:203-206,261-265,313-321).                           *)
KilledIsOff ==
  autopilot.mode = "KILL" => ~autopilot.motors_on /\ ~autopilot.thrust /\ ~autopilot.in_flight

(* Between calls kill_throttle tells the motors: settings are written to   *)
(* flash when it is set (autopilot.c:343-358), which must not happen with  *)
(* motors running.                                                         *)
KillThrottleTellsMotors == autopilot.kill_throttle = ~autopilot.motors_on

(* The arming sequence gets to START only by ArmingDelay frames in a row,  *)
(* KILL mode aside, with throttle down, pitch and roll centred and yaw     *)
(* off-centre (autopilot_arming_yaw.h:155-176).                            *)
ArmedByStick ==
  [][autopilot.arming # "START" /\ autopilot'.arming = "START" => pushed = ArmingDelay]_vars

(* A vehicle at rest with no thrust is not in flight for ever, so that     *)
(* FAILSAFE ends in KILL once "not in_flight anymore"                      *)
(* (autopilot_static.c:133-139, autopilot_firmware.c:92-109,286-308).      *)
AtRest == resting /\ ~autopilot.thrust
LandingIsNoticed == <>[]AtRest => []<>~autopilot.in_flight

(* With the radio lost for good while the sticks fly the vehicle, motors   *)
(* stop whenever it rests, even if the ground station starts them again:   *)
(* RC loss, failsafe, landing and KILL follow each other                   *)
(* (autopilot_static.c:385-400,136-139).                                   *)
LostPilotStopsMotors ==
  <>[](AtRest /\ status = "REALLY_LOST" /\ autopilot.mode \notin NavLike \cup {"HOME"})
    => []<>~autopilot.motors_on
=============================================================================
