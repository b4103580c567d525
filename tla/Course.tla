------------------------------- MODULE Course -------------------------------
(***************************************************************************)
(* The flight plan of the course (course_orangeavoid_cyberzoo.xml), the    *)
(* navigation that runs it and the ground detection it relies on.  The     *)
(* operator selects blocks, the pilot and the settings change the mode and *)
(* the motors; module Autopilot has the rules they obey.                   *)
(*                                                                         *)
(* Data: altitude is a band between the limits the plan tests; the alarm   *)
(* stands for a lost datalink, a position outside the CyberZoo and a low   *)
(* or critical battery, which the plan treats alike.  Waypoints are left   *)
(* out: arriving at one is a step of the vehicle.                          *)
(***************************************************************************)
EXTENDS Integers, Sequences

VARIABLES
  nav_block,
  nav_stage,           (* 0: not entered, 1: stays, 2: deroutes next       *)
  block_time,          (* up to 2, beyond which nothing is compared        *)
  vertical,            (* nav.vertical_mode, and the sign of nav.climb     *)
  ground_detected,
  detect_ground_once,
  mode,
  motors_on,
  in_flight,
  altitude,            (* 0 below 0.10, 1 to 0.8, 2 to 3.5, 3 to 4.5, 4    *)
  alarm,
  arrived,             (* at the waypoint of the current go stage          *)
  felt,                (* history of this flight: "no", "armed" once a     *)
                       (* flare armed the detection, "shock" after a shock *)
                       (* that came later or in FAILSAFE                   *)
  period               (* parity of the periods, as in module Autopilot    *)

plan == <<nav_block, nav_stage, block_time, vertical, arrived>>
ground == <<ground_detected, detect_ground_once>>
surroundings == <<altitude, alarm>>
courseVars == <<plan, ground, mode, motors_on, in_flight, surroundings, felt, period>>

BlockNames ==
  <<"Wait GPS", "Geo init", "Holding point", "Start Engine", "Takeoff",
    "Standby", "START", "STOP", "land here", "Land", "Flare", "Landed", "HOME">>

Blocks == {BlockNames[i] : i \in 1..Len(BlockNames)}

IndexOfBlock(name) == CHOOSE i \in 1..Len(BlockNames) : BlockNames[i] = name

Modes == {"KILL", "FAILSAFE", "HOME", "NAV", "MANUAL"}

(* Stages with throttle="0".                                               *)
Unpowered == {"Holding point", "Start Engine", "Landed"}

CourseInit ==
  /\ nav_block = "Wait GPS" /\ nav_stage = 0 /\ block_time = 0
  /\ vertical = "hold"
  /\ ground_detected = FALSE /\ detect_ground_once = FALSE
  /\ mode = "NAV" /\ motors_on = FALSE /\ in_flight = FALSE
  /\ altitude = 0 /\ alarm = FALSE /\ arrived = FALSE
  /\ felt = "no" /\ period = 0

-----------------------------------------------------------------------------
(* What follows navigation in a period: FAILSAFE on the ground turns to    *)
(* KILL, and the ground detection is reset unless in flight.               *)

Lands == mode = "FAILSAFE" /\ ~in_flight

MotorsAre(on) == motors_on' = (on /\ ~Lands)

(* Faulty variants: half of the ground detection outlives the flight.      *)
GroundSurvives(detected, once) ==
  ground_detected' = detected /\ detect_ground_once' = (once /\ in_flight)

OnceSurvives(detected, once) ==
  ground_detected' = (detected /\ in_flight) /\ detect_ground_once' = once

GroundIs(detected, once) ==
  /\ ground_detected' = (detected /\ in_flight)
  /\ detect_ground_once' = (once /\ in_flight)

(* The stage of the flare has run for the first time.                      *)
FlareArms == nav_block = "Flare" /\ nav_stage = 0 /\ nav_stage' = 1

PeriodEnds ==
  /\ mode' = (IF Lands THEN "KILL" ELSE mode)
  /\ period' = 1 - period
  /\ felt' = (IF ~in_flight THEN "no"
              ELSE IF felt = "no" /\ FlareArms THEN "armed" ELSE felt)
  /\ UNCHANGED <<in_flight, surroundings>>

-----------------------------------------------------------------------------
(* The plan.                                                               *)

(* Faulty variant: a block the plan does not have is taken as it is.       *)
GotoAnyBlock(name) ==
  nav_block' = name /\ nav_stage' = 0 /\ block_time' = 0 /\ arrived' = FALSE

(* nav_init_block replaces a block that does not exist by the last one.    *)
nav_goto_block(name) ==
  /\ nav_block' = IF name \in Blocks THEN name ELSE BlockNames[Len(BlockNames)]
  /\ nav_stage' = 0 /\ block_time' = 0 /\ arrived' = FALSE

Stays == nav_stage' = 1 /\ UNCHANGED <<nav_block, block_time, arrived>>

(* The preflight checks may refuse.                                        *)
NavResurrect    == MotorsAre(motors_on) \/ MotorsAre(motors_on \/ mode = "NAV")
NavKillThrottle == MotorsAre(motors_on /\ mode # "NAV")

(* The global exceptions.  Below "land here", 3.5 m is tested before 4.5.  *)
Guarded ==
  IndexOfBlock(nav_block) >= IndexOfBlock("Holding point") /\ in_flight

(* Faulty variant: the deroute is taken from the blocks that land, too.    *)
LandHereFromAnyBlock == Guarded /\ (alarm \/ altitude >= 3)

LandHere ==
  /\ Guarded
  /\ IndexOfBlock(nav_block) < IndexOfBlock("land here")
  /\ alarm \/ altitude >= 3

Ceiling == Guarded /\ ~LandHere /\ nav_block # "Landed" /\ altitude = 4

GlobalException ==
  /\ \/ LandHere /\ nav_goto_block("land here")
     \/ Ceiling /\ nav_goto_block("Landed")
  /\ MotorsAre(motors_on)
  /\ GroundIs(ground_detected, detect_ground_once)
  /\ UNCHANGED vertical

(* The exceptions of the blocks.  NavDetectGround clears what it returns.  *)
TookOff  == nav_block = "Takeoff" /\ altitude >= 2
Touched  == nav_block = "Flare" /\ ground_detected
Landed   == nav_block = "Flare" /\ ~ground_detected /\ (~in_flight \/ altitude = 0)

BlockException ==
  /\ \/ TookOff /\ nav_goto_block("Standby")
     \/ Touched /\ nav_goto_block("Holding point")
     \/ Landed /\ nav_goto_block("Landed")
  /\ MotorsAre(motors_on)
  /\ GroundIs(ground_detected /\ ~Touched, detect_ground_once)
  /\ UNCHANGED vertical

(* The stages.  call_once falls through to the stage after it.             *)
WaitGps ==
  /\ nav_block = "Wait GPS"
  /\ IF nav_stage = 0 THEN NavKillThrottle ELSE MotorsAre(motors_on)
  /\ Stays \/ nav_goto_block("Geo init")           (* GpsFixValid()        *)
  /\ UNCHANGED vertical

GeoInit ==
  /\ nav_block = "Geo init"
  /\ \/ block_time < 2 /\ nav_stage' = 1 /\ block_time' = block_time + 1
          /\ UNCHANGED <<nav_block, arrived>>
     \/ block_time < 2 /\ Stays
     \/ block_time = 2 /\ nav_goto_block("Holding point")
  /\ MotorsAre(motors_on)
  /\ UNCHANGED vertical

Unpower ==
  /\ nav_block \in Unpowered
  /\ IF nav_stage # 0 THEN MotorsAre(motors_on)
     ELSE IF nav_block = "Start Engine" THEN NavResurrect ELSE NavKillThrottle
  /\ Stays
  /\ vertical' = "off"

Hover ==
  /\ nav_block \in {"Takeoff", "Standby", "START", "STOP", "HOME"}
  /\ MotorsAre(motors_on)
  /\ Stays
  /\ vertical' = (IF nav_block = "Takeoff" THEN "climb" ELSE "hold")

Go ==
  /\ nav_block \in {"land here", "Land"}
  /\ \/ nav_stage = 2 /\ nav_goto_block("Flare") /\ UNCHANGED vertical
     \/ /\ nav_stage < 2 /\ arrived
        /\ nav_stage' = 2 /\ UNCHANGED <<nav_block, block_time, arrived, vertical>>
     \/ nav_stage < 2 /\ ~arrived /\ Stays /\ vertical' = "hold"
  /\ MotorsAre(motors_on)

Flare ==
  /\ nav_block = "Flare"
  /\ MotorsAre(motors_on)
  /\ Stays
  /\ vertical' = "descend"

Stage ==
  /\ WaitGps \/ GeoInit \/ Unpower \/ Hover \/ Go \/ Flare
  /\ GroundIs(ground_detected,
              detect_ground_once \/ (nav_block = "Flare" /\ nav_stage = 0))

(* One pass of the generated function.                                     *)
auto_nav ==
  IF LandHere \/ Ceiling THEN GlobalException
  ELSE IF TookOff \/ Touched \/ Landed THEN BlockException
  ELSE Stage

-----------------------------------------------------------------------------
(* autopilot_periodic, with a pass of the plan or between two.  The plan   *)
(* does not run in HOME mode.                                              *)
PeriodWithPlan == mode # "HOME" /\ auto_nav /\ PeriodEnds

PeriodWithoutPlan ==
  /\ MotorsAre(motors_on)
  /\ GroundIs(ground_detected, detect_ground_once)
  /\ UNCHANGED plan
  /\ PeriodEnds

(* The plan makes the motors lift the vehicle.                             *)
Lifts == motors_on /\ mode = "NAV" /\ vertical \in {"hold", "climb"}

(* The first part of a period (autopilot_check_in_flight).  The end of a   *)
(* flight is noticed on the ground without thrust, its start with thrust.  *)
CheckInFlight ==
  /\ \/ in_flight /\ altitude = 0 /\ ~Lifts /\ in_flight' = FALSE
     \/ ~in_flight /\ motors_on /\ in_flight' = TRUE
  /\ UNCHANGED <<plan, ground, mode, motors_on, surroundings, felt, period>>

(* autopilot_event while the accelerometer feels a shock.                  *)
autopilot_event ==
  /\ detect_ground_once \/ mode = "FAILSAFE"
  /\ ground_detected' = TRUE /\ detect_ground_once' = FALSE
  /\ felt' = (IF felt = "armed" \/ mode = "FAILSAFE" THEN "shock" ELSE felt)
  /\ UNCHANGED <<plan, mode, motors_on, in_flight, surroundings, period>>

(* A BLOCK message.                                                        *)
nav_parse_BLOCK(name) ==
  /\ nav_goto_block(name)
  /\ UNCHANGED <<vertical, ground, mode, motors_on, in_flight, surroundings, felt, period>>

(* The pilot, the settings and the failsafes of module Autopilot.          *)
SetMode(m) ==
  /\ m # mode
  /\ mode' = m
  /\ motors_on' = (motors_on /\ m # "KILL")
  /\ in_flight' = (in_flight /\ m # "KILL")
  /\ UNCHANGED <<plan, ground, surroundings, felt, period>>

SetMotors ==
  /\ mode # "KILL"
  /\ motors_on' = ~motors_on
  /\ UNCHANGED <<plan, ground, mode, in_flight, surroundings, felt, period>>

(* The vehicle sinks without thrust; flown by the plan it follows the      *)
(* vertical mode, but for disturbances while it hovers.                    *)
Powered == motors_on /\ ~(mode = "NAV" /\ vertical = "off")

Sink ==
  /\ altitude > 0
  /\ altitude' = altitude - 1
  /\ UNCHANGED <<plan, ground, mode, motors_on, in_flight, alarm, felt, period>>

Rise ==
  /\ altitude < 4 /\ Powered
  /\ mode = "NAV" => vertical # "descend"
  /\ altitude' = altitude + 1
  /\ UNCHANGED <<plan, ground, mode, motors_on, in_flight, alarm, felt, period>>

(* Flown by the plan, a vehicle that is at its waypoint stays there.       *)
Arrive ==
  /\ motors_on
  /\ arrived' = ~arrived
  /\ ~arrived \/ mode # "NAV"
  /\ UNCHANGED <<nav_block, nav_stage, block_time, vertical, ground, mode, motors_on,
                 in_flight, surroundings, felt, period>>

Alarm ==
  /\ alarm' = ~alarm
  /\ UNCHANGED <<plan, ground, mode, motors_on, in_flight, altitude, felt, period>>

Commands ==
  \/ \E name \in Blocks \cup {"unknown"} : nav_parse_BLOCK(name)
  \/ \E m \in Modes : SetMode(m)
  \/ SetMotors

CourseNext ==
  \/ PeriodWithPlan \/ PeriodWithoutPlan \/ CheckInFlight
  \/ autopilot_event \/ Commands
  \/ Sink \/ Rise \/ Arrive \/ Alarm

CourseSpec == CourseInit /\ [][CourseNext]_courseVars

(* The timer runs the plan and counts its seconds; a vehicle without       *)
(* thrust, or told to descend, comes down; one that flies to a waypoint    *)
(* gets there; a flight that has begun is noticed.                         *)
CourseFairSpec ==
  /\ CourseSpec
  /\ WF_courseVars(PeriodWithPlan)
  /\ WF_courseVars(PeriodWithPlan /\ nav_block = "Geo init" /\ block_time' # block_time)
  /\ WF_courseVars(Sink /\ (~Powered \/ (mode = "NAV" /\ vertical = "descend")))
  /\ WF_courseVars(Arrive /\ ~arrived)
  /\ WF_courseVars(CheckInFlight /\ ~in_flight /\ Lifts)

-----------------------------------------------------------------------------
CourseTypeOK ==
  /\ nav_block \in Blocks /\ nav_stage \in 0..2 /\ block_time \in 0..2
  /\ vertical \in {"hold", "climb", "descend", "off"}
  /\ ground_detected \in BOOLEAN /\ detect_ground_once \in BOOLEAN
  /\ mode \in Modes /\ motors_on \in BOOLEAN /\ in_flight \in BOOLEAN
  /\ altitude \in 0..4 /\ alarm \in BOOLEAN /\ arrived \in BOOLEAN
  /\ felt \in {"no", "armed", "shock"} /\ period \in {0, 1}

(* A flare ends on a shock felt in its own flight, in FAILSAFE or after a  *)
(* flare of this flight armed the detection: neither a detected ground nor *)
(* an armed detection is left over from an earlier flight, whichever block *)
(* or mode it was raised in (autopilot_static.c:150-155,                   *)
(* autopilot_firmware.c:263-275, navigation.c:271-276).                    *)
ShockOfThisFlight ==
  [][nav_block = "Flare" /\ nav_block' = "Holding point" /\ in_flight
       /\ PeriodWithPlan => felt = "shock"]_courseVars

(* The vehicle gives no thrust, or the plan hovers in a block that no      *)
(* exception reaches: HOME, after the landing blocks, or Wait GPS.         *)
Down == ~Powered \/ nav_block \in {"Wait GPS", "HOME"}

Undisturbed == <>[](mode = "NAV" /\ alarm) /\ <>[][~Commands]_courseVars

(* With an alarm that stays and nobody at the controls, the flight ends    *)
(* from every block that the global exceptions reach, unless the ground is *)
(* felt as a shock again and again.  A vehicle that hovers in the others,  *)
(* HOME and Wait GPS, counts as down                                       *)
(* (course_orangeavoid_cyberzoo.xml:42-77,113-132).                        *)
AlarmEndsFlight == Undisturbed /\ <>[][~autopilot_event]_courseVars => <>[]Down
=============================================================================
