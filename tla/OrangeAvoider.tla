--------------------------- MODULE OrangeAvoider ---------------------------
(***************************************************************************)
(* The navigation state machine of the obstacle avoider, from              *)
(* sw/airborne/modules/orange_avoider/orange_avoider.c, together with the  *)
(* drone it steers.  The detector reports the image row of the best        *)
(* direction (color_detection_cb); at 4 Hz orange_avoider_periodic turns   *)
(* that row into a confidence and moves the waypoints GOAL and TRAJECTORY  *)
(* or the commanded heading.  The autopilot flies to GOAL while the block  *)
(* START of the flight plan is active.  TRAJECTORY is written and tested   *)
(* in the same call and read nowhere else, so it is a local value here.    *)
(*                                                                         *)
(* Data: positions are points of an integer grid, headings are the four    *)
(* grid directions, distances are counted in a unit of length such that    *)
(* the waypoint moves by StepLength units per point of confidence.         *)
(***************************************************************************)
EXTENDS Integers

CONSTANTS
  Arena,           (* the grid points the drone can be at                  *)
  ObstacleZone,    (* sector ObstacleZone of the flight plan               *)
  Home,            (* where the drone and GOAL start                       *)
  ImageHeight,     (* front_camera.output_size.h                           *)
  Rows,            (* the rows a detection may report                      *)
  MaxConfidence,   (* max_trajectory_confidence, 5                         *)
  StepLength,      (* moveDistance per point of confidence, 0.2 m          *)
  MaxDistance,     (* maxDistance, 2.25 m                                  *)
  LookAhead        (* distance probed when out of bounds, 1.5 m            *)

ASSUME GridAssumption ==
  /\ ObstacleZone \subseteq Arena
  /\ Arena \subseteq Int \X Int
  /\ Home \in Arena

ASSUME TuningAssumption ==
  /\ ImageHeight \in Nat /\ Rows \subseteq Nat
  /\ MaxConfidence \in Nat /\ MaxConfidence >= 2
  /\ StepLength \in Nat /\ MaxDistance \in Nat /\ LookAhead \in Nat

VARIABLES
  navigation_state,
  color_count,                 (* row of the last detection received       *)
  obstacle_free_confidence,
  GOAL,                        (* the waypoint flown to                    *)
  nav_heading,                 (* nav.heading, the commanded heading       *)
  pos, psi,                    (* position and heading of the drone        *)
  in_flight,                   (* autopilot_in_flight()                    *)
  following                    (* block START is active: stay wp=GOAL      *)

fsmVars   == <<navigation_state, obstacle_free_confidence>>
droneVars == <<pos, psi, in_flight, following>>
vars == <<fsmVars, droneVars, GOAL, color_count, nav_heading>>

NavStates == {"SAFE", "OBSTACLE_FOUND", "SEARCH_FOR_SAFE_HEADING", "OUT_OF_BOUNDS"}
Headings  == 0..3
Direction == <<<<0, 1>>, <<1, 0>>, <<0, -1>>, <<-1, 0>>>>

-----------------------------------------------------------------------------
(* Helpers of the state machine.                                           *)

(* Faulty variant: no lower bound.                                         *)
BoundedAboveOnly(c) == IF c > MaxConfidence THEN MaxConfidence ELSE c

Bounded(c) == IF c < 0 THEN 0 ELSE IF c > MaxConfidence THEN MaxConfidence ELSE c

Thresh == ImageHeight \div 3

(* The best direction lies in the middle third of the image.               *)
Centred(row) == Thresh <= row /\ row <= 2 * Thresh

(* Faulty variant: a bad view costs one point instead of two.              *)
ConfidenceMinusOne ==
  Bounded(IF Centred(color_count) THEN obstacle_free_confidence + 1
                                  ELSE obstacle_free_confidence - 1)

UpdatedConfidence ==
  Bounded(IF Centred(color_count) THEN obstacle_free_confidence + 1
                                  ELSE obstacle_free_confidence - 2)

MoveDistance(confidence) ==
  IF MaxDistance < StepLength * confidence THEN MaxDistance ELSE StepLength * confidence

(* Faulty variant: the probe is nearer than the goal.                      *)
ScaledShort(distance) == distance \div 2

Scaled(distance) == (3 * distance) \div 2        (* 1.5f * moveDistance    *)

calculateForwards(distance) ==
  LET d == Direction[psi + 1]
  IN  <<pos[1] + d[1] * distance, pos[2] + d[2] * distance>>

InsideObstacleZone(p) == p \in ObstacleZone

(* Faulty variant: the increment is lost.                                  *)
keep_nav_heading == nav_heading' = psi

(* heading_increment is always negative: chooseRandomIncrementAvoidance    *)
(* stores -5 degrees at init and after each obstacle.                      *)
increase_nav_heading == nav_heading' = (psi + 3) % 4

(* Sends the coordinates of the waypoint as they are; it stores none.      *)
waypoint_move_here_2d(wp) == wp

-----------------------------------------------------------------------------
Init ==
  /\ navigation_state = "SEARCH_FOR_SAFE_HEADING"
  /\ color_count = 0
  /\ obstacle_free_confidence = 0
  /\ GOAL = Home
  /\ pos = Home
  /\ psi \in Headings /\ nav_heading = psi
  /\ in_flight = FALSE /\ following = FALSE

(* The ABI callback VISUAL_DETECTION.                                      *)
color_detection_cb(row) ==
  /\ color_count' = row
  /\ UNCHANGED <<fsmVars, GOAL, droneVars, nav_heading>>

Safe(confidence) ==
  LET ahead == calculateForwards(Scaled(MoveDistance(confidence)))
  IN  /\ navigation_state = "SAFE"
      /\ obstacle_free_confidence' = confidence
      /\ \/ /\ ~InsideObstacleZone(ahead)
            /\ navigation_state' = "OUT_OF_BOUNDS"
            /\ UNCHANGED GOAL
         \/ /\ InsideObstacleZone(ahead)
            /\ confidence = 0
            /\ navigation_state' = "OBSTACLE_FOUND"
            /\ UNCHANGED GOAL
         \/ /\ InsideObstacleZone(ahead)
            /\ confidence # 0
            /\ GOAL' = calculateForwards(MoveDistance(confidence))
            /\ UNCHANGED navigation_state
      /\ UNCHANGED nav_heading

ObstacleFound(confidence) ==
  /\ navigation_state = "OBSTACLE_FOUND"
  /\ obstacle_free_confidence' = confidence
  /\ GOAL' = waypoint_move_here_2d(GOAL)
  /\ navigation_state' = "SEARCH_FOR_SAFE_HEADING"
  /\ UNCHANGED nav_heading

SearchForSafeHeading(confidence) ==
  /\ navigation_state = "SEARCH_FOR_SAFE_HEADING"
  /\ obstacle_free_confidence' = confidence
  /\ increase_nav_heading
  /\ navigation_state' = IF confidence >= 2 THEN "SAFE" ELSE navigation_state
  /\ UNCHANGED GOAL

OutOfBounds(confidence) ==
  LET ahead == calculateForwards(LookAhead)
  IN  /\ navigation_state = "OUT_OF_BOUNDS"
      /\ increase_nav_heading
      /\ \/ /\ InsideObstacleZone(ahead)
            /\ obstacle_free_confidence' = 1
            /\ navigation_state' = "SEARCH_FOR_SAFE_HEADING"
         \/ /\ ~InsideObstacleZone(ahead)
            /\ obstacle_free_confidence' = confidence
            /\ UNCHANGED navigation_state
      /\ UNCHANGED GOAL

(* orange_avoider_periodic: nothing happens on the ground.                 *)
Periodic ==
  /\ in_flight
  /\ \/ Safe(UpdatedConfidence)
     \/ ObstacleFound(UpdatedConfidence)
     \/ SearchForSafeHeading(UpdatedConfidence)
     \/ OutOfBounds(UpdatedConfidence)
  /\ UNCHANGED <<droneVars, color_count>>

-----------------------------------------------------------------------------
(* The drone and the flight plan, as the avoider sees them.                *)

Towards(a, b) == IF a < b THEN a + 1 ELSE IF a > b THEN a - 1 ELSE a

(* Horizontal guidance brings the drone one unit closer to GOAL.           *)
FlyToGoal ==
  /\ in_flight /\ following /\ pos # GOAL
  /\ \/ /\ pos[1] # GOAL[1] /\ pos' = <<Towards(pos[1], GOAL[1]), pos[2]>>
     \/ /\ pos[2] # GOAL[2] /\ pos' = <<pos[1], Towards(pos[2], GOAL[2])>>
  /\ UNCHANGED <<fsmVars, GOAL, psi, in_flight, following, color_count, nav_heading>>

(* The heading loop reaches the commanded heading.                         *)
Yaw ==
  /\ in_flight /\ psi # nav_heading
  /\ psi' = nav_heading
  /\ UNCHANGED <<fsmVars, GOAL, pos, in_flight, following, color_count, nav_heading>>

(* Any other block, or the pilot, takes the drone to a neighbouring point. *)
FlyElsewhere ==
  /\ in_flight /\ ~following
  /\ pos' \in {p \in Arena : \E i \in 1..4 : /\ p[1] = pos[1] + Direction[i][1]
                                             /\ p[2] = pos[2] + Direction[i][2]}
  /\ UNCHANGED <<fsmVars, GOAL, psi, in_flight, following, color_count, nav_heading>>

(* Block START: NavSetWaypointHere(WP_GOAL) once, then stay at GOAL.       *)
EnterStart ==
  /\ in_flight /\ ~following
  /\ GOAL' = pos
  /\ following' = TRUE
  /\ UNCHANGED <<fsmVars, pos, psi, in_flight, color_count, nav_heading>>

LeaveStart ==
  /\ following
  /\ following' = FALSE
  /\ UNCHANGED <<fsmVars, GOAL, pos, psi, in_flight, color_count, nav_heading>>

TakeOff ==
  /\ ~in_flight
  /\ in_flight' = TRUE
  /\ UNCHANGED <<fsmVars, GOAL, pos, psi, following, color_count, nav_heading>>

Land ==
  /\ in_flight
  /\ in_flight' = FALSE
  /\ following' = FALSE
  /\ UNCHANGED <<fsmVars, GOAL, pos, psi, color_count, nav_heading>>

Drone == FlyToGoal \/ Yaw \/ FlyElsewhere \/ EnterStart \/ LeaveStart \/ TakeOff \/ Land

Next ==
  \/ \E row \in Rows : color_detection_cb(row)
  \/ Periodic
  \/ Drone

Spec == Init /\ [][Next]_vars

-----------------------------------------------------------------------------
TypeOK ==
  /\ navigation_state \in NavStates
  /\ color_count \in Rows \cup {0}
  /\ obstacle_free_confidence \in 0..MaxConfidence
  /\ GOAL \in Int \X Int /\ pos \in Int \X Int
  /\ psi \in Headings /\ nav_heading \in Headings
  /\ in_flight \in BOOLEAN /\ following \in BOOLEAN

=============================================================================
