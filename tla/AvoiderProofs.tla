--------------------------- MODULE AvoiderProofs ---------------------------
(***************************************************************************)
(* Type correctness and the two safety properties of the avoider, for      *)
(* every arena, image height and tuning.                                   *)
(*                                                                         *)
(* NoAdvanceAfterBadStreak needs to know how the confidence drains: each   *)
(* evaluation of a streak takes two points, so the confidence is at most   *)
(* MaxConfidence - 2 * badStreak or zero; the one exception is the point   *)
(* that OUT_OF_BOUNDS gives back, which is not enough to leave SEARCH.     *)
(***************************************************************************)
EXTENDS AvoiderProperties, TLAPS

Drained ==
  /\ badStreak \in 0..StopAfter
  /\ \/ obstacle_free_confidence = 0
     \/ obstacle_free_confidence <= MaxConfidence - 2 * badStreak
     \/ obstacle_free_confidence = 1 /\ navigation_state = "SEARCH_FOR_SAFE_HEADING"

IInv == TypeOK /\ Drained

(* A streak of StopAfter evaluations is at least one long, and long enough.*)
LEMMA StreakLength ==
  StopAfter \in Nat /\ StopAfter >= 1 /\ 2 * StopAfter >= MaxConfidence
BY TuningAssumption DEF StopAfter

(* One evaluation keeps the confidence in range, and takes two points off  *)
(* when the direction is not centred.                                      *)
LEMMA Evaluation ==
  ASSUME obstacle_free_confidence \in 0..MaxConfidence
  PROVE  /\ UpdatedConfidence \in 0..MaxConfidence
         /\ ~Centred(color_count) =>
              \/ UpdatedConfidence = 0
              \/ UpdatedConfidence = obstacle_free_confidence - 2
BY TuningAssumption DEF UpdatedConfidence, Bounded

(* A point at a whole distance ahead is a point.                           *)
LEMMA Forwards ==
  ASSUME TypeOK, NEW distance \in Int
  PROVE  calculateForwards(distance) \in Int \X Int
<1>1. PICK x \in Int, y \in Int : pos = <<x, y>>
  BY DEF TypeOK
<1>2. psi = 0 \/ psi = 1 \/ psi = 2 \/ psi = 3
  BY DEF TypeOK, Headings
<1> QED BY <1>1, <1>2 DEF calculateForwards, Direction

LEMMA Distances ==
  ASSUME NEW confidence \in 0..MaxConfidence
  PROVE  /\ MoveDistance(confidence) \in Nat
         /\ Scaled(MoveDistance(confidence)) \in Nat
         /\ MoveDistance(confidence) <= Scaled(MoveDistance(confidence))
<1>1. StepLength * confidence \in Nat
  BY TuningAssumption
<1>2. MoveDistance(confidence) \in Nat
  BY <1>1, TuningAssumption DEF MoveDistance
<1> QED BY <1>2 DEF Scaled

LEMMA InitGood == HInit => IInv
<1> SUFFICES ASSUME HInit PROVE IInv
  OBVIOUS
<1>1. Home \in Int \X Int
  BY GridAssumption
<1>2. 0 \in 0..MaxConfidence /\ 0 \in 0..StopAfter
  BY TuningAssumption, StreakLength
<1>3. TypeOK
  BY <1>1, <1>2 DEF HInit, Init, TypeOK, NavStates
<1> QED BY <1>2, <1>3 DEF HInit, Init, Drained, IInv

(* What one branch of the state machine leaves behind.                     *)
LEMMA Branches ==
  ASSUME TypeOK, Periodic
  PROVE  /\ navigation_state' \in NavStates
         /\ nav_heading' \in Headings
         /\ GOAL' \in Int \X Int
         /\ \/ obstacle_free_confidence' = UpdatedConfidence
            \/ /\ obstacle_free_confidence' = 1
               /\ navigation_state = "OUT_OF_BOUNDS"
               /\ navigation_state' = "SEARCH_FOR_SAFE_HEADING"
<1> DEFINE c == UpdatedConfidence
<1>0. c \in 0..MaxConfidence
  BY Evaluation DEF TypeOK
<1>1. CASE Safe(c)
  <2>1. calculateForwards(MoveDistance(c)) \in Int \X Int
    BY <1>0, Distances, Forwards
  <2> QED BY <1>1, <2>1 DEF Safe, TypeOK, NavStates
<1>2. CASE ObstacleFound(c)
  BY <1>2 DEF ObstacleFound, waypoint_move_here_2d, TypeOK, NavStates
<1>3. (psi + 3) % 4 \in Headings
  BY DEF TypeOK, Headings
<1>4. CASE SearchForSafeHeading(c)
  BY <1>3, <1>4 DEF SearchForSafeHeading, increase_nav_heading, TypeOK, NavStates
<1>5. CASE OutOfBounds(c)
  BY <1>3, <1>5 DEF OutOfBounds, increase_nav_heading, TypeOK, NavStates
<1> QED BY <1>1, <1>2, <1>4, <1>5 DEF Periodic

-----------------------------------------------------------------------------
(* One evaluation keeps the types and drains the confidence.               *)
LEMMA PeriodicGood ==
  ASSUME IInv, HPeriodic PROVE IInv'
<1> DEFINE c == UpdatedConfidence
<1>0. TypeOK /\ Drained /\ Periodic
  BY DEF IInv, HPeriodic
<1>1. /\ c \in 0..MaxConfidence
      /\ ~Centred(color_count) => c = 0 \/ c = obstacle_free_confidence - 2
  BY <1>0, Evaluation DEF TypeOK
<1>2. obstacle_free_confidence' \in 0..MaxConfidence
  BY <1>0, <1>1, Branches, TuningAssumption
<1>3. TypeOK'
  BY <1>0, <1>2, Branches DEF TypeOK, Periodic, droneVars
<1>4. StopAfter \in Nat /\ StopAfter >= 1 /\ 2 * StopAfter >= MaxConfidence
  BY StreakLength
<1>5. MaxConfidence \in Nat /\ badStreak \in 0..StopAfter
      /\ obstacle_free_confidence \in 0..MaxConfidence
  BY <1>0, TuningAssumption DEF Drained, TypeOK
<1>6. badStreak' \in 0..StopAfter
  BY <1>4, <1>5 DEF HPeriodic
<1>7. c = 0 \/ c <= MaxConfidence - 2 * badStreak'
  <2>1. CASE Centred(color_count)
    BY <1>1, <1>5, <2>1 DEF HPeriodic
  <2>2. CASE ~Centred(color_count)
    <3>1. badStreak' = IF badStreak < StopAfter THEN badStreak + 1 ELSE StopAfter
      BY <2>2 DEF HPeriodic
    <3>2. c = 0 \/ c = obstacle_free_confidence - 2
      BY <1>1, <2>2
    <3>3. \/ obstacle_free_confidence = 0 \/ obstacle_free_confidence = 1
          \/ obstacle_free_confidence <= MaxConfidence - 2 * badStreak
      BY <1>0 DEF Drained
    <3> HIDE DEF c
    <3> QED BY <1>1, <1>4, <1>5, <3>1, <3>2, <3>3
  <2> QED BY <2>1, <2>2
<1>8. Drained'
  BY <1>0, <1>6, <1>7, Branches DEF Drained
<1> QED BY <1>3, <1>8 DEF IInv

(* The drone and the detector leave the state machine alone.               *)
LEMMA OtherGood ==
  ASSUME IInv, HOther PROVE IInv'
<1>0. TypeOK /\ Drained
  BY DEF IInv
<1>1. UNCHANGED <<navigation_state, obstacle_free_confidence, badStreak>>
  BY DEF HOther, Drone, color_detection_cb, fsmVars, FlyToGoal, Yaw, FlyElsewhere,
         EnterStart, LeaveStart, TakeOff, Land
<1>2. Drained'
  BY <1>0, <1>1 DEF Drained
<1>3. ASSUME NEW row \in Rows, color_detection_cb(row) PROVE IInv'
  BY <1>0, <1>2, <1>3 DEF color_detection_cb, fsmVars, droneVars, TypeOK, IInv
<1>4. CASE FlyToGoal
  <2>1. PICK x \in Int, y \in Int : pos = <<x, y>>
    BY <1>0 DEF TypeOK
  <2>2. PICK gx \in Int, gy \in Int : GOAL = <<gx, gy>>
    BY <1>0 DEF TypeOK
  <2>3. pos' \in Int \X Int
    BY <1>4, <2>1, <2>2 DEF FlyToGoal, Towards
  <2> QED BY <1>0, <1>2, <1>4, <2>3 DEF FlyToGoal, fsmVars, TypeOK, IInv
<1>5. CASE Yaw
  BY <1>0, <1>2, <1>5 DEF Yaw, fsmVars, TypeOK, IInv
<1>6. CASE FlyElsewhere
  BY <1>0, <1>2, <1>6, GridAssumption DEF FlyElsewhere, fsmVars, TypeOK, IInv
<1>7. CASE EnterStart
  BY <1>0, <1>2, <1>7 DEF EnterStart, fsmVars, TypeOK, IInv
<1>8. CASE LeaveStart
  BY <1>0, <1>2, <1>8 DEF LeaveStart, fsmVars, TypeOK, IInv
<1>9. CASE TakeOff
  BY <1>0, <1>2, <1>9 DEF TakeOff, fsmVars, TypeOK, IInv
<1>10. CASE Land
  BY <1>0, <1>2, <1>10 DEF Land, fsmVars, TypeOK, IInv
<1> QED
  BY <1>3, <1>4, <1>5, <1>6, <1>7, <1>8, <1>9, <1>10 DEF HOther, Drone

(* The invariant holds in every state.                                     *)
THEOREM Invariance == HSpec => []IInv
<1>1. ASSUME IInv, [HNext]_hvars PROVE IInv'
  <2>1. CASE UNCHANGED hvars
    BY <1>1, <2>1 DEF hvars, vars, fsmVars, droneVars, IInv, TypeOK, Drained, StopAfter
  <2> QED BY <1>1, <2>1, PeriodicGood, OtherGood DEF HNext
<1> QED BY <1>1, InitGood, PTL DEF HSpec

(* TypeOK, for every arena and tuning: above all, the confidence stays     *)
(* within 0..MaxConfidence.                                                *)
THEOREM AvoiderTyping == HSpec => []TypeOK
<1>1. IInv => TypeOK
  BY DEF IInv
<1> QED BY <1>1, Invariance, PTL

(* GOAL never advances at the end of a streak of StopAfter evaluations     *)
(* without a centred direction, for every MaxConfidence of at least 2.     *)
THEOREM AvoiderStops == HSpec => NoAdvanceAfterBadStreak
<1>1. ASSUME IInv, HPeriodic, badStreak' = StopAfter
      PROVE  GOAL' \in {GOAL, pos}
  <2> DEFINE c == UpdatedConfidence
  <2>0. TypeOK /\ Drained /\ Periodic
    BY <1>1 DEF IInv, HPeriodic
  <2>1. StopAfter \in Nat /\ StopAfter >= 1 /\ 2 * StopAfter >= MaxConfidence
    BY StreakLength
  <2>2. ~Centred(color_count)
    BY <1>1, <2>1 DEF HPeriodic
  <2>3. badStreak + 1 >= StopAfter
    BY <1>1, <2>0, <2>1, <2>2 DEF HPeriodic, Drained
  <2>4. c \in 0..MaxConfidence /\ (c = 0 \/ c = obstacle_free_confidence - 2)
    BY <2>0, <2>2, Evaluation DEF TypeOK
  <2>5. \/ obstacle_free_confidence = 0 \/ obstacle_free_confidence = 1
        \/ obstacle_free_confidence <= MaxConfidence - 2 * badStreak
    BY <2>0 DEF Drained
  <2>6. MaxConfidence \in Nat /\ badStreak \in 0..StopAfter
        /\ obstacle_free_confidence \in 0..MaxConfidence
    BY <2>0, TuningAssumption DEF Drained, TypeOK
  <2> HIDE DEF c
  <2>7. c = 0
    BY <2>1, <2>3, <2>4, <2>5, <2>6
  <2>8. Safe(0) \/ ObstacleFound(0) \/ SearchForSafeHeading(0) \/ OutOfBounds(0)
    BY <2>0, <2>7 DEF Periodic, c
  <2> QED
    BY <2>8 DEF Safe, ObstacleFound, SearchForSafeHeading, OutOfBounds, waypoint_move_here_2d
<1>2. ASSUME IInv, HNext, Periodic, badStreak' = StopAfter, GOAL' # GOAL
      PROVE  GOAL' = pos
  <2>1. HOther => GOAL' \in {GOAL, pos}
    BY DEF HOther, Drone, color_detection_cb, FlyToGoal, Yaw, FlyElsewhere, EnterStart,
           LeaveStart, TakeOff, Land
  <2> QED BY <1>1, <1>2, <2>1 DEF HNext
<1>3. IInv /\ [HNext]_hvars => [NoAdvanceStep]_hvars
  BY <1>2 DEF NoAdvanceStep
<1> QED BY <1>3, Invariance, PTL DEF HSpec, NoAdvanceAfterBadStreak

-----------------------------------------------------------------------------
(* StaysInside needs a zone without dents: here, a rectangle.              *)

(* A point between the drone and a point of the rectangle straight ahead   *)
(* is in the rectangle.                                                    *)
LEMMA Between ==
  ASSUME TypeOK, NEW west \in Int, NEW east \in Int, NEW south \in Int, NEW north \in Int,
         ObstacleZone = (west..east) \X (south..north), pos \in ObstacleZone,
         NEW near \in Nat, NEW far \in Nat, near <= far,
         calculateForwards(far) \in ObstacleZone
  PROVE  calculateForwards(near) \in ObstacleZone
<1>1. PICK x \in Int, y \in Int : pos = <<x, y>>
  BY DEF TypeOK
<1>2. psi = 0 \/ psi = 1 \/ psi = 2 \/ psi = 3
  BY DEF TypeOK, Headings
<1> QED BY <1>1, <1>2 DEF calculateForwards, Direction

(* An evaluation leaves GOAL where it is, or moves it within the zone.     *)
LEMMA GoalInside ==
  ASSUME TypeOK, NEW west \in Int, NEW east \in Int, NEW south \in Int, NEW north \in Int,
         ObstacleZone = (west..east) \X (south..north),
         pos \in ObstacleZone, GOAL \in ObstacleZone, Periodic
  PROVE  GOAL' \in ObstacleZone
<1> DEFINE c == UpdatedConfidence
           move == MoveDistance(c)
<1>1. move \in Nat /\ Scaled(move) \in Nat /\ move <= Scaled(move)
  BY Evaluation, Distances DEF TypeOK
<1>2. GOAL' = GOAL \/ (GOAL' = calculateForwards(move)
                       /\ calculateForwards(Scaled(move)) \in ObstacleZone)
  BY DEF Periodic, Safe, ObstacleFound, SearchForSafeHeading, OutOfBounds,
         waypoint_move_here_2d, InsideObstacleZone
<1> HIDE DEF move
<1> QED BY <1>1, <1>2, Between

(* In block START the drone and GOAL stay in a rectangular obstacle zone,  *)
(* whatever its size, the tuning and the detections.                       *)
THEOREM AvoiderStaysInside ==
  ASSUME NEW west \in Int, NEW east \in Int, NEW south \in Int, NEW north \in Int,
         ObstacleZone = (west..east) \X (south..north)
  PROVE  HSpec => StaysInside
<1>1. ASSUME IInv, HNext, following, following', InZone PROVE InZone'
  <2>0. TypeOK /\ pos \in ObstacleZone /\ GOAL \in ObstacleZone
    BY <1>1 DEF IInv, InZone
  <2>1. CASE Periodic
    <3>1. GOAL' \in ObstacleZone
      BY <2>0, <2>1, GoalInside
    <3> QED BY <2>0, <2>1, <3>1 DEF Periodic, droneVars, InZone
  <2>2. CASE FlyToGoal
    <3>1. PICK x \in Int, y \in Int : pos = <<x, y>>
      BY <2>0 DEF TypeOK
    <3>2. PICK gx \in Int, gy \in Int : GOAL = <<gx, gy>>
      BY <2>0 DEF TypeOK
    <3>3. /\ x \in west..east /\ y \in south..north
          /\ gx \in west..east /\ gy \in south..north
      BY <2>0, <3>1, <3>2
    <3>4. Towards(x, gx) \in west..east /\ Towards(y, gy) \in south..north
      BY <3>3 DEF Towards
    <3>5. pos' = <<Towards(x, gx), y>> \/ pos' = <<x, Towards(y, gy)>>
      BY <2>2, <3>1, <3>2 DEF FlyToGoal
    <3> QED BY <2>0, <2>2, <3>3, <3>4, <3>5 DEF FlyToGoal, InZone
  <2>3. ASSUME NEW row \in Rows, color_detection_cb(row) PROVE InZone'
    BY <2>0, <2>3 DEF color_detection_cb, droneVars, InZone
  <2>4. CASE Yaw \/ LeaveStart \/ TakeOff
    BY <2>0, <2>4 DEF Yaw, LeaveStart, TakeOff, InZone
  <2>5. ~FlyElsewhere /\ ~EnterStart /\ ~Land
    BY <1>1 DEF FlyElsewhere, EnterStart, Land
  <2> QED BY <1>1, <2>1, <2>2, <2>3, <2>4, <2>5 DEF HNext, HPeriodic, HOther, Drone
<1>2. IInv /\ [HNext]_hvars => [StaysInsideStep]_vars
  BY <1>1 DEF StaysInsideStep, hvars
<1> QED BY <1>2, Invariance, PTL DEF HSpec, StaysInside
=============================================================================
