------------------------- MODULE AvoiderProperties -------------------------
(***************************************************************************)
(* What the avoider promises, stated over OrangeAvoider with one history   *)
(* variable: badStreak counts the evaluations of orange_avoider_periodic,  *)
(* since the last one that saw a centred direction, that did not.  It is   *)
(* read by properties only.                                                *)
(***************************************************************************)
EXTENDS OrangeAvoider

VARIABLE badStreak

hvars == <<vars, badStreak>>

HInit == Init /\ badStreak = 0

(* Evaluations in a row that bring any confidence down to zero.            *)
StopAfter == (MaxConfidence + 1) \div 2

(* An evaluation lengthens or ends the streak (saturating at StopAfter).   *)
HPeriodic ==
  /\ Periodic
  /\ badStreak' = IF Centred(color_count) THEN 0
                  ELSE IF badStreak < StopAfter THEN badStreak + 1 ELSE StopAfter

HOther ==
  /\ \/ Drone
     \/ \E row \in Rows : color_detection_cb(row)
  /\ UNCHANGED badStreak

HNext == HPeriodic \/ HOther
HSpec == HInit /\ [][HNext]_hvars

(* The periodic task and the heading loop keep running; nothing else is    *)
(* assumed to happen.                                                      *)
HFairSpec == HSpec /\ WF_hvars(HPeriodic) /\ WF_hvars(Yaw /\ UNCHANGED badStreak)

-----------------------------------------------------------------------------
(* While block START is flown from inside the obstacle zone towards a GOAL *)
(* inside it, neither the drone nor GOAL ever leaves the zone: GOAL is put *)
(* at 2/3 of the distance that was just found to be inside                 *)
(* (orange_avoider.c:120-126), and it stays where it was in every other    *)
(* state.                                                                  *)
InZone == pos \in ObstacleZone /\ GOAL \in ObstacleZone
StaysInsideStep == following /\ following' /\ InZone => InZone'
StaysInside == [][StaysInsideStep]_vars

(* GOAL never advances once the last StopAfter evaluations in a row all    *)
(* missed a centred direction, whatever confidence had been built up and   *)
(* whichever states were crossed meanwhile (orange_avoider.c:100-126,162). *)
NoAdvanceStep == Periodic /\ badStreak' = StopAfter => GOAL' \in {GOAL, pos}
NoAdvanceAfterBadStreak == [][NoAdvanceStep]_hvars

(* If the drone stays in block START, in the zone, and the detector keeps  *)
(* reporting a centred direction, the state machine reaches SAFE again and *)
(* again: the edge of the zone, where it must turn until the look-ahead    *)
(* falls inside, never holds it for good (orange_avoider.c:115-170).       *)
Undisturbed == in_flight /\ following /\ pos \in ObstacleZone /\ Centred(color_count)
KeepsExploring == <>[]Undisturbed => []<>(navigation_state = "SAFE")

(* Leaving OBSTACLE_FOUND in block START, GOAL is where the drone is, as   *)
(* the declaration of waypoint_move_here_2d (waypoints.h:132-136) says of  *)
(* the two calls in orange_avoider.c:132-133.                              *)
ObstacleStopsStep ==
  following /\ navigation_state = "OBSTACLE_FOUND" /\ navigation_state' # navigation_state
    => GOAL' = pos
ObstacleStopsDrone == [][ObstacleStopsStep]_vars

=============================================================================
