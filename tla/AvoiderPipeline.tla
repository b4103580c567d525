-------------------------- MODULE AvoiderPipeline --------------------------
(***************************************************************************)
(* The detector and the avoider at work together: this module extends the  *)
(* detector by the avoider it feeds.  The avoider is bound to the messages *)
(* of filter 1, the front camera's                                         *)
(* (conf/airframes/tudelft/bebop_course_orangeavoid.xml:75); a second      *)
(* camera may be enabled beside it.                                        *)
(* The video threads interleave with the autopilot thread at every step;   *)
(* the two periodic functions belong to the autopilot thread, so one runs  *)
(* when the other has returned.  The detector's period is 50 Hz, the       *)
(* avoider's 4 Hz: between two evaluations of the avoider at least one     *)
(* call of the detector starts and returns.                                *)
(***************************************************************************)
EXTENDS ColorDetector

CONSTANTS
  Arena, ObstacleZone, Home, ImageHeight, MaxConfidence, StepLength,
  MaxDistance, LookAhead

VARIABLES
  navigation_state, color_count, obstacle_free_confidence, GOAL,
  nav_heading, pos, psi, in_flight, following,
  called,       (* the detector was called since the last evaluation       *)
  known,        (* frames stored before the last evaluation                *)
  received      (* the frame of the last message the avoider received      *)

Av == INSTANCE OrangeAvoider

avVars  == <<navigation_state, color_count, obstacle_free_confidence, GOAL,
             nav_heading, pos, psi, in_flight, following>>
detVars == vars          (* of the detector                                *)
pipelineVars == <<avVars, detVars, called, known, received>>

Camera == 1

ASSUME FrontCameraInUse == Camera \in Filters

Stored == global_filters[Camera].frame

PipelineInit == Av!Init /\ Init /\ called = FALSE /\ known = 0 /\ received = 0

VideoStep(f) ==
  /\ Scan(f) \/ VideoThread(f)
  /\ UNCHANGED <<avVars, called, known, received>>

(* The steps of the detector's periodic call that send nothing.            *)
DetectorQuietStep ==
  /\ \/ LockPeriodic \/ CopyFilters \/ UnlockPeriodic
     \/ \E f \in {1, 2} : SkipSend(f)
  /\ called' = (called \/ (periodic = "send2"))
  /\ UNCHANGED <<avVars, known, received>>

(* Sending a message of filter 1 is a call of the avoider's callback.      *)
DetectorSend ==
  /\ \/ /\ Send(Camera)
        /\ Av!color_detection_cb(sent'.color_count)
        /\ received' = sent'.frame
     \/ \E f \in Filters \ {Camera} :
          Send(f) /\ UNCHANGED <<avVars, received>>
  /\ called' = (called \/ (periodic = "send2"))
  /\ UNCHANGED known

AvoiderPeriodic ==
  /\ periodic = "idle" /\ called
  /\ Av!Periodic
  /\ called' = FALSE
  /\ known' = Stored
  /\ UNCHANGED <<detVars, received>>

DroneStep == Av!Drone /\ UNCHANGED <<detVars, called, known, received>>

PipelineNext ==
  \/ \E f \in Filters : VideoStep(f)
  \/ DetectorQuietStep \/ DetectorSend \/ AvoiderPeriodic \/ DroneStep

PipelineSpec == PipelineInit /\ [][PipelineNext]_pipelineVars

-----------------------------------------------------------------------------
(* An evaluation never rests on a frame older than one that was already    *)
(* stored when the evaluation before it was made: a row stored by the      *)
(* video thread reaches the avoider within one period, whatever the second *)
(* camera sends (cv_detect_color_object.c:342-360,                         *)
(* orange_avoider.c:62-68,87-109).                                         *)
DecidesOnFreshFrame == [][AvoiderPeriodic => received >= known]_pipelineVars
=============================================================================
