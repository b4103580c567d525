------------------------------ MODULE MCVision ------------------------------
(***************************************************************************)
(* The whole way from an image to the avoider in one state space: every    *)
(* image is scanned to its end, and the threads run behind one of them.    *)
(* They need run behind one only: a scan touches nothing the threads share *)
(* and ends in a row, which the detector draws from Rows.                  *)
(* The geometry plays no part in what is asked of the threads, so the zone *)
(* is the one point the drone starts from.                                 *)
(***************************************************************************)
EXTENDS AvoiderPipeline, MCRowScan

HomePoint == <<1, 1>>
HomeOnly  == {HomePoint}

OneImage == image = [i \in 0..(Height - 1) |-> [ground |-> TRUE, plant |-> FALSE]]

visionVars == <<scanVars, pipelineVars>>

(* The drone's first heading matters to the threads alone.                 *)
VisionInit == ScanInit /\ PipelineInit /\ (OneImage \/ psi = 0)

VisionNext ==
  \/ ScanNext /\ UNCHANGED pipelineVars
  \/ Done /\ OneImage /\ PipelineNext /\ UNCHANGED scanVars
  \/ Done /\ ~OneImage /\ UNCHANGED visionVars

VisionSpec == VisionInit /\ [][VisionNext]_visionVars /\ Fairness
=============================================================================
