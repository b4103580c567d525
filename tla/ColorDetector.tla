--------------------------- MODULE ColorDetector ---------------------------
(***************************************************************************)
(* The detector of modules/computer_vision/cv_detect_color_object.c.       *)
(* A video thread per camera runs object_detector on each frame: it scans  *)
(* the image without the lock, then writes the row it found into           *)
(* global_filters under the mutex.  The autopilot thread runs              *)
(* color_object_detector_periodic: it copies the whole array under the     *)
(* mutex and sends one ABI message per filter whose copy is marked         *)
(* updated.  The mark is cleared in the copy only, never in global_filters.*)
(*                                                                         *)
(* Each filter record carries the number of the frame it was computed from *)
(* (a history field, read by properties only).  The centroid x_c, y_c is   *)
(* an uninitialized value that no receiver reads: it is left out.          *)
(***************************************************************************)
EXTENDS Integers

CONSTANTS
  Filters,      (* the filters in use: {1}, or {1, 2} with a second camera *)
  Rows,         (* the rows find_object_centroid may return                *)
  MaxFrame      (* bound of the model: frames taken per camera             *)

ASSUME DetectorAssumption ==
  /\ Filters \subseteq {1, 2}
  /\ Rows \subseteq Nat
  /\ MaxFrame \in Nat

VARIABLES
  mutex,            (* its holder: "free", "autopilot" or a filter's camera *)
  video,            (* per filter, what its video thread is doing           *)
  scanned,          (* per filter, the row found in the frame in hand       *)
  frames,           (* per filter, the number of frames taken so far        *)
  global_filters, local_filters,
  periodic,         (* what color_object_detector_periodic is doing         *)
  sent              (* the last ABI message: filter, row and frame          *)

videoVars == <<video, scanned, frames>>
vars == <<mutex, videoVars, global_filters, local_filters, periodic, sent>>

Record == [color_count : Rows \cup {0}, updated : BOOLEAN, frame : 0..MaxFrame]
Empty  == [color_count |-> 0, updated |-> FALSE, frame |-> 0]
NoMessage == [filter |-> 0, color_count |-> 0, frame |-> 0]

Holder(f) == IF f = 1 THEN "camera1" ELSE "camera2"

-----------------------------------------------------------------------------
Init ==
  /\ mutex = "free"
  /\ video = [f \in Filters |-> "waiting"]
  /\ scanned = [f \in Filters |-> 0]
  /\ frames = [f \in Filters |-> 0]
  /\ global_filters = [f \in Filters |-> Empty]
  /\ local_filters = [f \in Filters |-> Empty]
  /\ periodic = "idle"
  /\ sent = NoMessage

(* A frame arrives and is scanned: no shared data is touched.              *)
Scan(f) ==
  /\ video[f] = "waiting" /\ frames[f] < MaxFrame
  /\ frames' = [frames EXCEPT ![f] = @ + 1]
  /\ \E row \in Rows : scanned' = [scanned EXCEPT ![f] = row]
  /\ video' = [video EXCEPT ![f] = "scanned"]
  /\ UNCHANGED <<mutex, global_filters, local_filters, periodic, sent>>

LockVideo(f) ==
  /\ video[f] = "scanned" /\ mutex = "free"
  /\ mutex' = Holder(f)
  /\ video' = [video EXCEPT ![f] = "locked"]
  /\ UNCHANGED <<scanned, frames, global_filters, local_filters, periodic, sent>>

(* Faulty variant: the row is counted from one.                            *)
StoreCountFromOne(f) ==
  /\ video[f] = "locked"
  /\ global_filters' = [global_filters EXCEPT
       ![f] = [@ EXCEPT !.color_count = scanned[f] + 1, !.frame = frames[f]]]
  /\ video' = [video EXCEPT ![f] = "storing"]
  /\ UNCHANGED <<mutex, scanned, frames, local_filters, periodic, sent>>

(* The fields are stored one after the other.                              *)
StoreCount(f) ==
  /\ video[f] = "locked"
  /\ global_filters' = [global_filters EXCEPT
       ![f] = [@ EXCEPT !.color_count = scanned[f], !.frame = frames[f]]]
  /\ video' = [video EXCEPT ![f] = "storing"]
  /\ UNCHANGED <<mutex, scanned, frames, local_filters, periodic, sent>>

(* Faulty variant: the record is not marked.                               *)
StoreUnmarked(f) ==
  /\ video[f] = "storing"
  /\ video' = [video EXCEPT ![f] = "stored"]
  /\ UNCHANGED <<mutex, scanned, frames, global_filters, local_filters, periodic, sent>>

StoreUpdated(f) ==
  /\ video[f] = "storing"
  /\ global_filters' = [global_filters EXCEPT ![f].updated = TRUE]
  /\ video' = [video EXCEPT ![f] = "stored"]
  /\ UNCHANGED <<mutex, scanned, frames, local_filters, periodic, sent>>

UnlockVideo(f) ==
  /\ video[f] = "stored"
  /\ mutex' = "free"
  /\ video' = [video EXCEPT ![f] = "waiting"]
  /\ UNCHANGED <<scanned, frames, global_filters, local_filters, periodic, sent>>

VideoThread(f) ==
  LockVideo(f) \/ StoreCount(f) \/ StoreUpdated(f) \/ UnlockVideo(f)

(* Faulty variant: the array is copied without the lock.                   *)
CopyWithoutLock ==
  /\ periodic = "idle"
  /\ periodic' = "copying"
  /\ UNCHANGED <<mutex, videoVars, global_filters, local_filters, sent>>

LockPeriodic ==
  /\ periodic = "idle" /\ mutex = "free"
  /\ mutex' = "autopilot"
  /\ periodic' = "copying"
  /\ UNCHANGED <<videoVars, global_filters, local_filters, sent>>

(* Faulty variant: the copy is made once and kept.                         *)
CopyOnce ==
  /\ periodic = "copying"
  /\ local_filters' = [f \in Filters |-> IF local_filters[f].frame = 0
                                         THEN global_filters[f] ELSE local_filters[f]]
  /\ periodic' = "copied"
  /\ UNCHANGED <<mutex, videoVars, global_filters, sent>>

CopyFilters ==
  /\ periodic = "copying"
  /\ local_filters' = global_filters
  /\ periodic' = "copied"
  /\ UNCHANGED <<mutex, videoVars, global_filters, sent>>

UnlockPeriodic ==
  /\ periodic = "copied"
  /\ mutex' = "free"
  /\ periodic' = "send1"
  /\ UNCHANGED <<videoVars, global_filters, local_filters, sent>>

Pending(f) == f \in Filters /\ local_filters[f].updated

AfterSend(f) == IF f = 1 THEN "send2" ELSE "idle"
Sending(f)   == IF f = 1 THEN "send1" ELSE "send2"

(* AbiSendMsgVISUAL_DETECTION calls the receivers before it returns.       *)
Send(f) ==
  /\ periodic = Sending(f) /\ Pending(f)
  /\ sent' = [filter |-> f, color_count |-> local_filters[f].color_count,
              frame |-> local_filters[f].frame]
  /\ local_filters' = [local_filters EXCEPT ![f].updated = FALSE]
  /\ periodic' = AfterSend(f)
  /\ UNCHANGED <<mutex, videoVars, global_filters>>

SkipSend(f) ==
  /\ periodic = Sending(f) /\ ~Pending(f)
  /\ periodic' = AfterSend(f)
  /\ UNCHANGED <<mutex, videoVars, global_filters, local_filters, sent>>

(* The steps of one call, LockPeriodic excepted.                           *)
PeriodicCall ==
  CopyFilters \/ UnlockPeriodic \/ \E f \in {1, 2} : Send(f) \/ SkipSend(f)

Next ==
  \/ \E f \in Filters : Scan(f) \/ VideoThread(f)
  \/ LockPeriodic
  \/ PeriodicCall

(* Both threads run on; the periodic task gets the mutex that is free      *)
(* between two frames; frames may stop coming.                             *)
Fairness ==
  /\ \A f \in Filters : SF_vars(VideoThread(f))
  /\ SF_vars(LockPeriodic)
  /\ WF_vars(PeriodicCall)

Spec     == Init /\ [][Next]_vars
FairSpec == Spec /\ Fairness

-----------------------------------------------------------------------------
TypeOK ==
  /\ mutex \in {"free", "autopilot", "camera1", "camera2"}
  /\ video \in [Filters -> {"waiting", "scanned", "locked", "storing", "stored"}]
  /\ scanned \in [Filters -> Rows \cup {0}]
  /\ frames \in [Filters -> 0..MaxFrame]
  /\ global_filters \in [Filters -> Record]
  /\ local_filters \in [Filters -> Record]
  /\ periodic \in {"idle", "copying", "copied", "send1", "send2"}
  /\ sent \in [filter : 0..2, color_count : Rows \cup {0}, frame : 0..MaxFrame]

(* Two threads are never in their critical sections at once, and the mutex *)
(* is held by exactly the thread that is (cv_detect_color_object.c:109-114 *)
(* and 346-348).                                                           *)
InCritical(f) == video[f] \in {"locked", "storing", "stored"}
PeriodicCritical == periodic \in {"copying", "copied"}
MutexProtects ==
  /\ \A f \in Filters : InCritical(f) <=> mutex = Holder(f)
  /\ PeriodicCritical <=> mutex = "autopilot"

(* A row that was stored is sent, or overtaken by a later frame of the     *)
(* same camera that is: no detection is lost for good, even if no further  *)
(* frame ever arrives (cv_detect_color_object.c:342-360).                  *)
Delivered(f, n) == sent.filter = f /\ sent.frame >= n
EveryFrameDelivered ==
  \A f \in Filters, n \in 1..MaxFrame : (global_filters[f].frame = n) ~> Delivered(f, n)

=============================================================================
