------------------------------- MODULE Camera -------------------------------
(***************************************************************************)
(* One camera: the driver's buffers, the capture threads of v4l2.c, the    *)
(* video threads of video_thread.c with an asynchronous listener of cv.c,  *)
(* and the main thread that starts and stops them on request.              *)
(*                                                                         *)
(* dev->mutex protects accesses that are steps of their own here, so it is *)
(* not a variable.  An image is abstracted to its label; a capture thread  *)
(* has the name of the video thread that created it.                       *)
(***************************************************************************)
EXTENDS Integers

CONSTANTS
  Buffer,          (* the device's mmap buffers                            *)
  Thread,          (* video threads that may exist at a time (a bound)     *)
  Image,           (* labels of images                                     *)
  None,            (* no buffer, image or thread: V4L2_IMG_NONE, NULL      *)
  WaitsForThreads  (* a start is requested only after the last threads end *)

ASSUME NoneIsNone == None \notin Buffer \cup Image \cup Thread
ASSUME WaitsIsBoolean == WaitsForThreads \in BOOLEAN
ASSUME ListenerIsNoVideoThread == "listener" \notin Thread \cup {None}

VARIABLES
  queued,          (* buffers the driver may fill                          *)
  filled,          (* buffers the driver has filled                        *)
  content,         (* the image in each buffer                             *)
  streaming,
  deq_idx,         (* dev->buffers_deq_idx                                 *)
  thread,          (* dev->thread                                          *)
  capture,         (* [pc, buf, cancelled] of each capture thread          *)
  is_running,      (* camera->thread.is_running                            *)
  video,           (* [pc, todo, img] of each video thread                 *)
  main,            (* where the main thread is in v4l2_stop_capture        *)
  listener,        (* the asynchronous listener's thread                   *)
  img_processed,
  img_mutex,       (* a video thread, "listener" or None                   *)
  img_available,   (* the condition has been signalled                     *)
  img_copy

driver == <<queued, filled, content, streaming>>
async  == <<listener, img_processed, img_mutex, img_available, img_copy>>
vars   == <<driver, deq_idx, thread, capture, is_running, video, main, async>>

CaptureState == [pc : {"none", "select", "swap", "enqueue"},
                 buf : Buffer \cup {None}, cancelled : BOOLEAN]

VideoState == [pc : {"none", "check", "reset", "enqueue", "stream", "create",
                     "mark", "test", "get", "run", "trylock", "copy", "free"},
               todo : SUBSET Buffer, img : Buffer \cup {None}]

NoCapture == [pc |-> "none", buf |-> None, cancelled |-> FALSE]
NoVideo   == [pc |-> "none", todo |-> {}, img |-> None]

Init ==
  /\ queued = {} /\ filled = {} /\ streaming = FALSE
  /\ content \in [Buffer -> Image]
  /\ deq_idx = None /\ thread = None /\ is_running = FALSE
  /\ capture = [v \in Thread |-> NoCapture]
  /\ video = [v \in Thread |-> NoVideo]
  /\ main = "idle"
  /\ listener = "start"
  /\ img_processed \in BOOLEAN      (* malloc leaves it as it is           *)
  /\ img_mutex = None /\ img_available = FALSE
  /\ img_copy = None

(* VIDIOC_QBUF: refused for a buffer the driver already has.               *)
CanEnqueue(b) == b \notin queued \cup filled
Enqueue(b) == queued' = (IF CanEnqueue(b) THEN queued \cup {b} ELSE queued)

GoTo(v, pc) == video' = [video EXCEPT ![v].pc = pc]
End(v)      == video' = [video EXCEPT ![v] = NoVideo]

-----------------------------------------------------------------------------
(* The driver: an image arrives in one of the buffers queued.              *)
Fill ==
  /\ streaming
  /\ \E b \in queued, image \in Image :
       /\ queued' = queued \ {b}
       /\ filled' = filled \cup {b}
       /\ content' = [content EXCEPT ![b] = image]
  /\ UNCHANGED <<streaming, deq_idx, thread, capture, is_running, video, main,
                 async>>

-----------------------------------------------------------------------------
(* The capture thread.                                                     *)

EndCapture(v) == capture' = [capture EXCEPT ![v] = NoCapture]

(* select and VIDIOC_DQBUF succeed.                                        *)
Dequeue(v) ==
  /\ capture[v].pc = "select" /\ streaming
  /\ \E b \in filled :
       /\ filled' = filled \ {b}
       /\ capture' = [capture EXCEPT ![v].pc = "swap", ![v].buf = b]
  /\ UNCHANGED <<queued, content, streaming, deq_idx, thread, is_running,
                 video, main, async>>

(* Either fails, as VIDIOC_DQBUF does once the stream is off.              *)
DequeueFails(v) ==
  /\ capture[v].pc = "select"
  /\ thread' = None
  /\ EndCapture(v)
  /\ UNCHANGED <<driver, deq_idx, is_running, video, main, async>>

(* select is a cancellation point.                                         *)
Cancelled(v) ==
  /\ capture[v].pc = "select" /\ capture[v].cancelled
  /\ EndCapture(v)
  /\ UNCHANGED <<driver, deq_idx, thread, is_running, video, main, async>>

(* Faulty variant: the first image has no previous one to skip.            *)
SwapAlwaysEnqueues(v) ==
  /\ capture[v].pc = "swap"
  /\ deq_idx' = capture[v].buf
  /\ capture' = [capture EXCEPT ![v].pc = "enqueue", ![v].buf = deq_idx]
  /\ UNCHANGED <<driver, thread, is_running, video, main, async>>

(* Under dev->mutex; buf becomes prev_idx.                                 *)
Swap(v) ==
  /\ capture[v].pc = "swap"
  /\ deq_idx' = capture[v].buf
  /\ capture' = [capture EXCEPT
                   ![v].pc = IF deq_idx = None THEN "select" ELSE "enqueue",
                   ![v].buf = deq_idx]
  /\ UNCHANGED <<driver, thread, is_running, video, main, async>>

(* Faulty variant: deq_idx is read again instead of prev_idx.              *)
EnqueueLatest(v) ==
  /\ capture[v].pc = "enqueue"
  /\ Enqueue(IF deq_idx = None THEN capture[v].buf ELSE deq_idx)
  /\ capture' = [capture EXCEPT ![v].pc = "select", ![v].buf = None]
  /\ UNCHANGED <<filled, content, streaming, deq_idx, thread, is_running,
                 video, main, async>>

EnqueuePrevious(v) ==
  /\ capture[v].pc = "enqueue"
  /\ Enqueue(capture[v].buf)
  /\ capture' = [capture EXCEPT ![v].pc = "select", ![v].buf = None]
  /\ UNCHANGED <<filled, content, streaming, deq_idx, thread, is_running,
                 video, main, async>>

CaptureStep(v) ==
  Dequeue(v) \/ DequeueFails(v) \/ Cancelled(v) \/ Swap(v) \/ EnqueuePrevious(v)

-----------------------------------------------------------------------------
(* The video thread: v4l2_start_capture, then the loop.                    *)

Check(v) ==
  /\ video[v].pc = "check"
  /\ IF thread = None THEN GoTo(v, "reset") ELSE End(v)
  /\ UNCHANGED <<driver, deq_idx, thread, capture, is_running, main, async>>

Reset(v) ==
  /\ video[v].pc = "reset"
  /\ deq_idx' = None
  /\ video' = [video EXCEPT ![v].pc = "enqueue", ![v].todo = Buffer]
  /\ UNCHANGED <<driver, thread, capture, is_running, main, async>>

(* The buffers in any order; the first one refused ends the attempt.       *)
EnqueueNext(v) ==
  /\ video[v].pc = "enqueue"
  /\ \/ /\ video[v].todo = {}
        /\ GoTo(v, "stream")
        /\ UNCHANGED queued
     \/ \E b \in video[v].todo :
          /\ Enqueue(b)
          /\ IF CanEnqueue(b)
             THEN video' = [video EXCEPT ![v].todo = @ \ {b}]
             ELSE End(v)
  /\ UNCHANGED <<filled, content, streaming, deq_idx, thread, capture,
                 is_running, main, async>>

(* When VIDIOC_STREAMON fails, the driver keeps the buffers.               *)
StreamOn(v) ==
  /\ video[v].pc = "stream"
  /\ \/ streaming' = TRUE /\ GoTo(v, "create")
     \/ UNCHANGED streaming /\ End(v)
  /\ UNCHANGED <<queued, filled, content, deq_idx, thread, capture,
                 is_running, main, async>>

CreateCapture(v) ==
  /\ video[v].pc = "create"
  /\ thread' = v
  /\ capture' = [capture EXCEPT ![v] = [NoCapture EXCEPT !.pc = "select"]]
  /\ GoTo(v, "mark")
  /\ UNCHANGED <<driver, deq_idx, is_running, main, async>>

Mark(v) ==
  /\ video[v].pc = "mark"
  /\ is_running' = TRUE
  /\ GoTo(v, "test")
  /\ UNCHANGED <<driver, deq_idx, thread, capture, main, async>>

Test(v) ==
  /\ video[v].pc = "test"
  /\ IF is_running THEN GoTo(v, "get") ELSE End(v)
  /\ UNCHANGED <<driver, deq_idx, thread, capture, is_running, main, async>>

(* Faulty variant: the image taken stays the latest one.                   *)
GetKeepsLatest(v) ==
  /\ video[v].pc = "get" /\ deq_idx # None
  /\ video' = [video EXCEPT ![v].pc = "run", ![v].img = deq_idx]
  /\ UNCHANGED <<driver, deq_idx, thread, capture, is_running, main, async>>

(* The loop of v4l2_image_get spins until an image has been dequeued.      *)
Get(v) ==
  /\ video[v].pc = "get" /\ deq_idx # None
  /\ video' = [video EXCEPT ![v].pc = "run", ![v].img = deq_idx]
  /\ deq_idx' = None
  /\ UNCHANGED <<driver, thread, capture, is_running, main, async>>

(* cv_run_device.  The listener is left out when it is inactive, too early *)
(* for its frame rate, or still busy; synchronous listeners return at once.*)
RunDevice(v) ==
  /\ video[v].pc = "run"
  /\ \/ GoTo(v, "free")
     \/ img_processed /\ GoTo(v, "trylock")
  /\ UNCHANGED <<driver, deq_idx, thread, capture, is_running, main, async>>

TryLock(v) ==
  /\ video[v].pc = "trylock"
  /\ IF img_mutex = None
     THEN img_mutex' = v /\ GoTo(v, "copy")
     ELSE UNCHANGED img_mutex /\ GoTo(v, "free")
  /\ UNCHANGED <<driver, deq_idx, thread, capture, is_running, main, listener,
                 img_processed, img_available, img_copy>>

(* Faulty variant: the listener is not signalled.                          *)
CopyWithoutSignal(v) ==
  /\ video[v].pc = "copy"
  /\ img_copy' = content[video[v].img]
  /\ img_processed' = FALSE
  /\ img_mutex' = None
  /\ GoTo(v, "free")
  /\ UNCHANGED <<driver, deq_idx, thread, capture, is_running, main, listener,
                 img_available>>

(* A signal is lost unless the listener is waiting for it.                 *)
CopyImage(v) ==
  /\ video[v].pc = "copy"
  /\ img_copy' = content[video[v].img]
  /\ img_processed' = FALSE
  /\ img_available' = (listener = "wait")
  /\ img_mutex' = None
  /\ GoTo(v, "free")
  /\ UNCHANGED <<driver, deq_idx, thread, capture, is_running, main, listener>>

(* Faulty variant: the buffer is not given back to the driver.             *)
FreeForgetsBuffer(v) ==
  /\ video[v].pc = "free"
  /\ video' = [video EXCEPT ![v].pc = "test", ![v].img = None]
  /\ UNCHANGED <<driver, deq_idx, thread, capture, is_running, main, async>>

Free(v) ==
  /\ video[v].pc = "free"
  /\ Enqueue(video[v].img)
  /\ video' = [video EXCEPT ![v].pc = "test", ![v].img = None]
  /\ UNCHANGED <<filled, content, streaming, deq_idx, thread, capture,
                 is_running, main, async>>

VideoStep(v) ==
  \/ Check(v) \/ Reset(v) \/ EnqueueNext(v) \/ StreamOn(v) \/ CreateCapture(v)
  \/ Mark(v) \/ Test(v) \/ Get(v) \/ RunDevice(v) \/ TryLock(v) \/ CopyImage(v)
  \/ Free(v)

-----------------------------------------------------------------------------
(* The listener's thread (cv_async_thread).                                *)

ListenerStarts ==
  /\ listener = "start" /\ img_mutex = None
  /\ img_processed' = TRUE
  /\ listener' = "wait"
  /\ UNCHANGED <<driver, deq_idx, thread, capture, is_running, video, main,
                 img_mutex, img_available, img_copy>>

(* Faulty variant: asks for the next image before working on this one.     *)
ListenerWakesAsking ==
  /\ listener = "wait" /\ img_mutex = None
  /\ img_available' = FALSE
  /\ listener' = (IF img_processed THEN "wait" ELSE "func")
  /\ img_processed' = TRUE
  /\ UNCHANGED <<driver, deq_idx, thread, capture, is_running, video, main,
                 img_mutex, img_copy>>

(* A wake-up may be spurious: the image may have been processed already.   *)
ListenerWakes ==
  /\ listener = "wait" /\ img_mutex = None
  /\ img_available' = FALSE
  /\ IF img_processed
     THEN UNCHANGED <<listener, img_mutex>>
     ELSE listener' = "func" /\ img_mutex' = "listener"
  /\ UNCHANGED <<driver, deq_idx, thread, capture, is_running, video, main,
                 img_processed, img_copy>>

(* pthread_cond_wait gives the mutex back.                                 *)
ListenerEnds ==
  /\ listener = "func"
  /\ img_processed' = TRUE
  /\ listener' = "wait" /\ img_mutex' = None
  /\ UNCHANGED <<driver, deq_idx, thread, capture, is_running, video, main,
                 img_available, img_copy>>

-----------------------------------------------------------------------------
(* The main thread.  is_running is set by the video thread only, so two    *)
(* requests in a row may create two of them.                               *)

StartRequest ==
  /\ main = "idle" /\ ~is_running
  /\ WaitsForThreads => \A v \in Thread : video[v].pc = "none"
  /\ \E v \in Thread : video[v].pc = "none" /\ GoTo(v, "check")
  /\ UNCHANGED <<driver, deq_idx, thread, capture, is_running, main, async>>

StopRequest ==
  /\ main = "idle" /\ is_running
  /\ is_running' = FALSE
  /\ main' = "stop"
  /\ UNCHANGED <<driver, deq_idx, thread, capture, video, async>>

(* VIDIOC_STREAMOFF takes every buffer from the driver.  When it fails, or *)
(* there is no capture thread, the stop is over: everything stays as it    *)
(* is, but is_running was cleared before.                                  *)
StreamOff ==
  /\ main = "stop"
  /\ \/ main' = "idle" /\ UNCHANGED <<queued, filled, streaming>>
     \/ /\ thread # None
        /\ main' = "cancel" /\ queued' = {} /\ filled' = {} /\ streaming' = FALSE
  /\ UNCHANGED <<content, deq_idx, thread, capture, is_running, video, async>>

(* dev->thread is read anew for pthread_cancel and for pthread_join.  The  *)
(* capture thread may have cleared it meanwhile; both are undefined for    *)
(* NULL: the program dies, or an error is returned that the tests for      *)
(* negative values do not see.                                             *)
Cancel ==
  /\ main = "cancel"
  /\ IF thread = None
     THEN main' \in {"dead", "join"} /\ UNCHANGED capture
     ELSE main' = "join" /\ capture' = [capture EXCEPT ![thread].cancelled = TRUE]
  /\ UNCHANGED <<driver, deq_idx, thread, is_running, video, async>>

(* Faulty variant: a thread that was cancelled is not forgotten.           *)
JoinKeepsThread ==
  /\ main = "join"
  /\ IF thread = None
     THEN main' \in {"dead", "idle"}
     ELSE capture[thread].pc = "none" /\ main' = "idle"
  /\ UNCHANGED <<driver, deq_idx, thread, capture, is_running, video, async>>

Join ==
  /\ main = "join"
  /\ IF thread = None
     THEN main' \in {"dead", "idle"} /\ UNCHANGED thread
     ELSE capture[thread].pc = "none" /\ main' = "idle" /\ thread' = None
  /\ UNCHANGED <<driver, deq_idx, capture, is_running, video, async>>

-----------------------------------------------------------------------------
Next ==
  /\ main # "dead"
  /\ \/ Fill
     \/ \E v \in Thread : CaptureStep(v) \/ VideoStep(v)
     \/ ListenerStarts \/ ListenerWakes \/ ListenerEnds
     \/ StartRequest \/ StopRequest \/ StreamOff \/ Cancel \/ Join

Spec == Init /\ [][Next]_vars

(* Every thread is scheduled again and again; an image arrives while the   *)
(* stream is on and a buffer queued.  Requests, failures of a running      *)
(* stream and spurious wake-ups need not happen.                           *)
Alive(A) == main # "dead" /\ A

Fairness ==
  /\ WF_vars(Alive(Fill))
  /\ \A v \in Thread :
       /\ WF_vars(Alive(Dequeue(v)))
       /\ WF_vars(Alive(~streaming /\ DequeueFails(v)))
       /\ WF_vars(Alive(Cancelled(v)))
       /\ WF_vars(Alive(Swap(v)))
       /\ WF_vars(Alive(EnqueuePrevious(v)))
       /\ WF_vars(Alive(VideoStep(v)))
  /\ WF_vars(Alive(ListenerStarts))
  /\ WF_vars(Alive(img_available /\ ListenerWakes))
  /\ WF_vars(Alive(ListenerEnds))
  /\ WF_vars(Alive(StreamOff \/ Cancel \/ Join))

FairSpec == Spec /\ Fairness

-----------------------------------------------------------------------------
TypeOK ==
  /\ queued \subseteq Buffer /\ filled \subseteq Buffer
  /\ content \in [Buffer -> Image]
  /\ streaming \in BOOLEAN /\ is_running \in BOOLEAN
  /\ deq_idx \in Buffer \cup {None}
  /\ thread \in Thread \cup {None}
  /\ capture \in [Thread -> CaptureState]
  /\ video \in [Thread -> VideoState]
  /\ main \in {"idle", "stop", "cancel", "join", "dead"}
  /\ listener \in {"start", "wait", "func"}
  /\ img_processed \in BOOLEAN /\ img_available \in BOOLEAN
  /\ img_mutex \in Thread \cup {"listener", None}
  /\ img_copy \in Image \cup {None}

(* Who may write or read a buffer: the driver, a capture thread, whoever   *)
(* asks for the latest image, a video thread.                              *)
Owners(b) ==
  {<<"driver", "queued">> : x \in queued \cap {b}}
    \cup {<<"driver", "filled">> : x \in filled \cap {b}}
    \cup {<<"latest", None>> : x \in {deq_idx} \cap {b}}
    \cup {<<"capture", v>> : v \in {w \in Thread : capture[w].buf = b}}
    \cup {<<"video", v>> : v \in {w \in Thread : video[w].img = b}}

(* A buffer has one owner, although five places pass buffers on without a  *)
(* common lock: the image a listener reads is not written by the camera,   *)
(* nor handed out twice (v4l2.c:105-123,349-361,418-430).                  *)
OneOwner == \A b \in Buffer : \A x, y \in Owners(b) : x = y

Source == INSTANCE ImageSource WITH
  latest <- IF deq_idx = None THEN None ELSE content[deq_idx],
  held <- [v \in Thread |->
             IF video[v].img = None THEN None ELSE content[video[v].img]]

(* The video thread gets the image captured last, once, and keeps it       *)
(* unchanged until it frees it, through stops and restarts                 *)
(* (v4l2.c:52-125,335-373,410-430).                                        *)
ImplementsSource == Source!Spec

(* The listener's copy is not replaced while the listener works on it,     *)
(* although img_processed is read without the lock (cv.c:113-145,161-171). *)
CopyIsStable == [][listener = "func" => img_copy' = img_copy]_vars

(* An image handed to a listener that is up is processed: the signal is    *)
(* not lost, and the wake-up does not mistake it for a spurious one        *)
(* (cv.c:138-142,159-171).                                                 *)
HandedImageIsProcessed ==
  (listener # "start" /\ ~img_processed) ~> (listener = "func" \/ main = "dead")

(* A video thread that asks for an image gets one as long as the capture   *)
(* thread runs: no path drops a buffer for good (v4l2.c:344-361).          *)
ImagesKeepComing ==
  \A v \in Thread :
    (video[v].pc = "get" /\ thread # None)
      ~> (video[v].pc # "get" \/ thread = None \/ main = "dead")

(* A stop that has turned the stream off returns, with the capture thread  *)
(* at its end and forgotten, although that thread may end by itself and    *)
(* clear dev->thread while the main thread cancels and joins it.  Programs *)
(* that die of the cleared handle are left out by the premise.  Nothing is *)
(* said of a stop that returns before it turns the stream off, nor of the  *)
(* start after this one (v4l2.c:65-96,488-529).                            *)
StopClosesCapture ==
  [](main # "dead")
    => ((main = "cancel")
          ~> (main = "idle" /\ thread = None /\ \A v \in Thread : capture[v].pc = "none"))
=============================================================================
