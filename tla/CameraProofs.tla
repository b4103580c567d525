---------------------------- MODULE CameraProofs ----------------------------
(***************************************************************************)
(* Ownership of the buffers and the promise of module ImageSource, for any *)
(* buffers, threads and images, as long as starts wait for the threads of  *)
(* the last session; and that a listener's copy is stable.                 *)
(***************************************************************************)
EXTENDS Camera, TLAPS

USE DEF vars, driver, async

Starting == {"reset", "enqueue", "stream", "create"}
Holding  == {"run", "trylock", "copy", "free"}

(* A thread has a buffer exactly where its code has one.                   *)
BuffersAtPcs ==
  \A v \in Thread :
    /\ capture[v].buf = None <=> capture[v].pc \in {"none", "select"}
    /\ video[v].img = None <=> video[v].pc \notin Holding

(* One video thread; one capture thread, which dev->thread names.          *)
OneSession ==
  \A v \in Thread :
    /\ capture[v].pc # "none" => thread = v
    /\ \A w \in Thread : video[v].pc # "none" /\ video[w].pc # "none" => v = w

(* A session starts with the device free, and without an image from the    *)
(* reset of deq_idx on.                                                    *)
CleanStart ==
  \A v \in Thread :
    /\ video[v].pc \in Starting => thread = None
    /\ video[v].pc \in Starting \ {"reset"} => deq_idx = None

BuffersApart ==
  /\ queued \cap filled = {}
  /\ deq_idx \notin queued \cup filled
  /\ \A v \in Thread :
       /\ capture[v].buf \notin queued \cup filled
       /\ video[v].img \notin queued \cup filled
       /\ capture[v].buf # None => capture[v].buf # deq_idx
       /\ video[v].img # None => video[v].img # deq_idx
       /\ \A w \in Thread : capture[v].buf # None => capture[v].buf # video[w].img

IInv == TypeOK /\ BuffersAtPcs /\ OneSession /\ CleanStart /\ BuffersApart

LEMMA InitIInv == Init => IInv
<1> SUFFICES ASSUME Init PROVE IInv
  OBVIOUS
<1>1. NoCapture \in CaptureState /\ NoVideo \in VideoState
  BY DEF NoCapture, NoVideo, CaptureState, VideoState
<1>2. TypeOK
  BY <1>1 DEF Init, TypeOK
<1>3. \A v \in Thread : /\ capture[v].pc = "none" /\ capture[v].buf = None
                       /\ video[v].pc = "none" /\ video[v].img = None
  BY DEF Init, NoCapture, NoVideo
<1>4. BuffersAtPcs /\ OneSession /\ CleanStart
  BY <1>3 DEF BuffersAtPcs, OneSession, CleanStart, Starting, Holding
<1>5. BuffersApart
  BY <1>3 DEF Init, BuffersApart
<1> QED
  BY <1>2, <1>4, <1>5 DEF IInv

-----------------------------------------------------------------------------
(* A step of a capture thread, and one of a video thread, in terms of what *)
(* the thread becomes.                                                     *)

LEMMA CaptureBecomes ==
  ASSUME TypeOK, NEW v \in Thread, NEW c \in CaptureState,
         capture' = [capture EXCEPT ![v] = c]
  PROVE  /\ capture' \in [Thread -> CaptureState]
         /\ capture'[v] = c
         /\ \A w \in Thread : w # v => capture'[w] = capture[w]
  BY DEF TypeOK

LEMMA VideoBecomes ==
  ASSUME TypeOK, NEW v \in Thread, NEW c \in VideoState,
         video' = [video EXCEPT ![v] = c]
  PROVE  /\ video' \in [Thread -> VideoState]
         /\ video'[v] = c
         /\ \A w \in Thread : w # v => video'[w] = video[w]
  BY DEF TypeOK

LEMMA FillIInv == IInv /\ Fill => IInv'
<1> SUFFICES ASSUME IInv, Fill PROVE IInv'
  OBVIOUS
<1> USE DEF Fill
<1>1. TypeOK'
  BY DEF IInv, TypeOK
<1>2. (BuffersAtPcs /\ OneSession /\ CleanStart)'
  BY DEF IInv, BuffersAtPcs, OneSession, CleanStart
<1>3. BuffersApart'
  BY DEF IInv, BuffersApart
<1> QED
  BY <1>1, <1>2, <1>3 DEF IInv

LEMMA CaptureIInv ==
  ASSUME IInv, NEW v \in Thread, CaptureStep(v)
  PROVE  IInv'
<1>1. capture[v] \in CaptureState
  BY DEF IInv, TypeOK
<1>2. CASE Dequeue(v)
  <2>1. PICK b \in filled :
          /\ filled' = filled \ {b}
          /\ capture' = [capture EXCEPT ![v].pc = "swap", ![v].buf = b]
    BY <1>2 DEF Dequeue
  <2> DEFINE c == [capture[v] EXCEPT !.pc = "swap", !.buf = b]
  <2>2. c \in CaptureState /\ c.pc = "swap" /\ c.buf = b
    BY <1>1 DEF CaptureState, IInv, TypeOK
  <2>3. capture' = [capture EXCEPT ![v] = c]
    BY <2>1
  <2> HIDE DEF c
  <2>4. /\ capture' \in [Thread -> CaptureState]
        /\ capture'[v].pc = "swap" /\ capture'[v].buf = b
        /\ \A w \in Thread : w # v => capture'[w] = capture[w]
    BY <2>2, <2>3, CaptureBecomes DEF IInv
  <2>5. TypeOK'
    BY <1>2, <2>1, <2>4 DEF Dequeue, IInv, TypeOK
  <2>6. (BuffersAtPcs /\ OneSession /\ CleanStart)'
    BY <1>2, <2>4, NoneIsNone DEF Dequeue, IInv, TypeOK, BuffersAtPcs, OneSession, CleanStart
  <2>7. BuffersApart'
    BY <1>2, <2>1, <2>4, NoneIsNone DEF Dequeue, IInv, TypeOK, BuffersAtPcs, BuffersApart
  <2> QED
    BY <2>5, <2>6, <2>7 DEF IInv
<1>3. CASE DequeueFails(v) \/ Cancelled(v)
  <2>1. capture' = [capture EXCEPT ![v] = NoCapture]
    BY <1>3 DEF DequeueFails, Cancelled, EndCapture
  <2>2. NoCapture \in CaptureState /\ NoCapture.pc = "none" /\ NoCapture.buf = None
    BY DEF CaptureState, NoCapture
  <2>3. /\ capture' \in [Thread -> CaptureState]
        /\ capture'[v].pc = "none" /\ capture'[v].buf = None
        /\ \A w \in Thread : w # v => capture'[w] = capture[w]
    BY <2>1, <2>2, CaptureBecomes DEF IInv
  <2>4. /\ thread' = None \/ thread' = thread
        /\ UNCHANGED <<driver, deq_idx, is_running, video, main, async>>
    BY <1>3 DEF DequeueFails, Cancelled
  <2>5. TypeOK'
    BY <2>3, <2>4 DEF IInv, TypeOK
  <2>6. (BuffersAtPcs /\ CleanStart)'
    BY <2>3, <2>4 DEF IInv, BuffersAtPcs, CleanStart
  <2>7. OneSession'
    <3>1. capture[v].pc = "select"
      BY <1>3 DEF DequeueFails, Cancelled
    <3> QED
      BY <2>3, <2>4, <3>1 DEF IInv, OneSession
  <2>8. BuffersApart'
    BY <2>3, <2>4, NoneIsNone DEF IInv, TypeOK, BuffersApart
  <2> QED
    BY <2>5, <2>6, <2>7, <2>8 DEF IInv
<1>4. CASE Swap(v)
  <2> DEFINE pc == IF deq_idx = None THEN "select" ELSE "enqueue"
             c  == [capture[v] EXCEPT !.pc = pc, !.buf = deq_idx]
  <2>1. /\ capture[v].pc = "swap" /\ deq_idx' = capture[v].buf
        /\ capture' = [capture EXCEPT ![v] = c]
        /\ UNCHANGED <<driver, thread, is_running, video, main, async>>
    BY <1>4 DEF Swap
  <2>2. c \in CaptureState /\ c.pc = pc /\ c.buf = deq_idx
    BY <1>1 DEF CaptureState, IInv, TypeOK
  <2> HIDE DEF c
  <2>3. /\ capture' \in [Thread -> CaptureState]
        /\ capture'[v].pc = pc /\ capture'[v].buf = deq_idx
        /\ \A w \in Thread : w # v => capture'[w] = capture[w]
    BY <2>1, <2>2, CaptureBecomes DEF IInv
  <2>4. capture[v].buf \in Buffer /\ thread = v
    BY <1>1, <2>1 DEF CaptureState, IInv, BuffersAtPcs, OneSession
  <2>5. TypeOK'
    BY <2>1, <2>3, <2>4 DEF IInv, TypeOK
  <2>6. (BuffersAtPcs /\ OneSession /\ CleanStart)'
    BY <2>1, <2>3, <2>4, NoneIsNone DEF IInv, TypeOK, BuffersAtPcs, OneSession, CleanStart
  <2>7. \A w \in Thread : w # v => capture[w].buf = None
    BY <2>4 DEF IInv, BuffersAtPcs, OneSession
  <2>8. BuffersApart'
    BY <2>1, <2>3, <2>4, <2>7, NoneIsNone DEF IInv, TypeOK, BuffersApart
  <2> QED
    BY <2>5, <2>6, <2>8 DEF IInv
<1>5. CASE EnqueuePrevious(v)
  <2> DEFINE c == [capture[v] EXCEPT !.pc = "select", !.buf = None]
  <2>1. /\ capture[v].pc = "enqueue" /\ Enqueue(capture[v].buf)
        /\ capture' = [capture EXCEPT ![v] = c]
        /\ UNCHANGED <<filled, content, streaming, deq_idx, thread, is_running, video,
                       main, async>>
    BY <1>5 DEF EnqueuePrevious
  <2>2. c \in CaptureState /\ c.pc = "select" /\ c.buf = None
    BY <1>1 DEF CaptureState
  <2> HIDE DEF c
  <2>3. /\ capture' \in [Thread -> CaptureState]
        /\ capture'[v].pc = "select" /\ capture'[v].buf = None
        /\ \A w \in Thread : w # v => capture'[w] = capture[w]
    BY <2>1, <2>2, CaptureBecomes DEF IInv
  <2>4. /\ capture[v].buf \in Buffer /\ thread = v
        /\ queued' = queued \cup {capture[v].buf}
    BY <1>1, <2>1 DEF CaptureState, IInv, BuffersAtPcs, OneSession, BuffersApart, Enqueue,
                     CanEnqueue
  <2>5. TypeOK'
    BY <2>1, <2>3, <2>4 DEF IInv, TypeOK
  <2>6. (BuffersAtPcs /\ OneSession /\ CleanStart)'
    BY <2>1, <2>3, <2>4 DEF IInv, BuffersAtPcs, OneSession, CleanStart
  <2>7. \A w \in Thread : w # v => capture[w].buf = None
    BY <2>4 DEF IInv, BuffersAtPcs, OneSession
  <2>8. BuffersApart'
    BY <2>1, <2>3, <2>4, <2>7, NoneIsNone DEF IInv, TypeOK, BuffersApart
  <2> QED
    BY <2>5, <2>6, <2>8 DEF IInv
<1> QED
  BY <1>2, <1>3, <1>4, <1>5 DEF CaptureStep

-----------------------------------------------------------------------------
(* The video thread.                                                       *)

OthersOK ==
  /\ streaming \in BOOLEAN /\ is_running \in BOOLEAN
  /\ main \in {"idle", "stop", "cancel", "join", "dead"}
  /\ listener \in {"start", "wait", "func"}
  /\ img_processed \in BOOLEAN /\ img_available \in BOOLEAN
  /\ img_mutex \in Thread \cup {"listener", None}
  /\ img_copy \in Image \cup {None}

LEMMA VideoMoves ==
  ASSUME IInv, NEW v \in Thread, NEW c \in VideoState,
         video' = [video EXCEPT ![v] = c],
         UNCHANGED <<queued, filled, content, deq_idx, thread, capture>>,
         OthersOK',
         video[v].pc # "none",
         c.img = video[v].img,
         c.img = None <=> c.pc \notin Holding,
         c.pc \in Starting => thread = None,
         c.pc \in Starting \ {"reset"} => deq_idx = None
  PROVE  IInv'
<1>1. /\ video' \in [Thread -> VideoState]
      /\ video'[v] = c
      /\ \A w \in Thread : w # v => video'[w] = video[w]
  BY VideoBecomes DEF IInv
<1>2. TypeOK'
  BY <1>1 DEF IInv, TypeOK, OthersOK
<1>3. (BuffersAtPcs /\ OneSession /\ CleanStart)'
  BY <1>1 DEF IInv, BuffersAtPcs, OneSession, CleanStart
<1>4. BuffersApart'
  BY <1>1 DEF IInv, BuffersApart
<1> QED
  BY <1>2, <1>3, <1>4 DEF IInv

(* The steps that leave the buffers where they are.                        *)
LEMMA GoToIInv ==
  ASSUME IInv, NEW v \in Thread, NEW pc, GoTo(v, pc),
         pc \in {"check", "reset", "enqueue", "stream", "create", "mark", "test", "get",
                "run", "trylock", "copy", "free"},
         UNCHANGED <<queued, filled, content, deq_idx, thread, capture>>,
         OthersOK',
         video[v].pc # "none",
         video[v].pc \in Holding <=> pc \in Holding,
         pc \in Starting => thread = None,
         pc \in Starting \ {"reset"} => deq_idx = None
  PROVE  IInv'
<1> DEFINE c == [video[v] EXCEPT !.pc = pc]
<1>1. c \in VideoState /\ c.pc = pc /\ c.img = video[v].img
  BY DEF IInv, TypeOK, VideoState
<1>2. video' = [video EXCEPT ![v] = c]
  BY DEF GoTo
<1> HIDE DEF c
<1>3. c.img = None <=> c.pc \notin Holding
  BY <1>1 DEF IInv, BuffersAtPcs
<1> QED
  BY <1>1, <1>2, <1>3, VideoMoves

LEMMA EndIInv ==
  ASSUME IInv, NEW v \in Thread, End(v),
         UNCHANGED <<queued, filled, content, deq_idx, thread, capture>>,
         OthersOK',
         video[v].pc \notin Holding \cup {"none"}
  PROVE  IInv'
<1>1. NoVideo \in VideoState /\ NoVideo.pc = "none" /\ NoVideo.img = None
  BY DEF NoVideo, VideoState
<1>2. video[v].img = None
  BY DEF IInv, BuffersAtPcs
<1>3. video' = [video EXCEPT ![v] = NoVideo]
  BY DEF End
<1> QED
  BY <1>1, <1>2, <1>3, VideoMoves DEF Starting, Holding

LEMMA SteadyStep ==
  ASSUME IInv, NEW v \in Thread,
         \/ Check(v) \/ StreamOn(v) \/ Mark(v) \/ Test(v) \/ RunDevice(v) \/ TryLock(v)
         \/ CopyImage(v)
  PROVE  IInv'
<1> USE DEF Starting, Holding
<1>0. OthersOK
  BY DEF IInv, TypeOK, OthersOK
<1>1. CASE Check(v)
  <2>1. /\ video[v].pc = "check" /\ OthersOK'
        /\ UNCHANGED <<queued, filled, content, deq_idx, thread, capture>>
        /\ (thread = None /\ GoTo(v, "reset")) \/ End(v)
    BY <1>0, <1>1 DEF Check, OthersOK
  <2> QED
    BY <2>1, GoToIInv, EndIInv
<1>2. CASE StreamOn(v)
  <2>1. /\ video[v].pc = "stream" /\ OthersOK'
        /\ UNCHANGED <<queued, filled, content, deq_idx, thread, capture>>
        /\ GoTo(v, "create") \/ End(v)
    BY <1>0, <1>2 DEF StreamOn, OthersOK
  <2>2. thread = None /\ deq_idx = None
    BY <2>1 DEF IInv, CleanStart
  <2> QED
    BY <2>1, <2>2, GoToIInv, EndIInv
<1>3. CASE Mark(v)
  <2>1. /\ video[v].pc = "mark" /\ GoTo(v, "test") /\ OthersOK'
        /\ UNCHANGED <<queued, filled, content, deq_idx, thread, capture>>
    BY <1>0, <1>3 DEF Mark, OthersOK
  <2> QED
    BY <2>1, GoToIInv
<1>4. CASE Test(v)
  <2>1. /\ video[v].pc = "test" /\ OthersOK'
        /\ UNCHANGED <<queued, filled, content, deq_idx, thread, capture>>
        /\ GoTo(v, "get") \/ End(v)
    BY <1>0, <1>4 DEF Test, OthersOK
  <2> QED
    BY <2>1, GoToIInv, EndIInv
<1>5. CASE RunDevice(v)
  <2>1. /\ video[v].pc = "run" /\ OthersOK'
        /\ UNCHANGED <<queued, filled, content, deq_idx, thread, capture>>
        /\ GoTo(v, "free") \/ GoTo(v, "trylock")
    BY <1>0, <1>5 DEF RunDevice, OthersOK
  <2> QED
    BY <2>1, GoToIInv
<1>6. CASE TryLock(v)
  <2>1. /\ video[v].pc = "trylock" /\ OthersOK'
        /\ UNCHANGED <<queued, filled, content, deq_idx, thread, capture>>
        /\ GoTo(v, "copy") \/ GoTo(v, "free")
    BY <1>0, <1>6 DEF TryLock, OthersOK
  <2> QED
    BY <2>1, GoToIInv
<1>7. CASE CopyImage(v)
  <2>1. video[v].pc = "copy" /\ GoTo(v, "free")
    BY <1>7 DEF CopyImage
  <2>2. content[video[v].img] \in Image
    BY <2>1 DEF IInv, TypeOK, VideoState, BuffersAtPcs
  <2>3. /\ OthersOK'
        /\ UNCHANGED <<queued, filled, content, deq_idx, thread, capture>>
    BY <1>0, <1>7, <2>2 DEF CopyImage, OthersOK
  <2> QED
    BY <2>1, <2>3, GoToIInv
<1> QED
  BY <1>1, <1>2, <1>3, <1>4, <1>5, <1>6, <1>7

LEMMA ResetIInv ==
  ASSUME IInv, NEW v \in Thread, Reset(v)
  PROVE  IInv'
<1> DEFINE c == [video[v] EXCEPT !.pc = "enqueue", !.todo = Buffer]
<1>1. c \in VideoState /\ c.pc = "enqueue" /\ c.img = video[v].img
  BY DEF IInv, TypeOK, VideoState
<1>2. /\ video[v].pc = "reset" /\ deq_idx' = None
      /\ video' = [video EXCEPT ![v] = c]
      /\ UNCHANGED <<driver, thread, capture, is_running, main, async>>
  BY DEF Reset
<1> HIDE DEF c
<1>3. /\ video' \in [Thread -> VideoState]
      /\ video'[v] = c
      /\ \A w \in Thread : w # v => video'[w] = video[w]
  BY <1>1, <1>2, VideoBecomes DEF IInv
<1>4. TypeOK'
  BY <1>2, <1>3 DEF IInv, TypeOK
<1>5. (BuffersAtPcs /\ OneSession /\ CleanStart)'
  BY <1>1, <1>2, <1>3 DEF IInv, BuffersAtPcs, OneSession, CleanStart, Starting, Holding
<1>6. BuffersApart'
  BY <1>1, <1>2, <1>3, NoneIsNone DEF IInv, TypeOK, BuffersApart
<1> QED
  BY <1>4, <1>5, <1>6 DEF IInv

(* Nobody but the driver has a buffer while a session starts.              *)
LEMMA EnqueueNextIInv ==
  ASSUME IInv, NEW v \in Thread, EnqueueNext(v)
  PROVE  IInv'
<1> USE DEF Starting, Holding
<1>1. /\ video[v].pc = "enqueue"
      /\ UNCHANGED <<filled, content, streaming, deq_idx, thread, capture, is_running,
                     main, async>>
  BY DEF EnqueueNext
<1>2. thread = None /\ deq_idx = None
  BY <1>1 DEF IInv, CleanStart
<1>3. OthersOK'
  BY <1>1 DEF IInv, TypeOK, OthersOK
<1>4. CASE GoTo(v, "stream") /\ UNCHANGED queued
  BY <1>1, <1>2, <1>3, <1>4, GoToIInv
<1>5. ASSUME NEW b \in video[v].todo, Enqueue(b), ~CanEnqueue(b), End(v)
      PROVE  IInv'
  <2>1. UNCHANGED queued
    BY <1>5 DEF Enqueue
  <2> QED
    BY <1>1, <1>3, <1>5, <2>1, EndIInv
<1>6. ASSUME NEW b \in video[v].todo, Enqueue(b), CanEnqueue(b),
             video' = [video EXCEPT ![v].todo = @ \ {b}]
      PROVE  IInv'
  <2> DEFINE c == [video[v] EXCEPT !.todo = @ \ {b}]
  <2>1. c \in VideoState /\ c.pc = "enqueue" /\ c.img = video[v].img
    BY <1>1 DEF IInv, TypeOK, VideoState
  <2>2. video' = [video EXCEPT ![v] = c]
    BY <1>6
  <2> HIDE DEF c
  <2>3. /\ video' \in [Thread -> VideoState]
        /\ video'[v] = c
        /\ \A w \in Thread : w # v => video'[w] = video[w]
    BY <2>1, <2>2, VideoBecomes DEF IInv
  <2>4. b \in Buffer /\ b # None /\ b \notin filled /\ queued' = queued \cup {b}
    BY <1>6, NoneIsNone DEF IInv, TypeOK, VideoState, Enqueue, CanEnqueue
  <2>5. \A w \in Thread : capture[w].buf = None /\ video[w].img = None
    BY <1>1, <1>2, NoneIsNone DEF IInv, BuffersAtPcs, OneSession
  <2>6. TypeOK'
    BY <1>1, <2>3, <2>4 DEF IInv, TypeOK
  <2>7. (BuffersAtPcs /\ OneSession /\ CleanStart)'
    BY <1>1, <1>2, <2>1, <2>3 DEF IInv, BuffersAtPcs, OneSession, CleanStart
  <2>8. BuffersApart'
    BY <1>1, <1>2, <2>1, <2>3, <2>4, <2>5 DEF IInv, BuffersApart
  <2> QED
    BY <2>6, <2>7, <2>8 DEF IInv
<1> QED
  BY <1>4, <1>5, <1>6 DEF EnqueueNext

LEMMA CreateIInv ==
  ASSUME IInv, NEW v \in Thread, CreateCapture(v)
  PROVE  IInv'
<1> USE DEF Starting, Holding
<1> DEFINE c == [NoCapture EXCEPT !.pc = "select"]
           d == [video[v] EXCEPT !.pc = "mark"]
<1>1. c \in CaptureState /\ c.pc = "select" /\ c.buf = None
  BY DEF CaptureState, NoCapture
<1>2. d \in VideoState /\ d.pc = "mark" /\ d.img = video[v].img
  BY DEF IInv, TypeOK, VideoState
<1>3. /\ video[v].pc = "create" /\ thread' = v
      /\ capture' = [capture EXCEPT ![v] = c]
      /\ video' = [video EXCEPT ![v] = d]
      /\ UNCHANGED <<driver, deq_idx, is_running, main, async>>
  BY DEF CreateCapture, GoTo
<1> HIDE DEF c, d
<1>4. /\ capture' \in [Thread -> CaptureState]
      /\ capture'[v] = c
      /\ \A w \in Thread : w # v => capture'[w] = capture[w]
  BY <1>1, <1>3, CaptureBecomes DEF IInv
<1>5. /\ video' \in [Thread -> VideoState]
      /\ video'[v] = d
      /\ \A w \in Thread : w # v => video'[w] = video[w]
  BY <1>2, <1>3, VideoBecomes DEF IInv
<1>6. \A w \in Thread : w # v => capture[w].pc = "none" /\ video[w].pc = "none"
  BY <1>3, NoneIsNone DEF IInv, OneSession, CleanStart
<1>7. TypeOK'
  BY <1>3, <1>4, <1>5 DEF IInv, TypeOK
<1>8. (BuffersAtPcs /\ OneSession /\ CleanStart)'
  BY <1>1, <1>2, <1>3, <1>4, <1>5, <1>6 DEF IInv, BuffersAtPcs, OneSession, CleanStart
<1>9. BuffersApart'
  BY <1>1, <1>2, <1>3, <1>4, <1>5, <1>6 DEF IInv, BuffersApart, BuffersAtPcs
<1> QED
  BY <1>7, <1>8, <1>9 DEF IInv

LEMMA GetIInv ==
  ASSUME IInv, NEW v \in Thread, Get(v)
  PROVE  IInv'
<1> USE DEF Starting, Holding
<1> DEFINE c == [video[v] EXCEPT !.pc = "run", !.img = deq_idx]
<1>1. c \in VideoState /\ c.pc = "run" /\ c.img = deq_idx
  BY DEF IInv, TypeOK, VideoState
<1>2. /\ video[v].pc = "get" /\ deq_idx # None /\ deq_idx' = None
      /\ video' = [video EXCEPT ![v] = c]
      /\ UNCHANGED <<driver, thread, capture, is_running, main, async>>
  BY DEF Get
<1> HIDE DEF c
<1>3. /\ video' \in [Thread -> VideoState]
      /\ video'[v] = c
      /\ \A w \in Thread : w # v => video'[w] = video[w]
  BY <1>1, <1>2, VideoBecomes DEF IInv
<1>4. TypeOK'
  BY <1>2, <1>3 DEF IInv, TypeOK
<1>5. (BuffersAtPcs /\ OneSession /\ CleanStart)'
  BY <1>1, <1>2, <1>3 DEF IInv, BuffersAtPcs, OneSession, CleanStart
<1>6. BuffersApart'
  BY <1>1, <1>2, <1>3, NoneIsNone DEF IInv, TypeOK, BuffersApart
<1> QED
  BY <1>4, <1>5, <1>6 DEF IInv

LEMMA FreeIInv ==
  ASSUME IInv, NEW v \in Thread, Free(v)
  PROVE  IInv'
<1> USE DEF Starting, Holding
<1> DEFINE c == [video[v] EXCEPT !.pc = "test", !.img = None]
<1>1. c \in VideoState /\ c.pc = "test" /\ c.img = None
  BY DEF IInv, TypeOK, VideoState
<1>2. /\ video[v].pc = "free" /\ Enqueue(video[v].img)
      /\ video' = [video EXCEPT ![v] = c]
      /\ UNCHANGED <<filled, content, streaming, deq_idx, thread, capture, is_running,
                     main, async>>
  BY DEF Free
<1> HIDE DEF c
<1>3. /\ video' \in [Thread -> VideoState]
      /\ video'[v] = c
      /\ \A w \in Thread : w # v => video'[w] = video[w]
  BY <1>1, <1>2, VideoBecomes DEF IInv
<1>4. video[v].img \in Buffer /\ queued' = queued \cup {video[v].img}
  BY <1>2 DEF IInv, TypeOK, VideoState, BuffersAtPcs, BuffersApart, Enqueue, CanEnqueue
<1>5. \A w \in Thread : w # v => video[w].img = None
  BY <1>2 DEF IInv, BuffersAtPcs, OneSession
<1>6. TypeOK'
  BY <1>2, <1>3, <1>4 DEF IInv, TypeOK
<1>7. (BuffersAtPcs /\ OneSession /\ CleanStart)'
  BY <1>1, <1>2, <1>3 DEF IInv, BuffersAtPcs, OneSession, CleanStart
<1>8. BuffersApart'
  BY <1>1, <1>2, <1>3, <1>4, <1>5, NoneIsNone DEF IInv, TypeOK, BuffersApart
<1> QED
  BY <1>6, <1>7, <1>8 DEF IInv

-----------------------------------------------------------------------------
(* The listener and the main thread.                                       *)

LEMMA ListenerIInv == IInv /\ (ListenerStarts \/ ListenerWakes \/ ListenerEnds) => IInv'
<1> SUFFICES ASSUME IInv, ListenerStarts \/ ListenerWakes \/ ListenerEnds PROVE IInv'
  OBVIOUS
<1>1. UNCHANGED <<driver, deq_idx, thread, capture, is_running, video, main>>
  BY DEF ListenerStarts, ListenerWakes, ListenerEnds
<1>2. OthersOK'
  BY <1>1 DEF ListenerStarts, ListenerWakes, ListenerEnds, IInv, TypeOK, OthersOK
<1>3. TypeOK'
  BY <1>1, <1>2 DEF IInv, TypeOK, OthersOK
<1>4. (BuffersAtPcs /\ OneSession /\ CleanStart /\ BuffersApart)'
  BY <1>1 DEF IInv, BuffersAtPcs, OneSession, CleanStart, BuffersApart
<1> QED
  BY <1>3, <1>4 DEF IInv

LEMMA StartIInv ==
  ASSUME IInv, WaitsForThreads, StartRequest
  PROVE  IInv'
<1> USE DEF Starting, Holding
<1>1. /\ \A w \in Thread : video[w].pc = "none"
      /\ UNCHANGED <<driver, deq_idx, thread, capture, is_running, main, async>>
  BY DEF StartRequest
<1>2. PICK v \in Thread : GoTo(v, "check")
  BY DEF StartRequest
<1> DEFINE c == [video[v] EXCEPT !.pc = "check"]
<1>3. c \in VideoState /\ c.pc = "check" /\ c.img = video[v].img
  BY DEF IInv, TypeOK, VideoState
<1>4. video' = [video EXCEPT ![v] = c]
  BY <1>2 DEF GoTo
<1> HIDE DEF c
<1>5. /\ video' \in [Thread -> VideoState]
      /\ video'[v] = c
      /\ \A w \in Thread : w # v => video'[w] = video[w]
  BY <1>3, <1>4, VideoBecomes DEF IInv
<1>6. TypeOK'
  BY <1>1, <1>5 DEF IInv, TypeOK
<1>7. (BuffersAtPcs /\ OneSession /\ CleanStart)'
  BY <1>1, <1>3, <1>5 DEF IInv, BuffersAtPcs, OneSession, CleanStart
<1>8. BuffersApart'
  BY <1>1, <1>3, <1>5 DEF IInv, BuffersApart
<1> QED
  BY <1>6, <1>7, <1>8 DEF IInv

LEMMA CancelIInv == IInv /\ Cancel => IInv'
<1> SUFFICES ASSUME IInv, Cancel PROVE IInv'
  OBVIOUS
<1>1. UNCHANGED <<driver, deq_idx, thread, is_running, video, async>>
  BY DEF Cancel
<1>2. CASE thread = None
  BY <1>1, <1>2 DEF Cancel, IInv, TypeOK, BuffersAtPcs, OneSession, CleanStart, BuffersApart
<1>3. CASE thread # None
  <2> DEFINE c == [capture[thread] EXCEPT !.cancelled = TRUE]
  <2>1. thread \in Thread
    BY <1>3 DEF IInv, TypeOK
  <2>2. /\ c \in CaptureState
        /\ c.pc = capture[thread].pc /\ c.buf = capture[thread].buf
    BY <2>1 DEF IInv, TypeOK, CaptureState
  <2>3. capture' = [capture EXCEPT ![thread] = c] /\ main' = "join"
    BY <1>3 DEF Cancel
  <2> HIDE DEF c
  <2>4. /\ capture' \in [Thread -> CaptureState]
        /\ capture'[thread] = c
        /\ \A w \in Thread : w # thread => capture'[w] = capture[w]
    BY <2>1, <2>2, <2>3, CaptureBecomes DEF IInv
  <2>5. \A w \in Thread : capture'[w].pc = capture[w].pc /\ capture'[w].buf = capture[w].buf
    BY <2>2, <2>4
  <2>6. TypeOK'
    BY <1>1, <2>3, <2>4 DEF IInv, TypeOK
  <2>7. (BuffersAtPcs /\ OneSession /\ CleanStart)'
    BY <1>1, <2>5 DEF IInv, BuffersAtPcs, OneSession, CleanStart
  <2>8. BuffersApart'
    BY <1>1, <2>5 DEF IInv, BuffersApart
  <2> QED
    BY <2>6, <2>7, <2>8 DEF IInv
<1> QED
  BY <1>2, <1>3

LEMMA StopIInv == IInv /\ (StopRequest \/ StreamOff \/ Join) => IInv'
<1> SUFFICES ASSUME IInv, StopRequest \/ StreamOff \/ Join PROVE IInv'
  OBVIOUS
<1>1. CASE StopRequest
  <2>1. TypeOK'
    BY <1>1 DEF StopRequest, IInv, TypeOK
  <2>2. (BuffersAtPcs /\ OneSession /\ CleanStart)'
    BY <1>1 DEF StopRequest, IInv, BuffersAtPcs, OneSession, CleanStart
  <2>3. BuffersApart'
    BY <1>1 DEF StopRequest, IInv, BuffersApart
  <2> QED
    BY <2>1, <2>2, <2>3 DEF IInv
<1>2. CASE StreamOff
  <2>1. TypeOK'
    BY <1>2 DEF StreamOff, IInv, TypeOK
  <2>2. (BuffersAtPcs /\ OneSession /\ CleanStart)'
    BY <1>2 DEF StreamOff, IInv, BuffersAtPcs, OneSession, CleanStart
  <2>3. BuffersApart'
    BY <1>2 DEF StreamOff, IInv, BuffersApart
  <2> QED
    BY <2>1, <2>2, <2>3 DEF IInv
<1>3. CASE Join
  BY <1>3 DEF Join, IInv, TypeOK, BuffersAtPcs, OneSession, CleanStart, BuffersApart
<1> QED
  BY <1>1, <1>2, <1>3

LEMMA NextIInv == WaitsForThreads /\ IInv /\ [Next]_vars => IInv'
<1> SUFFICES ASSUME WaitsForThreads, IInv, [Next]_vars PROVE IInv'
  OBVIOUS
<1>1. ASSUME NEW v \in Thread, VideoStep(v) PROVE IInv'
  <2>1. CASE \/ Check(v) \/ StreamOn(v) \/ Mark(v) \/ Test(v) \/ RunDevice(v)
             \/ TryLock(v) \/ CopyImage(v)
    BY <2>1, SteadyStep
  <2>2. CASE Reset(v)
    BY <2>2, ResetIInv
  <2>3. CASE EnqueueNext(v)
    BY <2>3, EnqueueNextIInv
  <2>4. CASE CreateCapture(v)
    BY <2>4, CreateIInv
  <2>5. CASE Get(v)
    BY <2>5, GetIInv
  <2>6. CASE Free(v)
    BY <2>6, FreeIInv
  <2> QED
    BY <1>1, <2>1, <2>2, <2>3, <2>4, <2>5, <2>6 DEF VideoStep
<1>2. CASE UNCHANGED vars
  <2>1. TypeOK'
    BY <1>2 DEF IInv, TypeOK
  <2>2. (BuffersAtPcs /\ OneSession /\ CleanStart /\ BuffersApart)'
    BY <1>2 DEF IInv, BuffersAtPcs, OneSession, CleanStart, BuffersApart
  <2> QED
    BY <2>1, <2>2 DEF IInv
<1> QED
  BY <1>1, <1>2, FillIInv, CaptureIInv, ListenerIInv, StartIInv, CancelIInv, StopIInv DEF Next

LEMMA Invariance == WaitsForThreads => (Spec => []IInv)
<1> SUFFICES ASSUME WaitsForThreads PROVE Spec => []IInv
  OBVIOUS
<1>1. IInv /\ [Next]_vars => IInv'
  BY NextIInv
<1> QED
  BY <1>1, InitIInv, PTL DEF Spec

(* Every variable keeps its type, for any number of buffers and threads.   *)
THEOREM CameraTyping == WaitsForThreads => (Spec => []TypeOK)
<1>1. IInv => TypeOK
  BY DEF IInv
<1> QED
  BY <1>1, Invariance, PTL

(* No buffer is ever with two of the driver, the capture thread, deq_idx   *)
(* and the video thread (v4l2.c:105-123,349-361,418-430).                  *)
THEOREM CameraOwnership == WaitsForThreads => (Spec => []OneOwner)
<1>1. ASSUME IInv, NEW b \in Buffer, NEW x \in Owners(b), NEW y \in Owners(b)
      PROVE  x = y
  BY <1>1, NoneIsNone DEF IInv, Owners, BuffersAtPcs, OneSession, BuffersApart, Holding
<1>2. IInv => OneOwner
  BY <1>1 DEF OneOwner
<1> QED
  BY <1>2, Invariance, PTL

-----------------------------------------------------------------------------
(* Camera implements ImageSource: the mapping of the variables, and which  *)
(* step each step is.                                                      *)

Latest == IF deq_idx = None THEN None ELSE content[deq_idx]
Held   == [v \in Thread |-> IF video[v].img = None THEN None ELSE content[video[v].img]]

LEMMA SameImages ==
  ASSUME \A v \in Thread : video'[v].img = video[v].img, UNCHANGED <<content, deq_idx>>
  PROVE  UNCHANGED <<Latest, Held>>
BY DEF Latest, Held

LEMMA FillStutters == IInv /\ Fill => UNCHANGED <<Latest, Held>>
<1> SUFFICES ASSUME IInv, Fill PROVE UNCHANGED <<Latest, Held>>
  OBVIOUS
<1>1. PICK b \in queued, image \in Image : content' = [content EXCEPT ![b] = image]
  BY DEF Fill
<1>2. UNCHANGED <<deq_idx, video>>
  BY DEF Fill
<1>3. \A c \in Buffer : c # b => content'[c] = content[c]
  BY <1>1 DEF IInv, TypeOK
<1>4. UNCHANGED Latest
  BY <1>2, <1>3 DEF IInv, TypeOK, BuffersApart, Latest
<1>5. \A v \in Thread : video[v].img # None => video[v].img \in Buffer \ {b}
  BY DEF IInv, TypeOK, VideoState, BuffersApart
<1>6. UNCHANGED Held
  BY <1>2, <1>3, <1>5 DEF Held
<1> QED
  BY <1>4, <1>6

LEMMA HeldBy ==
  ASSUME NEW w \in Thread
  PROVE  /\ Held[w] = IF video[w].img = None THEN None ELSE content[video[w].img]
         /\ Held'[w] = IF video'[w].img = None THEN None ELSE content'[video'[w].img]
BY DEF Held

LEMMA HeldExtensional ==
  ASSUME NEW v \in Thread, NEW image,
         Held'[v] = image, \A w \in Thread : w # v => Held'[w] = Held[w]
  PROVE  Held' = [Held EXCEPT ![v] = image]
<1>1. Held = [w \in Thread |-> Held[w]] /\ Held' = [w \in Thread |-> Held'[w]]
  BY DEF Held
<1> QED
  BY <1>1

LEMMA SwapCaptures ==
  ASSUME IInv, NEW v \in Thread, Swap(v)
  PROVE  \E image \in Image : Latest' = image /\ UNCHANGED Held
<1>1. /\ capture[v].pc = "swap" /\ deq_idx' = capture[v].buf
      /\ UNCHANGED <<content, video>>
  BY DEF Swap
<1>2. capture[v].buf \in Buffer
  BY <1>1 DEF IInv, TypeOK, CaptureState, BuffersAtPcs
<1>3. Latest' = content[capture[v].buf] /\ content[capture[v].buf] \in Image
  BY <1>1, <1>2, NoneIsNone DEF IInv, TypeOK, Latest
<1>4. UNCHANGED Held
  BY <1>1 DEF Held
<1> QED
  BY <1>3, <1>4

LEMMA ResetResets ==
  ASSUME IInv, NEW v \in Thread, Reset(v)
  PROVE  Latest' = None /\ UNCHANGED Held
<1>1. deq_idx' = None /\ content' = content
  BY DEF Reset
<1>2. \A w \in Thread : video'[w].img = video[w].img
  BY DEF Reset, IInv, TypeOK, VideoState
<1> QED
  BY <1>1, <1>2 DEF Latest, Held

LEMMA GetTakes ==
  ASSUME IInv, NEW v \in Thread, Get(v)
  PROVE  /\ Latest # None /\ Held[v] = None
         /\ Held' = [Held EXCEPT ![v] = Latest]
         /\ Latest' = None
<1>1. /\ video[v].pc = "get" /\ deq_idx # None /\ deq_idx' = None
      /\ video' = [video EXCEPT ![v].pc = "run", ![v].img = deq_idx]
      /\ content' = content
  BY DEF Get
<1>2. /\ video'[v].img = deq_idx
      /\ \A w \in Thread : w # v => video'[w].img = video[w].img
  BY <1>1 DEF IInv, TypeOK, VideoState
<1>3. deq_idx \in Buffer /\ content[deq_idx] \in Image /\ content[deq_idx] # None
  BY <1>1, NoneIsNone DEF IInv, TypeOK
<1>4. video[v].img = None
  BY <1>1 DEF IInv, BuffersAtPcs, Holding
<1>5. Held[v] = None
  BY <1>4 DEF Held
<1>6. Held' = [Held EXCEPT ![v] = Latest]
  <2>1. Held'[v] = Latest
    BY <1>1, <1>2, <1>3, HeldBy, NoneIsNone DEF Latest
  <2>2. ASSUME NEW w \in Thread, w # v PROVE Held'[w] = Held[w]
    <3>1. video'[w].img = video[w].img /\ content' = content
      BY <1>1, <1>2, <2>2
    <3> QED
      BY <3>1, HeldBy
  <2> QED
    BY <2>1, <2>2, HeldExtensional
<1> QED
  BY <1>1, <1>3, <1>5, <1>6 DEF Latest

LEMMA FreeFrees ==
  ASSUME IInv, NEW v \in Thread, Free(v)
  PROVE  Held' = [Held EXCEPT ![v] = None] /\ UNCHANGED Latest
<1>1. /\ video' = [video EXCEPT ![v].pc = "test", ![v].img = None]
      /\ UNCHANGED <<content, deq_idx>>
  BY DEF Free
<1>2. /\ video'[v].img = None
      /\ \A w \in Thread : w # v => video'[w].img = video[w].img
  BY <1>1 DEF IInv, TypeOK, VideoState
<1>3. Held'[v] = None
  BY <1>1, <1>2, HeldBy
<1>4. ASSUME NEW w \in Thread, w # v PROVE Held'[w] = Held[w]
  <2>1. video'[w].img = video[w].img /\ content' = content
    BY <1>1, <1>2, <1>4
  <2> QED
    BY <2>1, HeldBy
<1> QED
  BY <1>1, <1>3, <1>4, HeldExtensional DEF Latest

LEMMA OthersStutter ==
  ASSUME IInv, NEW v \in Thread,
         \/ Dequeue(v) \/ DequeueFails(v) \/ Cancelled(v) \/ EnqueuePrevious(v)
         \/ Check(v) \/ EnqueueNext(v) \/ StreamOn(v) \/ CreateCapture(v)
         \/ Mark(v) \/ Test(v) \/ RunDevice(v) \/ TryLock(v) \/ CopyImage(v)
  PROVE  UNCHANGED <<Latest, Held>>
<1>1. UNCHANGED <<content, deq_idx>>
  BY DEF Dequeue, DequeueFails, Cancelled, EnqueuePrevious, Check, EnqueueNext, StreamOn,
         CreateCapture, Mark, Test, RunDevice, TryLock, CopyImage
<1>2. \A pc : GoTo(v, pc) => \A w \in Thread : video'[w].img = video[w].img
  BY DEF GoTo, IInv, TypeOK, VideoState
<1>3. ASSUME video[v].pc \notin Holding, End(v)
      PROVE  \A w \in Thread : video'[w].img = video[w].img
  BY <1>3 DEF End, NoVideo, IInv, TypeOK, BuffersAtPcs
<1>4. CASE Dequeue(v) \/ DequeueFails(v) \/ Cancelled(v) \/ EnqueuePrevious(v)
  BY <1>4, SameImages DEF Dequeue, DequeueFails, Cancelled, EnqueuePrevious
<1>5. CASE \/ CreateCapture(v) \/ Mark(v)
           \/ RunDevice(v) \/ TryLock(v) \/ CopyImage(v)
  <2>1. \E pc : GoTo(v, pc)
    BY <1>5 DEF CreateCapture, Mark, RunDevice, TryLock, CopyImage
  <2> QED
    BY <1>1, <1>2, <2>1, SameImages
<1>6. CASE Check(v) \/ StreamOn(v) \/ Test(v)
  <2>1. video[v].pc \notin Holding /\ (End(v) \/ \E pc : GoTo(v, pc))
    BY <1>6 DEF Check, StreamOn, Test, Holding
  <2> QED
    BY <1>1, <1>2, <1>3, <2>1, SameImages
<1>7. CASE EnqueueNext(v)
  <2>1. video[v].pc \notin Holding
    BY <1>7 DEF EnqueueNext, Holding
  <2>2. ASSUME NEW b, video' = [video EXCEPT ![v].todo = @ \ {b}]
        PROVE  \A w \in Thread : video'[w].img = video[w].img
    BY <2>2 DEF IInv, TypeOK, VideoState
  <2>3. \/ GoTo(v, "stream") \/ End(v)
        \/ \E b : video' = [video EXCEPT ![v].todo = @ \ {b}]
    BY <1>7 DEF EnqueueNext
  <2> QED
    BY <1>1, <1>2, <1>3, <2>1, <2>2, <2>3, SameImages
<1> QED
  BY <1>4, <1>5, <1>6, <1>7

LEMMA MainStutters ==
  ASSUME IInv,
         \/ ListenerStarts \/ ListenerWakes \/ ListenerEnds
         \/ StartRequest \/ StopRequest \/ StreamOff \/ Cancel \/ Join
  PROVE  UNCHANGED <<Latest, Held>>
<1>1. UNCHANGED <<content, deq_idx>>
  BY DEF ListenerStarts, ListenerWakes, ListenerEnds, StartRequest, StopRequest, StreamOff,
         Cancel, Join
<1>2. \/ UNCHANGED video
      \/ \E v \in Thread : GoTo(v, "check")
  BY DEF ListenerStarts, ListenerWakes, ListenerEnds, StartRequest, StopRequest, StreamOff,
         Cancel, Join
<1>3. ASSUME NEW v \in Thread, GoTo(v, "check")
      PROVE  \A w \in Thread : video'[w].img = video[w].img
  BY <1>3 DEF GoTo, IInv, TypeOK, VideoState
<1> QED
  BY <1>1, <1>2, <1>3, SameImages

(* The video thread gets the image captured last, once and unchanged, for  *)
(* any buffers, threads and images (v4l2.c:52-125,335-373,410-430).        *)
THEOREM CameraImplements == WaitsForThreads => (Spec => ImplementsSource)
<1> SUFFICES ASSUME WaitsForThreads PROVE Spec => ImplementsSource
  OBVIOUS
<1>1. Init => Source!Init
  BY DEF Init, NoVideo, Source!Init
<1>2. IInv /\ [Next]_vars => [Source!Next]_Source!vars
  <2> SUFFICES ASSUME IInv, [Next]_vars
               PROVE  Source!Next \/ UNCHANGED <<Latest, Held>>
    BY DEF Source!vars, Latest, Held
  <2>1. ASSUME NEW v \in Thread, CaptureStep(v) \/ VideoStep(v)
        PROVE  Source!Next \/ UNCHANGED <<Latest, Held>>
    <3>1. CASE Swap(v)
      BY <3>1, SwapCaptures DEF Source!Next, Source!Capture, Latest, Held
    <3>2. CASE Reset(v)
      BY <3>2, ResetResets DEF Source!Next, Source!Reset, Latest, Held
    <3>3. CASE Get(v)
      BY <3>3, GetTakes DEF Source!Next, Source!Take, Latest, Held
    <3>4. CASE Free(v)
      BY <3>4, FreeFrees DEF Source!Next, Source!Free, Latest, Held
    <3> QED
      BY <2>1, <3>1, <3>2, <3>3, <3>4, OthersStutter DEF CaptureStep, VideoStep
  <2>2. CASE UNCHANGED vars
    BY <2>2 DEF Latest, Held
  <2> QED
    BY <2>1, <2>2, FillStutters, MainStutters DEF Next
<1>3. Spec => []IInv
  BY Invariance
<1> QED
  BY <1>1, <1>2, <1>3, PTL DEF Spec, ImplementsSource, Source!Spec

-----------------------------------------------------------------------------
(* The mutex of the listener.                                              *)

MutexInv ==
  /\ listener = "func" <=> img_mutex = "listener"
  /\ \A v \in Thread : video[v].pc = "copy" <=> img_mutex = v

(* Steps outside the mutex.                                                *)
LEMMA MutexKept ==
  ASSUME IInv, MutexInv, UNCHANGED <<listener, img_mutex>>,
         NEW v \in Thread, NEW pc, pc # "copy", video[v].pc # "copy",
         GoTo(v, pc) \/ End(v)
  PROVE  MutexInv'
<1>1. /\ video'[v].pc # "copy"
      /\ \A w \in Thread : w # v => video'[w] = video[w]
  BY DEF GoTo, End, NoVideo, IInv, TypeOK, VideoState
<1> QED
  BY <1>1 DEF MutexInv

LEMMA MutexNext == IInv /\ MutexInv /\ [Next]_vars => MutexInv'
<1> SUFFICES ASSUME IInv, MutexInv, [Next]_vars PROVE MutexInv'
  OBVIOUS
<1>1. ASSUME UNCHANGED <<video, listener, img_mutex>> PROVE MutexInv'
  BY <1>1 DEF MutexInv
<1>2. ASSUME NEW v \in Thread, CaptureStep(v) PROVE MutexInv'
  BY <1>1, <1>2 DEF CaptureStep, Dequeue, DequeueFails, Cancelled, Swap, EnqueuePrevious
<1>3. ASSUME NEW v \in Thread, VideoStep(v) PROVE MutexInv'
  <2>1. CASE \/ Check(v) \/ StreamOn(v) \/ CreateCapture(v) \/ Mark(v) \/ Test(v)
             \/ RunDevice(v)
    <3>1. /\ UNCHANGED <<listener, img_mutex>>
          /\ video[v].pc # "copy"
          /\ End(v) \/ \E pc : pc # "copy" /\ GoTo(v, pc)
      BY <2>1 DEF Check, StreamOn, CreateCapture, Mark, Test, RunDevice
    <3> QED
      BY <3>1, MutexKept
  <2>2. CASE Reset(v) \/ EnqueueNext(v) \/ Get(v) \/ Free(v)
    <3>1. /\ UNCHANGED <<listener, img_mutex>>
          /\ video[v].pc # "copy" /\ video'[v].pc # "copy"
          /\ \A w \in Thread : w # v => video'[w] = video[w]
      BY <2>2 DEF Reset, EnqueueNext, Get, Free, GoTo, End, NoVideo, IInv, TypeOK, VideoState
    <3> QED
      BY <3>1 DEF MutexInv
  <2>3. CASE TryLock(v)
    <3>1. CASE img_mutex = None
      <4>1. /\ img_mutex' = v /\ listener' = listener
            /\ video'[v].pc = "copy"
            /\ \A w \in Thread : w # v => video'[w] = video[w]
        BY <2>3, <3>1 DEF TryLock, GoTo, IInv, TypeOK, VideoState
      <4> QED
        BY <3>1, <4>1, NoneIsNone, ListenerIsNoVideoThread DEF MutexInv
    <3>2. CASE img_mutex # None
      BY <2>3, <3>2, MutexKept DEF TryLock
    <3> QED
      BY <3>1, <3>2
  <2>4. CASE CopyImage(v)
    <3>1. /\ video[v].pc = "copy" /\ img_mutex' = None /\ listener' = listener
          /\ video'[v].pc = "free"
          /\ \A w \in Thread : w # v => video'[w] = video[w]
      BY <2>4 DEF CopyImage, GoTo, IInv, TypeOK, VideoState
    <3> QED
      BY <3>1, NoneIsNone, ListenerIsNoVideoThread DEF MutexInv
  <2> QED
    BY <1>3, <2>1, <2>2, <2>3, <2>4 DEF VideoStep
<1>4. CASE ListenerStarts \/ ListenerWakes \/ ListenerEnds
  <2>1. /\ UNCHANGED video
        /\ \/ UNCHANGED <<listener, img_mutex>>
           \/ listener # "func" /\ listener' # "func" /\ img_mutex' = img_mutex
           \/ img_mutex = None /\ listener' = "func" /\ img_mutex' = "listener"
           \/ listener = "func" /\ listener' = "wait" /\ img_mutex' = None
    BY <1>4 DEF ListenerStarts, ListenerWakes, ListenerEnds
  <2> QED
    BY <2>1, NoneIsNone, ListenerIsNoVideoThread DEF MutexInv
<1>5. CASE StartRequest
  <2>1. PICK v \in Thread : video[v].pc = "none" /\ GoTo(v, "check")
    BY <1>5 DEF StartRequest
  <2>2. UNCHANGED <<listener, img_mutex>>
    BY <1>5 DEF StartRequest
  <2> QED
    BY <2>1, <2>2, MutexKept
<1>6. CASE Fill \/ StopRequest \/ StreamOff \/ Cancel \/ Join \/ UNCHANGED vars
  BY <1>1, <1>6 DEF Fill, StopRequest, StreamOff, Cancel, Join
<1> QED
  BY <1>2, <1>3, <1>4, <1>5, <1>6 DEF Next

(* The listener's copy is not replaced while it is worked on, for any      *)
(* threads and images (cv.c:113-145,161-171).                              *)
THEOREM CameraCopy == WaitsForThreads => (Spec => CopyIsStable)
<1> SUFFICES ASSUME WaitsForThreads PROVE Spec => CopyIsStable
  OBVIOUS
<1>1. Init => MutexInv
  BY NoneIsNone, ListenerIsNoVideoThread DEF Init, MutexInv, NoVideo
<1>2. MutexInv /\ [Next]_vars => [listener = "func" => img_copy' = img_copy]_vars
  <2> SUFFICES ASSUME MutexInv, Next, listener = "func" PROVE img_copy' = img_copy
    OBVIOUS
  <2>1. \A v \in Thread : ~CopyImage(v)
    BY ListenerIsNoVideoThread DEF MutexInv, CopyImage
  <2> QED
    BY <2>1 DEF Next, CaptureStep, VideoStep, Fill, Dequeue, DequeueFails, Cancelled, Swap,
           EnqueuePrevious, Check, Reset, EnqueueNext, StreamOn, CreateCapture, Mark, Test,
           Get, RunDevice, TryLock, Free, ListenerStarts, ListenerWakes, ListenerEnds,
           StartRequest, StopRequest, StreamOff, Cancel, Join
<1>3. Spec => []IInv
  BY Invariance
<1> QED
  BY <1>1, <1>2, <1>3, MutexNext, PTL DEF Spec, CopyIsStable
=============================================================================
