---------------------------- MODULE ImageSource -----------------------------
(***************************************************************************)
(* What the capture library promises a vision thread: it is handed the     *)
(* image captured last, each image at most once, and the image it holds    *)
(* does not change until it gives it back.                                 *)
(***************************************************************************)
CONSTANTS
  Image,
  Thread,        (* threads that ask for images                            *)
  None           (* no image                                               *)

VARIABLES
  latest,        (* the image captured last, None once it has been taken   *)
  held           (* the image each thread works on                         *)

vars == <<latest, held>>

Init == latest = None /\ held = [t \in Thread |-> None]

Capture(image) == latest' = image /\ UNCHANGED held

Take(t) ==
  /\ latest # None /\ held[t] = None
  /\ held' = [held EXCEPT ![t] = latest]
  /\ latest' = None

Free(t) == held' = [held EXCEPT ![t] = None] /\ UNCHANGED latest

(* A new session starts without an image.                                  *)
Reset == latest' = None /\ UNCHANGED held

Next ==
  \/ \E image \in Image : Capture(image)
  \/ \E t \in Thread : Take(t) \/ Free(t)
  \/ Reset

Spec == Init /\ [][Next]_vars
=============================================================================
