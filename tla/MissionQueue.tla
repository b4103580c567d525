---------------------------- MODULE MissionQueue ----------------------------
(***************************************************************************)
(* What the mission list promises: a queue of at most Capacity elements    *)
(* with distinct ids.  The head is executed; an element joins at the end   *)
(* or before the head while there is room, or replaces the head, all the   *)
(* others, or everything; the head leaves when it is over or skipped.      *)
(***************************************************************************)
EXTENDS Integers, Sequences

CONSTANTS
  Capacity,
  Elements       (* records with a field index, their id                   *)

VARIABLE queue

Distinct(q) == \A j, k \in 1..Len(q) : q[j].index = q[k].index => j = k

(* The queues the list may hold.                                           *)
Queues == {q \in Seq(Elements) : Len(q) <= Capacity /\ Distinct(q)}

Fresh(element) == \A k \in 1..Len(queue) : queue[k].index # element.index

Init == queue = << >>

Enqueue(element) ==
  /\ Len(queue) < Capacity
  /\ queue' = Append(queue, element)

Push(element) ==
  /\ Len(queue) < Capacity
  /\ queue' = <<element>> \o queue

ReplaceHead(element) ==
  /\ queue # << >>
  /\ queue' = <<element>> \o Tail(queue)

ReplaceRest(element) ==
  /\ queue # << >>
  /\ queue' = <<Head(queue), element>>

Restart(element) == queue' = <<element>>

Dequeue == queue # << >> /\ queue' = Tail(queue)

Clear == queue' = << >>

Next ==
  \/ \E element \in Elements :
       /\ Fresh(element)
       /\ \/ Enqueue(element) \/ Push(element) \/ Restart(element)
          \/ ReplaceHead(element) \/ ReplaceRest(element)
  \/ Dequeue
  \/ Clear

Spec == Init /\ [][Next]_queue
=============================================================================
