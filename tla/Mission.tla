------------------------------ MODULE Mission ------------------------------
(***************************************************************************)
(* The mission list of modules/mission/mission_common.c and its execution  *)
(* by mission_run of mission_rotorcraft_nav.c.  The list is a ring of      *)
(* slots between current_idx and insert_idx.  Datalink messages insert     *)
(* elements, update them or move the indices; a flight-plan block calls    *)
(* mission_run at every navigation step, which executes the current        *)
(* element, or waits over the last position when the list is empty, until  *)
(* the timeout ends the mission.                                           *)
(*                                                                         *)
(* Data: an element is its id and whether it is a custom pattern (driven   *)
(* by a callback) or a built-in one; geometry and durations only decide    *)
(* when an element ends, which is left open.  Times are counted in         *)
(* navigation steps.                                                       *)
(***************************************************************************)
EXTENDS Integers

CONSTANTS
  NB,            (* MISSION_ELEMENT_NB                                     *)
  Ids,           (* the ids a message may carry                            *)
  WaitTimeout,   (* MISSION_WAIT_TIMEOUT                                   *)
  MaxTime        (* bound of the model: element_time is told apart up to it *)

ASSUME MissionAssumption ==
  /\ NB \in Nat /\ NB >= 3
  /\ Ids \subseteq Nat
  /\ WaitTimeout \in Nat \ {0}
  /\ MaxTime \in Nat \ {0}

VARIABLES
  elements, insert_idx, current_idx, element_time,    (* struct mission    *)
  mission_wait_time,      (* 0 unless mission_wait_started                 *)
  running,       (* the flight plan is in the block that calls mission_run *)
  called         (* history, per slot: the flag its element was first seen *)
                 (* with, MissionInit once mission_run has executed it     *)

queue == <<elements, insert_idx, current_idx, called>>
vars  == <<queue, element_time, mission_wait_time, running>>

Slots   == 0..(NB - 1)
Types   == {"nav", "custom"}
Element == [index : Ids, type : Types]
Blank   == [index |-> 0, type |-> "none"]       (* struct mission = { 0 }  *)
Flags   == {"none", "MissionInit", "MissionUpdate"}
Modes   == {"Append", "Prepend", "ReplaceCurrent", "ReplaceAll", "ReplaceNexts"}

After(i, n) == (i + n) % NB
(* Faulty variant: the wrap at slot 0 forgotten.                           *)
BeforeUnwrapped(i) == i - 1
Before(i)   == IF i = 0 THEN NB - 1 ELSE i - 1
Empty == current_idx = insert_idx

(* The slots from current_idx up to insert_idx.                            *)
Live == {i \in Slots : IF current_idx <= insert_idx
                         THEN current_idx <= i /\ i < insert_idx
                         ELSE current_idx <= i \/ i < insert_idx}

Shorter(a, b) == IF a < b THEN a ELSE b

-----------------------------------------------------------------------------
Init ==
  /\ elements = [i \in Slots |-> Blank]
  /\ insert_idx = 0 /\ current_idx = 0 /\ element_time = 0
  /\ mission_wait_time = 0
  /\ running = FALSE
  /\ called = [i \in Slots |-> "none"]

(* Faulty variant: only the current element is compared.                   *)
IsCurrent(id) == ~Empty /\ elements[current_idx].index = id

(* mission_get_from_index: the first slot from current_idx with that id.   *)
InList(id) == \E i \in Live : elements[i].index = id
Place(i)   == IF i >= current_idx THEN i - current_idx ELSE i - current_idx + NB
SlotOf(id) == CHOOSE i \in Live :
                /\ elements[i].index = id
                /\ \A j \in Live : elements[j].index = id => Place(i) <= Place(j)

Put(slot, element) ==
  /\ elements' = [elements EXCEPT ![slot] = element]
  /\ called' = [called EXCEPT ![slot] = "none"]

ResetTimer == element_time' = 0

AppendLast(element) ==
  /\ After(insert_idx, 1) # current_idx
  /\ Put(insert_idx, element)
  /\ insert_idx' = After(insert_idx, 1)
  /\ UNCHANGED <<current_idx, element_time>>

(* Faulty variant: the element is written before the index has moved.      *)
PrependInPlace(element) ==
  /\ Before(current_idx) # insert_idx
  /\ Put(current_idx, element)
  /\ current_idx' = Before(current_idx)
  /\ ResetTimer
  /\ UNCHANGED insert_idx

Prepend(element) ==
  /\ Before(current_idx) # insert_idx
  /\ Put(Before(current_idx), element)
  /\ current_idx' = Before(current_idx)
  /\ ResetTimer
  /\ UNCHANGED insert_idx

ReplaceCurrent(element) ==
  /\ Put(current_idx, element)
  /\ ResetTimer
  /\ UNCHANGED <<insert_idx, current_idx>>

ReplaceAll(element) ==
  /\ Put(0, element)
  /\ current_idx' = 0 /\ insert_idx' = 1
  /\ ResetTimer

ReplaceNexts(element) ==
  /\ Put(After(current_idx, 1), element)
  /\ insert_idx' = After(current_idx, 2)
  /\ UNCHANGED <<current_idx, element_time>>

(* mission_insert, when it returns true.                                   *)
Insert(mode, element) ==
  /\ ~InList(element.index)
  /\ \/ mode = "Append" /\ AppendLast(element)
     \/ mode = "Prepend" /\ Prepend(element)
     \/ mode = "ReplaceCurrent" /\ ReplaceCurrent(element)
     \/ mode = "ReplaceAll" /\ ReplaceAll(element)
     \/ mode = "ReplaceNexts" /\ ReplaceNexts(element)
  /\ UNCHANGED <<mission_wait_time, running>>

(* mission_parse_UPDATE: a custom element is called with MissionUpdate, a  *)
(* built-in one only gets its new duration.                                *)
Update(id) ==
  /\ InList(id)
  /\ LET slot == SlotOf(id)
     IN  called' = IF elements[slot].type = "custom" /\ called[slot] = "none"
                     THEN [called EXCEPT ![slot] = "MissionUpdate"]
                     ELSE called
  /\ UNCHANGED <<elements, insert_idx, current_idx, element_time, mission_wait_time, running>>

(* mission_parse_GOTO_MISSION: any slot number is taken as it comes.       *)
Goto(slot) ==
  /\ slot < NB
  /\ current_idx' = slot
  /\ ResetTimer
  /\ UNCHANGED <<elements, insert_idx, called, mission_wait_time, running>>

(* Faulty variant: the timer of the skipped element goes on.               *)
NextMissionKeepsTimer ==
  /\ ~Empty
  /\ current_idx' = After(current_idx, 1)
  /\ UNCHANGED <<elements, element_time, insert_idx, called, mission_wait_time, running>>

(* mission_parse_NEXT_MISSION                                              *)
NextMission ==
  /\ ~Empty
  /\ current_idx' = After(current_idx, 1)
  /\ ResetTimer
  /\ UNCHANGED <<elements, insert_idx, called, mission_wait_time, running>>

(* mission_parse_END_MISSION                                               *)
EndMission ==
  /\ current_idx' = insert_idx
  /\ ResetTimer
  /\ UNCHANGED <<elements, insert_idx, called, mission_wait_time, running>>

-----------------------------------------------------------------------------
(* mission_run with a current element: one step of it, after which it      *)
(* either goes on or is over.  An element that was never written has a     *)
(* type of no pattern and is over at once.                                 *)
Advance(over) ==
  IF over THEN element_time' = 0 /\ current_idx' = After(current_idx, 1)
          ELSE element_time' = Shorter(element_time + 1, MaxTime) /\ UNCHANGED current_idx

RunElement ==
  /\ running /\ ~Empty
  /\ mission_wait_time' = 0
  /\ called' = [called EXCEPT ![current_idx] = "MissionInit"]
  /\ \E over \in BOOLEAN :
       /\ elements[current_idx].type \notin Types => over
       /\ Advance(over)
  /\ UNCHANGED <<elements, insert_idx, running>>

(* A custom element is called with MissionInit on its first step, which    *)
(* mission_run recognises by the timer.                                    *)
CalledWithInit == element_time < 1

(* mission_run with an empty list: mission_wait_pattern.  The block is     *)
(* left when it returns false.                                             *)
(* Faulty variant: every waiting step starts the wait.                     *)
WaitStartsAgain == 0

WaitedSoFar == mission_wait_time

RunWait ==
  /\ running /\ Empty
  /\ mission_wait_time' = Shorter(WaitedSoFar + 1, WaitTimeout)
  /\ running' = (WaitedSoFar + 1 < WaitTimeout)
  /\ UNCHANGED <<queue, element_time>>

(* The flight plan enters and leaves the block.                            *)
EnterBlock ==
  /\ ~running /\ running' = TRUE
  /\ UNCHANGED <<queue, element_time, mission_wait_time>>

LeaveBlock ==
  /\ running /\ running' = FALSE
  /\ UNCHANGED <<queue, element_time, mission_wait_time>>

-----------------------------------------------------------------------------
Next ==
  \/ \E mode \in Modes, element \in Element : Insert(mode, element)
  \/ \E id \in Ids : Update(id)
  \/ \E slot \in Slots : Goto(slot)
  \/ NextMission \/ EndMission
  \/ RunElement \/ RunWait
  \/ EnterBlock \/ LeaveBlock

Spec == Init /\ [][Next]_vars

(* The flight plan calls mission_run at every navigation step.             *)
Fairness == WF_vars(RunWait)

-----------------------------------------------------------------------------
TypeOK ==
  /\ elements \in [Slots -> Element \cup {Blank}]
  /\ insert_idx \in Slots /\ current_idx \in Slots
  /\ element_time \in 0..MaxTime
  /\ mission_wait_time \in 0..WaitTimeout
  /\ running \in BOOLEAN
  /\ called \in [Slots -> Flags]

(* A timer that runs belongs to the element in the current slot: after     *)
(* whatever sequence of insertions, jumps and completions, an element put  *)
(* there since is seen at time 0, so that a custom pattern always gets its *)
(* MissionInit call before a MissionRun                                    *)
(* (mission_common.c:94-129,446-483, mission_rotorcraft_nav.c:262-277).    *)
TimerBelongsToCurrent == ~CalledWithInit => ~Empty /\ called[current_idx] = "MissionInit"

(* An empty list does not keep the flight plan in the mission block for    *)
(* ever: the wait ends, although messages empty and fill the list and the  *)
(* block is left and entered in between (mission_rotorcraft_nav.c:222-250).*)
EmptyMissionEnds == ~<>[](running /\ Empty)
=============================================================================
