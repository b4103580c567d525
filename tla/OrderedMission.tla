--------------------------- MODULE OrderedMission ---------------------------
(***************************************************************************)
(* The mission list while the ground station keeps a discipline: it sends  *)
(* no GOTO_MISSION, and ReplaceCurrent and ReplaceNexts only while an      *)
(* element is current.  The ring then is the queue of module MissionQueue. *)
(* Once it has done otherwise it is not: ReplaceCurrent of an empty list   *)
(* writes a slot that is not in the list, and a jump may list finished     *)
(* elements again.                                                         *)
(***************************************************************************)
EXTENDS Mission, Sequences

VARIABLE disciplined     (* history: the discipline has been kept so far   *)

Ordered ==
  \/ \E mode \in Modes, element \in Element :
       /\ mode \in {"ReplaceCurrent", "ReplaceNexts"} => ~Empty
       /\ Insert(mode, element)
  \/ \E id \in Ids : Update(id)
  \/ NextMission \/ EndMission
  \/ RunElement \/ RunWait
  \/ EnterBlock \/ LeaveBlock

Undisciplined ==
  \/ \E slot \in Slots : Goto(slot)
  \/ /\ Empty
     /\ \E mode \in {"ReplaceCurrent", "ReplaceNexts"}, element \in Element :
          Insert(mode, element)

OrderedNext ==
  \/ Ordered /\ UNCHANGED disciplined
  \/ Undisciplined /\ disciplined' = FALSE

orderedVars == <<vars, disciplined>>

OrderedInit == Init /\ disciplined = TRUE

OrderedSpec == OrderedInit /\ [][OrderedNext]_orderedVars
FairSpec    == OrderedSpec /\ Fairness

Length == IF current_idx <= insert_idx THEN insert_idx - current_idx
                                       ELSE insert_idx - current_idx + NB

SlotAt(k) == IF current_idx + k <= NB THEN current_idx + k - 1
                                      ELSE current_idx + k - 1 - NB

List == [k \in 1..Length |-> elements[SlotAt(k)]]

Queue == INSTANCE MissionQueue
           WITH Capacity <- NB - 1, Elements <- Element,
                queue <- IF disciplined THEN List ELSE << >>

(* While the discipline is kept, every message and every step of           *)
(* mission_run acts on the list as on the queue: no insertion is lost,     *)
(* reordered or doubled at the ring's wrap                                 *)
(* (mission_common.c:82-132,446-483, mission_rotorcraft_nav.c:269-277).    *)
ImplementsQueue == Queue!Spec

(* While it is kept, the ids in the list are distinct, so that             *)
(* MISSION_STATUS, UPDATE and the check of mission_insert speak of one     *)
(* element each                                                            *)
(* (mission_common.c:86-91).                                               *)
UniqueIds ==
  disciplined => \A i, j \in Live : elements[i].index = elements[j].index => i = j
=============================================================================
