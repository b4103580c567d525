--------------------------- MODULE MissionProofs ---------------------------
(***************************************************************************)
(* For lists of every size and any set of ids: whatever the messages, the  *)
(* indices stay in the ring and the timer belongs to the current element;  *)
(* under the discipline of OrderedMission the ids in the list are distinct *)
(* and the ring implements the queue of MissionQueue.                      *)
(***************************************************************************)
EXTENDS OrderedMission, SequenceTheorems, TLAPS

-----------------------------------------------------------------------------
(* The index arithmetic.                                                   *)
LEMMA AfterOne ==
  ASSUME NEW i \in Slots
  PROVE  After(i, 1) = IF i = NB - 1 THEN 0 ELSE i + 1
  BY MissionAssumption, SMT DEF After, Slots

LEMMA AfterTwo ==
  ASSUME NEW i \in Slots
  PROVE  After(i, 2) = IF i >= NB - 2 THEN i + 2 - NB ELSE i + 2
  BY MissionAssumption, SMT DEF After, Slots

(* One and two slots further are two other slots.                          *)
LEMMA Neighbours ==
  ASSUME NEW i \in Slots
  PROVE  /\ After(i, 1) \in Slots /\ After(i, 2) \in Slots /\ Before(i) \in Slots
         /\ After(i, 1) # i /\ After(i, 2) # i /\ Before(i) # i
  BY AfterOne, AfterTwo, MissionAssumption DEF Slots, Before

-----------------------------------------------------------------------------
MissionInv == TypeOK /\ TimerBelongsToCurrent

LEMMA ZeroOne == 0 \in Slots /\ 1 \in Slots /\ 0 \in 0..MaxTime /\ 0 \in 0..WaitTimeout
  BY MissionAssumption DEF Slots

LEMMA MissionInit == Init => MissionInv
  <1> SUFFICES ASSUME Init PROVE TypeOK /\ TimerBelongsToCurrent
    BY DEF MissionInv
  <1>1. running \in BOOLEAN
    BY DEF Init
  <1>2. elements \in [Slots -> Element \cup {Blank}] /\ called \in [Slots -> Flags]
    BY DEF Init, Flags
  <1>3. /\ insert_idx \in Slots /\ current_idx \in Slots
        /\ element_time \in 0..MaxTime
        /\ mission_wait_time \in 0..WaitTimeout
    BY ZeroOne DEF Init
  <1>4. TimerBelongsToCurrent
    BY DEF Init, TimerBelongsToCurrent, CalledWithInit
  <1> QED
    BY <1>1, <1>2, <1>3, <1>4 DEF TypeOK

LEMMA InsertPreserves ==
  ASSUME MissionInv, NEW mode \in Modes, NEW element \in Element, Insert(mode, element)
  PROVE  MissionInv'
  <1> USE MissionAssumption, Neighbours
  <1>1. /\ current_idx \in Slots /\ insert_idx \in Slots /\ 0 \in Slots /\ 1 \in Slots
        /\ element_time \in 0..MaxTime /\ 0 \in 0..MaxTime
        /\ elements \in [Slots -> Element \cup {Blank}] /\ called \in [Slots -> Flags]
    BY ZeroOne DEF MissionInv, TypeOK
  <1>2. /\ element_time >= 1 => current_idx # insert_idx /\ called[current_idx] = "MissionInit"
    BY <1>1 DEF MissionInv, TimerBelongsToCurrent, CalledWithInit, Empty
  <1>3. ASSUME NEW slot \in Slots, Put(slot, element)
        PROVE  /\ elements' \in [Slots -> Element \cup {Blank}]
               /\ called' \in [Slots -> Flags]
               /\ \A i \in Slots : i # slot => called'[i] = called[i]
    BY <1>1, <1>3 DEF Put, Flags
  <1>4. UNCHANGED <<mission_wait_time, running>>
    BY DEF Insert
  <1>5. SUFFICES /\ elements' \in [Slots -> Element \cup {Blank}]
                 /\ called' \in [Slots -> Flags]
                 /\ current_idx' \in Slots /\ insert_idx' \in Slots
                 /\ element_time' \in 0..MaxTime
                 /\ element_time' >= 1 =>
                      current_idx' # insert_idx' /\ called'[current_idx'] = "MissionInit"
    BY <1>4, <1>5 DEF MissionInv, TypeOK, TimerBelongsToCurrent, CalledWithInit, Empty
  <1>6. CASE mode = "Append" /\ AppendLast(element)
    <2>1. Put(insert_idx, element) /\ insert_idx' = After(insert_idx, 1)
          /\ After(insert_idx, 1) # current_idx
          /\ current_idx' = current_idx /\ element_time' = element_time
      BY <1>6 DEF AppendLast
    <2> QED
      BY <1>1, <1>2, <1>3, <2>1
  <1>7. CASE mode = "Prepend" /\ Prepend(element)
    <2>1. Put(Before(current_idx), element) /\ insert_idx' = insert_idx
          /\ current_idx' = Before(current_idx) /\ element_time' = 0
      BY <1>7 DEF Prepend, ResetTimer
    <2> QED
      BY <1>1, <1>3, <2>1
  <1>8. CASE mode = "ReplaceCurrent" /\ ReplaceCurrent(element)
    <2>1. Put(current_idx, element) /\ insert_idx' = insert_idx
          /\ current_idx' = current_idx /\ element_time' = 0
      BY <1>8 DEF ReplaceCurrent, ResetTimer
    <2> QED
      BY <1>1, <1>3, <2>1
  <1>9. CASE mode = "ReplaceAll" /\ ReplaceAll(element)
    <2>1. Put(0, element) /\ insert_idx' = 1 /\ current_idx' = 0 /\ element_time' = 0
      BY <1>9 DEF ReplaceAll, ResetTimer
    <2> QED
      BY <1>1, <1>3, <2>1
  <1>10. CASE mode = "ReplaceNexts" /\ ReplaceNexts(element)
    <2>1. Put(After(current_idx, 1), element) /\ insert_idx' = After(current_idx, 2)
          /\ current_idx' = current_idx /\ element_time' = element_time
      BY <1>10 DEF ReplaceNexts
    <2> QED
      BY <1>1, <1>2, <1>3, <2>1
  <1> QED
    BY <1>6, <1>7, <1>8, <1>9, <1>10 DEF Insert, Modes

LEMMA MissionStep == MissionInv /\ [Next]_vars => MissionInv'
  <1> SUFFICES ASSUME MissionInv, [Next]_vars PROVE MissionInv'
    OBVIOUS
  <1> USE MissionAssumption, Neighbours
  <1> USE DEF MissionInv, TypeOK, TimerBelongsToCurrent, CalledWithInit, Empty
  <1>1. CASE \E mode \in Modes, element \in Element : Insert(mode, element)
    BY <1>1, InsertPreserves
  <1>2. CASE \E id \in Ids : Update(id)
    <2> PICK id \in Ids : Update(id)
      BY <1>2
    <2>1. UNCHANGED <<elements, insert_idx, current_idx, element_time, mission_wait_time, running>>
      BY DEF Update
    <2>2. called' \in [Slots -> Flags]
      BY DEF Update, Flags
    <2>3. \A i \in Slots : called[i] = "MissionInit" => called'[i] = "MissionInit"
      BY DEF Update
    <2> QED
      BY <2>1, <2>2, <2>3
  <1>3. CASE \E slot \in Slots : Goto(slot)
    BY <1>3 DEF Goto, ResetTimer
  <1>4. CASE NextMission
    BY <1>4 DEF NextMission, ResetTimer
  <1>5. CASE EndMission
    BY <1>5 DEF EndMission, ResetTimer
  <1>6. CASE RunElement
    <2>1. /\ called' \in [Slots -> Flags]
          /\ called'[current_idx] = "MissionInit"
          /\ mission_wait_time' = 0
          /\ UNCHANGED <<elements, insert_idx, running>>
      BY <1>6 DEF RunElement, Flags
    <2>2. \/ element_time' = 0 /\ current_idx' = After(current_idx, 1)
          \/ element_time' = Shorter(element_time + 1, MaxTime) /\ current_idx' = current_idx
      BY <1>6, Zenon DEF RunElement, Advance
    <2>3. ~Empty
      BY <1>6 DEF RunElement
    <2>4. /\ element_time' \in 0..MaxTime /\ current_idx' \in Slots
          /\ element_time' >= 1 => current_idx' = current_idx
      BY <2>2, ZeroOne DEF Shorter
    <2>5. running' \in BOOLEAN
      BY <2>1
    <2>6. mission_wait_time' \in 0..WaitTimeout
      BY <2>1, ZeroOne
    <2>7. TimerBelongsToCurrent'
      BY <2>1, <2>3, <2>4
    <2> QED
      BY <2>1, <2>4, <2>5, <2>6, <2>7
  <1>7. CASE RunWait
    <2>1. UNCHANGED <<queue, element_time>>
      BY <1>7 DEF RunWait
    <2>2. running' \in BOOLEAN /\ mission_wait_time' \in 0..WaitTimeout
      BY <1>7 DEF RunWait, WaitedSoFar, Shorter
    <2> QED
      BY <2>1, <2>2 DEF queue
  <1>8. CASE EnterBlock
    BY <1>8 DEF EnterBlock, queue
  <1>9. CASE LeaveBlock
    BY <1>9 DEF LeaveBlock, queue
  <1>10. CASE UNCHANGED vars
    BY <1>10 DEF vars, queue
  <1> QED
    BY <1>1, <1>2, <1>3, <1>4, <1>5, <1>6, <1>7, <1>8, <1>9, <1>10 DEF Next

(* The indices stay in the ring under any sequence of messages.            *)
THEOREM MissionTyping == Spec => []TypeOK
  <1>1. MissionInv => TypeOK
    BY DEF MissionInv
  <1> QED
    BY MissionInit, MissionStep, <1>1, PTL DEF Spec

(* A running timer belongs to the element in the current slot.             *)
THEOREM MissionTimer == Spec => []TimerBelongsToCurrent
  <1>1. MissionInv => TimerBelongsToCurrent
    BY DEF MissionInv
  <1> QED
    BY MissionInit, MissionStep, <1>1, PTL DEF Spec

-----------------------------------------------------------------------------
(* What the discipline keeps.                                              *)
Unique == \A i, j \in Live : elements[i].index = elements[j].index => i = j

OrderedInv == MissionInv /\ disciplined \in BOOLEAN /\ UniqueIds

(* Under the discipline a step adds at most the slot it writes to the list. *)
AddsOnly(slot) == Live' \subseteq Live \cup {slot}

LEMMA OrderedIsMission == Ordered \/ Undisciplined => Next
  BY DEF Ordered, Undisciplined, Next, Modes

LEMMA ShrinkKeepsUnique ==
  ASSUME Unique, UNCHANGED elements, Live' \subseteq Live
  PROVE  Unique'
  BY DEF Unique

LEMMA PutKeepsUnique ==
  ASSUME MissionInv, Unique, NEW element \in Element, ~InList(element.index),
         NEW slot \in Slots, Put(slot, element), AddsOnly(slot)
  PROVE  Unique'
  <1>1. elements' = [elements EXCEPT ![slot] = element] /\ elements \in [Slots -> Element \cup {Blank}]
    BY DEF Put, MissionInv, TypeOK
  <1>2. Live \subseteq Slots
    BY DEF Live
  <1>3. \A i \in Live : elements[i].index # element.index
    BY DEF InList
  <1>4. \A i \in Live' : i = slot \/ i \in Live
    BY DEF AddsOnly
  <1>5. elements'[slot] = element /\ \A i \in Live : i # slot => elements'[i] = elements[i]
    BY <1>1, <1>2
  <1>6. \A i, j \in Live' : elements'[i].index = elements'[j].index => i = j
    BY <1>3, <1>4, <1>5 DEF Unique
  <1> QED
    BY <1>6 DEF Unique

(* Moving current_idx one slot on takes that slot out of the list.         *)
LEMMA AdvanceShrinks ==
  ASSUME MissionInv, ~Empty, current_idx' = After(current_idx, 1), insert_idx' = insert_idx
  PROVE  Live' \subseteq Live
  BY AfterOne, MissionAssumption DEF MissionInv, TypeOK, Empty, Live, Slots

LEMMA InsertAdds ==
  ASSUME MissionInv, NEW mode \in Modes, NEW element \in Element, Insert(mode, element),
         mode \in {"ReplaceCurrent", "ReplaceNexts"} => ~Empty
  PROVE  \E slot \in Slots : Put(slot, element) /\ AddsOnly(slot)
  <1>1. current_idx \in Slots /\ insert_idx \in Slots
    BY DEF MissionInv, TypeOK
  <1>2. CASE AppendLast(element)
    <2>1. Put(insert_idx, element) /\ insert_idx' = After(insert_idx, 1)
          /\ After(insert_idx, 1) # current_idx /\ current_idx' = current_idx
      BY <1>2 DEF AppendLast
    <2>2. AddsOnly(insert_idx)
      BY <1>1, <2>1, AfterOne, MissionAssumption DEF AddsOnly, Live, Slots
    <2> QED
      BY <1>1, <2>1, <2>2
  <1>3. CASE Prepend(element)
    <2>1. Put(Before(current_idx), element) /\ current_idx' = Before(current_idx)
          /\ Before(current_idx) # insert_idx /\ insert_idx' = insert_idx
      BY <1>3 DEF Prepend
    <2>2. AddsOnly(Before(current_idx))
      BY <1>1, <2>1, MissionAssumption DEF AddsOnly, Live, Slots, Before
    <2> QED
      BY <1>1, <2>1, <2>2, Neighbours
  <1>4. CASE ReplaceCurrent(element)
    BY <1>1, <1>4 DEF ReplaceCurrent, AddsOnly, Live
  <1>5. CASE ReplaceAll(element)
    <2>1. Put(0, element) /\ current_idx' = 0 /\ insert_idx' = 1
      BY <1>5 DEF ReplaceAll
    <2>2. AddsOnly(0)
      BY <2>1, MissionAssumption DEF AddsOnly, Live, Slots
    <2> QED
      BY <2>1, <2>2, ZeroOne
  <1>6. CASE mode = "ReplaceNexts" /\ ReplaceNexts(element)
    <2>1. Put(After(current_idx, 1), element) /\ current_idx' = current_idx
          /\ insert_idx' = After(current_idx, 2) /\ current_idx # insert_idx
      BY <1>6 DEF ReplaceNexts, Empty
    <2>2. AddsOnly(After(current_idx, 1))
      BY <1>1, <2>1, AfterOne, AfterTwo, MissionAssumption DEF AddsOnly, Live, Slots
    <2> QED
      BY <1>1, <2>1, <2>2, Neighbours
  <1> QED
    BY <1>2, <1>3, <1>4, <1>5, <1>6 DEF Insert

LEMMA UniqueStep ==
  ASSUME MissionInv, MissionInv', Unique, Ordered \/ UNCHANGED vars
  PROVE  Unique'
  <1>2. ASSUME NEW mode \in Modes, NEW element \in Element, Insert(mode, element),
               mode \in {"ReplaceCurrent", "ReplaceNexts"} => ~Empty
        PROVE  Unique'
    <2>1. ~InList(element.index)
      BY <1>2 DEF Insert
    <2> QED
      BY <1>2, <2>1, InsertAdds, PutKeepsUnique
  <1>3. CASE (\E id \in Ids : Update(id)) \/ RunWait \/ EnterBlock \/ LeaveBlock \/ UNCHANGED vars
    <2>1. UNCHANGED <<elements, insert_idx, current_idx>>
      BY <1>3 DEF Update, RunWait, EnterBlock, LeaveBlock, vars, queue
    <2> QED
      BY <2>1, ShrinkKeepsUnique DEF Live
  <1>4. CASE NextMission
    BY <1>4, ShrinkKeepsUnique, AdvanceShrinks DEF NextMission
  <1>5. CASE EndMission
    <2>1. UNCHANGED elements /\ current_idx' = insert_idx' /\ insert_idx' \in Slots
      BY <1>5 DEF EndMission, MissionInv, TypeOK
    <2>2. Live' = {}
      BY <2>1, MissionAssumption DEF Live, Slots
    <2> QED
      BY <2>1, <2>2, ShrinkKeepsUnique
  <1>6. CASE RunElement
    <2>1. UNCHANGED <<elements, insert_idx>> /\ ~Empty
      BY <1>6 DEF RunElement
    <2>2. current_idx' = After(current_idx, 1) \/ current_idx' = current_idx
      BY <1>6, Zenon DEF RunElement, Advance
    <2>3. CASE current_idx' = current_idx
      BY <2>1, <2>3, ShrinkKeepsUnique DEF Live
    <2> QED
      BY <2>1, <2>2, <2>3, ShrinkKeepsUnique, AdvanceShrinks
  <1> QED
    BY <1>2, <1>3, <1>4, <1>5, <1>6 DEF Ordered

LEMMA OrderedStep == OrderedInv /\ [OrderedNext]_orderedVars => OrderedInv'
  <1> SUFFICES ASSUME OrderedInv, [OrderedNext]_orderedVars PROVE OrderedInv'
    OBVIOUS
  <1>1. [Next]_vars
    BY OrderedIsMission DEF OrderedNext, orderedVars
  <1>2. MissionInv /\ MissionInv'
    BY <1>1, MissionStep DEF OrderedInv
  <1>3. CASE Undisciplined /\ disciplined' = FALSE
    BY <1>2, <1>3 DEF OrderedInv, UniqueIds
  <1>4. CASE (Ordered \/ UNCHANGED vars) /\ UNCHANGED disciplined
    <2>1. disciplined' \in BOOLEAN
      BY <1>4 DEF OrderedInv
    <2>2. ASSUME disciplined' PROVE Unique'
      BY <1>2, <1>4, <2>2, UniqueStep DEF OrderedInv, UniqueIds, Unique
    <2> QED
      BY <1>2, <2>1, <2>2 DEF OrderedInv, UniqueIds, Unique
  <1> QED
    BY <1>3, <1>4 DEF OrderedNext, orderedVars

LEMMA OrderedStart == Init /\ disciplined = TRUE => OrderedInv
  <1>1. Init => UniqueIds
    BY MissionAssumption DEF Init, UniqueIds, Live, Slots
  <1> QED
    BY <1>1, MissionInit DEF OrderedInv

(* No two slots of the list carry one id while the discipline is kept, in  *)
(* lists of every size.                                                    *)
THEOREM MissionUnique == OrderedSpec => []UniqueIds
  <1>1. OrderedInv => UniqueIds
    BY DEF OrderedInv
  <1> QED
    BY OrderedStep, OrderedStart, <1>1, PTL DEF OrderedSpec, OrderedInit

-----------------------------------------------------------------------------
(* The ring as a queue.  A slot never written is blank.                    *)
Entries == Element \cup {Blank}

(* The library proves this with an operator for a parameter.               *)
LEMMA FunctionIsSeq ==
  ASSUME NEW S, NEW n \in Nat, NEW f \in [1..n -> S]
  PROVE  f \in Seq(S) /\ Len(f) = n
<1>1. f \in Seq(S)
  BY SeqDef
<1>2. DOMAIN f = 1..n /\ DOMAIN f = 1..Len(f) /\ Len(f) \in Nat
  BY <1>1, LenProperties
<1>3. 1..n = 1..Len(f)
  BY <1>2
<1>4. Len(f) = n
  BY <1>2, <1>3
<1> QED
  BY <1>1, <1>4

(* The list is a sequence of the entries in its slots.                     *)
ListOK ==
  /\ Length \in 0..NB - 1
  /\ List \in Seq(Entries) /\ Len(List) = Length
  /\ \A k \in 1..Length : SlotAt(k) \in Live /\ List[k] = elements[SlotAt(k)]

LEMMA LiveSlots ==
  ASSUME TypeOK
  PROVE  /\ Length \in 0..NB - 1
         /\ \A k \in 1..Length : SlotAt(k) \in Live
  BY MissionAssumption DEF TypeOK, Length, SlotAt, Live, Slots

LEMMA ListIsSeq == MissionInv => ListOK
<1> SUFFICES ASSUME MissionInv PROVE ListOK
  OBVIOUS
<1>1. /\ Length \in 0..NB - 1
      /\ \A k \in 1..Length : SlotAt(k) \in Live
  BY LiveSlots DEF MissionInv
<1>2. \A k \in 1..Length : elements[SlotAt(k)] \in Entries
  BY <1>1 DEF Live, MissionInv, TypeOK, Entries
<1>3. Length \in Nat
  BY <1>1, MissionAssumption
<1>4. List \in [1..Length -> Entries] /\ \A k \in 1..Length : List[k] = elements[SlotAt(k)]
  BY <1>2 DEF List
<1>5. List \in Seq(Entries) /\ Len(List) = Length
  BY <1>3, <1>4, FunctionIsSeq
<1> QED
  BY <1>1, <1>4, <1>5 DEF ListOK

LEMMA ListIsSeqNext == MissionInv' => ListOK'
  BY ListIsSeq, PTL

(* How two states of the list are compared.                                *)
LEMMA ListBecomes ==
  ASSUME MissionInv', NEW s \in Seq(Entries), Len(s) = Length',
         ASSUME NEW k \in 1..Length' PROVE elements'[SlotAt(k)'] = s[k]
  PROVE  List' = s
<1>1. ListOK'
  BY ListIsSeqNext
<1>2. /\ List' \in Seq(Entries) /\ Len(List') = Length'
      /\ \A k \in 1..Length' : List'[k] = elements'[SlotAt(k)']
  BY <1>1 DEF ListOK
<1>3. \A k \in 1..Length' : elements'[SlotAt(k)'] = s[k]
  OBVIOUS
<1> QED
  BY <1>2, <1>3, SeqEqual

(* An insertion writes an element and moves the indices as follows.        *)
LEMMA Written ==
  ASSUME MissionInv, NEW slot \in Slots, NEW element \in Element, Put(slot, element)
  PROVE  /\ elements'[slot] = element
         /\ \A i \in Slots : i # slot => elements'[i] = elements[i]
  BY DEF Put, MissionInv, TypeOK

LEMMA InRing == ASSUME MissionInv PROVE current_idx \in Slots /\ insert_idx \in Slots
  BY DEF MissionInv, TypeOK

LEMMA AppendLists ==
  ASSUME MissionInv, MissionInv', NEW element \in Element, AppendLast(element)
  PROVE  Len(List) < NB - 1 /\ List' = Append(List, element)
<1>1. ListOK
  BY ListIsSeq
<1>2. /\ Put(insert_idx, element) /\ insert_idx' = After(insert_idx, 1)
      /\ After(insert_idx, 1) # current_idx /\ current_idx' = current_idx
  BY DEF AppendLast
<1>3. /\ Length < NB - 1 /\ Length' = Length + 1
      /\ \A k \in 1..Length : SlotAt(k)' = SlotAt(k) /\ SlotAt(k) # insert_idx
      /\ \A k : k = Length + 1 => SlotAt(k)' = insert_idx
  <2>1. /\ current_idx \in Slots /\ insert_idx \in Slots
        /\ insert_idx' = IF insert_idx = NB - 1 THEN 0 ELSE insert_idx + 1
        /\ insert_idx' # current_idx /\ current_idx' = current_idx
    BY <1>2, InRing, AfterOne
  <2>2. Length < NB - 1 /\ Length' = Length + 1
    BY <2>1, MissionAssumption DEF Length, Slots
  <2>3. ASSUME NEW k \in 1..Length PROVE SlotAt(k)' = SlotAt(k) /\ SlotAt(k) # insert_idx
    BY <2>1, MissionAssumption DEF Length, SlotAt, Slots
  <2>4. ASSUME NEW k, k = Length + 1 PROVE SlotAt(k)' = insert_idx
    BY <2>1, <2>4, MissionAssumption DEF Length, SlotAt, Slots
  <2> QED
    BY <2>2, <2>3, <2>4
<1> DEFINE s == Append(List, element)
<1>4. /\ s \in Seq(Entries) /\ Len(s) = Length + 1
      /\ \A k \in 1..Length : s[k] = List[k]
      /\ s[Length + 1] = element
  BY <1>1, AppendProperties DEF ListOK, Entries
<1> HIDE DEF s
<1>5. ASSUME NEW k \in 1..Length' PROVE elements'[SlotAt(k)'] = s[k]
  <2>1. CASE k \in 1..Length
    <3>1. SlotAt(k) \in Slots /\ List[k] = elements[SlotAt(k)]
      BY <1>1, <2>1 DEF ListOK, Live
    <3>2. elements'[SlotAt(k)] = elements[SlotAt(k)]
      BY <1>2, <1>3, <2>1, <3>1, InRing, Written
    <3>3. SlotAt(k)' = SlotAt(k) /\ s[k] = List[k]
      BY <1>3, <1>4, <2>1
    <3> QED
      BY <3>1, <3>2, <3>3
  <2>2. CASE k = Length + 1
    <3>1. SlotAt(k)' = insert_idx /\ s[k] = element
      BY <1>3, <1>4, <2>2
    <3>2. elements'[insert_idx] = element
      BY <1>2, InRing, Written
    <3> QED
      BY <3>1, <3>2
  <2> QED
    BY <1>1, <1>3, <2>1, <2>2, MissionAssumption DEF ListOK
<1>6. List' = s
  BY <1>3, <1>4, <1>5, ListBecomes
<1> QED
  BY <1>1, <1>3, <1>6 DEF ListOK, s

(* The queue with element put before q.                                    *)
LEMMA Pushed ==
  ASSUME NEW element \in Entries, NEW q \in Seq(Entries)
  PROVE  /\ <<element>> \o q \in Seq(Entries)
         /\ Len(<<element>> \o q) = Len(q) + 1
         /\ (<<element>> \o q)[1] = element
         /\ \A k \in 1..Len(q) : (<<element>> \o q)[k + 1] = q[k]
<1>1. <<element>> \in Seq(Entries) /\ Len(<<element>>) = 1 /\ <<element>>[1] = element
  OBVIOUS
<1>2. Len(q) \in Nat
  BY LenProperties
<1> HIDE DEF Entries
<1>3. /\ <<element>> \o q \in Seq(Entries)
      /\ Len(<<element>> \o q) = 1 + Len(q)
      /\ \A k \in 1..1 + Len(q) : (<<element>> \o q)[k] = IF k <= 1 THEN <<element>>[k] ELSE q[k - 1]
  BY <1>1, ConcatProperties
<1>4. (<<element>> \o q)[1] = element
  BY <1>1, <1>2, <1>3
<1>5. ASSUME NEW k \in 1..Len(q) PROVE (<<element>> \o q)[k + 1] = q[k]
  BY <1>2, <1>3
<1> QED
  BY <1>2, <1>3, <1>4, <1>5

LEMMA PrependLists ==
  ASSUME MissionInv, MissionInv', NEW element \in Element, Prepend(element)
  PROVE  Len(List) < NB - 1 /\ List' = <<element>> \o List
<1>1. ListOK
  BY ListIsSeq
<1>2. /\ Put(Before(current_idx), element) /\ current_idx' = Before(current_idx)
      /\ Before(current_idx) # insert_idx /\ insert_idx' = insert_idx
  BY DEF Prepend
<1>3. /\ Length < NB - 1 /\ Length' = Length + 1
      /\ \A k \in 1..Length : SlotAt(k + 1)' = SlotAt(k) /\ SlotAt(k) # Before(current_idx)
      /\ SlotAt(1)' = Before(current_idx)
  BY <1>2, InRing, MissionAssumption DEF Length, SlotAt, Slots, Before
<1> DEFINE s == <<element>> \o List
<1>4. /\ s \in Seq(Entries) /\ Len(s) = Length + 1
      /\ s[1] = element
      /\ \A k \in 1..Length : s[k + 1] = List[k]
  BY <1>1, Pushed DEF ListOK, Entries
<1> HIDE DEF s
<1>5. ASSUME NEW k \in 1..Length' PROVE elements'[SlotAt(k)'] = s[k]
  <2>1. CASE k = 1
    BY <1>2, <1>3, <1>4, <2>1, InRing, Neighbours, Written
  <2>2. CASE k # 1
    <3>1. PICK j \in 1..Length : k = j + 1
      <4>1. Length \in Nat /\ k - 1 \in 1..Length /\ k = (k - 1) + 1
        BY <1>1, <1>3, <2>2, MissionAssumption DEF ListOK
      <4> QED
        BY <4>1
    <3>2. SlotAt(j) \in Slots /\ List[j] = elements[SlotAt(j)]
      BY <1>1 DEF ListOK, Live
    <3>3. elements'[SlotAt(j)] = elements[SlotAt(j)]
      BY <1>2, <1>3, <3>2, InRing, Neighbours, Written
    <3>4. SlotAt(j + 1)' = SlotAt(j) /\ s[j + 1] = List[j]
      BY <1>3, <1>4
    <3> QED
      BY <3>1, <3>2, <3>3, <3>4
  <2> QED
    BY <2>1, <2>2
<1>6. List' = s
  BY <1>3, <1>4, <1>5, ListBecomes
<1> QED
  BY <1>1, <1>3, <1>6 DEF ListOK, s

LEMMA ReplaceCurrentLists ==
  ASSUME MissionInv, MissionInv', NEW element \in Element, ~Empty, ReplaceCurrent(element)
  PROVE  List # << >> /\ List' = <<element>> \o Tail(List)
<1>1. ListOK
  BY ListIsSeq
<1>2. /\ Put(current_idx, element) /\ current_idx' = current_idx
      /\ insert_idx' = insert_idx /\ current_idx # insert_idx
  BY DEF ReplaceCurrent, Empty
<1>3. /\ Length \in Nat \ {0} /\ Length' = Length
      /\ \A k \in 1..Length : SlotAt(k)' = SlotAt(k)
      /\ \A k \in 1..Length : SlotAt(k) = current_idx <=> k = 1
      /\ SlotAt(1) = current_idx
  BY <1>2, InRing, MissionAssumption DEF Length, SlotAt, Slots
<1>4. List # << >>
  BY <1>1, <1>3, EmptySeq DEF ListOK
<1>5. /\ Tail(List) \in Seq(Entries) /\ Len(Tail(List)) = Length - 1
      /\ \A k \in 1..Length - 1 : Tail(List)[k] = List[k + 1]
  BY <1>1, <1>4, HeadTailProperties DEF ListOK
<1> DEFINE s == <<element>> \o Tail(List)
<1>6. /\ s \in Seq(Entries) /\ Len(s) = Length
      /\ s[1] = element
      /\ \A k \in 1..Length - 1 : s[k + 1] = List[k + 1]
  <2>1. element \in Entries
    BY DEF Entries
  <2> HIDE DEF Entries
  <2>2. /\ s \in Seq(Entries) /\ Len(s) = Len(Tail(List)) + 1
        /\ s[1] = element
        /\ \A k \in 1..Len(Tail(List)) : s[k + 1] = Tail(List)[k]
    BY <1>5, <2>1, Pushed
  <2> HIDE DEF s
  <2> QED
    BY <1>3, <1>5, <2>2
<1> HIDE DEF s
<1>7. ASSUME NEW k \in 1..Length' PROVE elements'[SlotAt(k)'] = s[k]
  <2>1. CASE k = 1
    BY <1>2, <1>3, <1>6, <2>1, InRing, Written
  <2>2. CASE k # 1
    <3>1. s[k] = List[k]
      <4>1. k - 1 \in 1..Length - 1 /\ (k - 1) + 1 = k
        BY <1>3, <2>2
      <4> QED
        BY <1>6, <4>1
    <3>2. k \in 1..Length /\ SlotAt(k)' = SlotAt(k) /\ SlotAt(k) # current_idx
      BY <1>3, <2>2
    <3>3. SlotAt(k) \in Slots /\ List[k] = elements[SlotAt(k)]
      BY <1>1, <3>2 DEF ListOK, Live
    <3> QED
      BY <1>2, <3>1, <3>2, <3>3, InRing, Written
  <2> QED
    BY <2>1, <2>2
<1>8. List' = s
  BY <1>3, <1>6, <1>7, ListBecomes
<1> QED
  BY <1>4, <1>8 DEF s

LEMMA ReplaceAllLists ==
  ASSUME MissionInv, MissionInv', NEW element \in Element, ReplaceAll(element)
  PROVE  List' = <<element>>
<1>1. Put(0, element) /\ current_idx' = 0 /\ insert_idx' = 1
  BY DEF ReplaceAll
<1>2. /\ Length' = 1
      /\ \A k : k = 1 => SlotAt(k)' = 0
  BY <1>1, MissionAssumption DEF Length, SlotAt
<1>3. <<element>> \in Seq(Entries) /\ Len(<<element>>) = 1 /\ <<element>>[1] = element
  BY DEF Entries
<1>4. elements'[0] = element
  BY <1>1, ZeroOne, Written
<1>5. ASSUME NEW k \in 1..Length' PROVE elements'[SlotAt(k)'] = <<element>>[k]
  BY <1>2, <1>3, <1>4
<1> QED
  BY <1>2, <1>3, <1>5, ListBecomes

LEMMA ReplaceNextsLists ==
  ASSUME MissionInv, MissionInv', NEW element \in Element, ~Empty, ReplaceNexts(element)
  PROVE  List # << >> /\ List' = <<Head(List), element>>
<1>1. ListOK
  BY ListIsSeq
<1>2. /\ Put(After(current_idx, 1), element) /\ current_idx' = current_idx
      /\ insert_idx' = After(current_idx, 2) /\ current_idx # insert_idx
  BY DEF ReplaceNexts, Empty
<1>3. /\ After(current_idx, 1) = IF current_idx = NB - 1 THEN 0 ELSE current_idx + 1
      /\ After(current_idx, 2) = IF current_idx >= NB - 2 THEN current_idx + 2 - NB
                                 ELSE current_idx + 2
      /\ current_idx \in Slots /\ insert_idx \in Slots
  BY InRing, AfterOne, AfterTwo
<1>4. /\ Length \in Nat \ {0} /\ SlotAt(1) = current_idx
      /\ Length' = 2
      /\ \A k : k = 1 => SlotAt(k)' = current_idx
      /\ \A k : k = 2 => SlotAt(k)' = After(current_idx, 1)
  BY <1>2, <1>3, MissionAssumption DEF Length, SlotAt, Slots
<1>5. List # << >>
  BY <1>1, <1>4, EmptySeq DEF ListOK
<1>6. Head(List) \in Entries /\ Head(List) = elements[current_idx]
  <2>1. List[1] = elements[current_idx]
    BY <1>1, <1>4 DEF ListOK
  <2> QED
    BY <1>1, <1>5, <2>1, HeadTailProperties DEF ListOK
<1> DEFINE s == <<Head(List), element>>
<1>7. s \in Seq(Entries) /\ Len(s) = 2 /\ s[1] = Head(List) /\ s[2] = element
  BY <1>6 DEF Entries
<1> HIDE DEF s
<1>8. /\ elements'[After(current_idx, 1)] = element
      /\ elements'[current_idx] = elements[current_idx]
  BY <1>2, <1>3, Neighbours, Written
<1>9. ASSUME NEW k \in 1..Length' PROVE elements'[SlotAt(k)'] = s[k]
  <2>1. k = 1 \/ k = 2
    BY <1>4
  <2> QED
    BY <1>4, <1>6, <1>7, <1>8, <2>1
<1>10. List' = s
  BY <1>4, <1>7, <1>9, ListBecomes
<1> QED
  BY <1>5, <1>10 DEF s

LEMMA AdvanceLists ==
  ASSUME MissionInv, MissionInv', ~Empty, current_idx' = After(current_idx, 1),
         UNCHANGED <<insert_idx, elements>>
  PROVE  List # << >> /\ List' = Tail(List)
<1>1. ListOK
  BY ListIsSeq
<1>2. /\ current_idx' = IF current_idx = NB - 1 THEN 0 ELSE current_idx + 1
      /\ current_idx \in Slots /\ insert_idx \in Slots /\ current_idx # insert_idx
      /\ insert_idx' = insert_idx
  BY InRing, AfterOne DEF Empty
<1>3. Length \in Nat \ {0} /\ Length' = Length - 1
  BY <1>2, MissionAssumption DEF Length, Slots
<1>4. ASSUME NEW k \in 1..Length - 1 PROVE SlotAt(k)' = SlotAt(k + 1)
  BY <1>2, <1>4, MissionAssumption DEF Length, SlotAt, Slots
<1>5. List # << >>
  BY <1>1, <1>3, EmptySeq DEF ListOK
<1>6. /\ Tail(List) \in Seq(Entries) /\ Len(Tail(List)) = Length - 1
      /\ \A k \in 1..Length - 1 : Tail(List)[k] = List[k + 1]
  BY <1>1, <1>5, HeadTailProperties DEF ListOK
<1>7. ASSUME NEW k \in 1..Length' PROVE elements'[SlotAt(k)'] = Tail(List)[k]
  <2>1. k \in 1..Length - 1 /\ k + 1 \in 1..Length
    BY <1>3
  <2> QED
    BY <1>1, <1>4, <1>6, <2>1 DEF ListOK
<1> QED
  BY <1>3, <1>5, <1>6, <1>7, ListBecomes

LEMMA NoList ==
  ASSUME MissionInv', NEW i \in Slots, current_idx' = i, insert_idx' = i
  PROVE  List' = << >>
<1>1. ListOK'
  BY ListIsSeqNext
<1>2. Length' = 0
  BY MissionAssumption DEF Length, Slots
<1> QED
  BY <1>1, <1>2, EmptySeq DEF ListOK

(* The queue of the mapping in OrderedMission.                             *)
Q == IF disciplined THEN List ELSE << >>

(* A fresh id is one that no slot of the list has.                         *)
LEMMA FreshIds ==
  ASSUME MissionInv, disciplined, NEW element \in Element, ~InList(element.index)
  PROVE  Queue!Fresh(element)
<1>1. ListOK
  BY ListIsSeq
<1>2. \A k \in 1..Length : List[k].index # element.index
  BY <1>1 DEF ListOK, InList
<1> QED
  BY <1>1, <1>2 DEF ListOK, Queue!Fresh

LEMMA InsertMaps ==
  ASSUME MissionInv, MissionInv', disciplined, disciplined',
         NEW mode \in Modes, NEW element \in Element, Insert(mode, element),
         mode \in {"ReplaceCurrent", "ReplaceNexts"} => ~Empty
  PROVE  Queue!Next
<1>1. Queue!Fresh(element)
  BY FreshIds DEF Insert
<1>2. CASE AppendLast(element)
  <2>1. Queue!Enqueue(element)
    BY <1>2, AppendLists DEF Queue!Enqueue
  <2> QED
    BY <1>1, <2>1 DEF Queue!Next
<1>3. CASE Prepend(element)
  <2>1. Queue!Push(element)
    BY <1>3, PrependLists DEF Queue!Push
  <2> QED
    BY <1>1, <2>1 DEF Queue!Next
<1>4. CASE mode = "ReplaceCurrent" /\ ReplaceCurrent(element)
  <2>1. Queue!ReplaceHead(element)
    BY <1>4, ReplaceCurrentLists DEF Queue!ReplaceHead
  <2> QED
    BY <1>1, <2>1 DEF Queue!Next
<1>5. CASE ReplaceAll(element)
  <2>1. Queue!Restart(element)
    BY <1>5, ReplaceAllLists DEF Queue!Restart
  <2> QED
    BY <1>1, <2>1 DEF Queue!Next
<1>6. CASE mode = "ReplaceNexts" /\ ReplaceNexts(element)
  <2>1. Queue!ReplaceRest(element)
    BY <1>6, ReplaceNextsLists DEF Queue!ReplaceRest
  <2> QED
    BY <1>1, <2>1 DEF Queue!Next
<1> QED
  BY <1>2, <1>3, <1>4, <1>5, <1>6 DEF Insert

LEMMA OrderedMaps ==
  ASSUME MissionInv, MissionInv', disciplined, disciplined', Ordered \/ UNCHANGED vars
  PROVE  Queue!Next \/ List' = List
<1>1. CASE \E mode \in Modes, element \in Element :
             /\ mode \in {"ReplaceCurrent", "ReplaceNexts"} => ~Empty
             /\ Insert(mode, element)
  BY <1>1, InsertMaps
<1>2. ASSUME UNCHANGED <<elements, insert_idx, current_idx>> PROVE List' = List
  BY <1>2 DEF List, Length, SlotAt
<1>3. ASSUME ~Empty, current_idx' = After(current_idx, 1), UNCHANGED <<insert_idx, elements>>
      PROVE  Queue!Next
  BY <1>3, AdvanceLists DEF Queue!Next, Queue!Dequeue
<1>4. CASE (\E id \in Ids : Update(id)) \/ RunWait \/ EnterBlock \/ LeaveBlock \/ UNCHANGED vars
  BY <1>2, <1>4 DEF Update, RunWait, EnterBlock, LeaveBlock, vars, queue
<1>5. CASE NextMission
  BY <1>3, <1>5 DEF NextMission
<1>6. CASE EndMission
  BY <1>6, InRing, NoList DEF EndMission, Queue!Next, Queue!Clear
<1>7. CASE RunElement
  <2>1. UNCHANGED <<elements, insert_idx>> /\ ~Empty
    BY <1>7 DEF RunElement
  <2>2. current_idx' = After(current_idx, 1) \/ current_idx' = current_idx
    BY <1>7, Zenon DEF RunElement, Advance
  <2> QED
    BY <1>2, <1>3, <2>1, <2>2
<1> QED
  BY <1>1, <1>4, <1>5, <1>6, <1>7 DEF Ordered

(* Under the discipline every message and every step of mission_run is a   *)
(* step of the queue or none, in rings of every size.                      *)
THEOREM MissionImplements == OrderedSpec => ImplementsQueue
<1>1. OrderedInit => Queue!Init
  <2> SUFFICES ASSUME OrderedInit PROVE List = << >>
    BY DEF Queue!Init
  <2>1. ListOK
    BY MissionInit, ListIsSeq DEF OrderedInit
  <2>2. Length = 0
    BY DEF OrderedInit, Init, Length
  <2> QED
    BY <2>1, <2>2, EmptySeq DEF ListOK
<1>2. OrderedInv /\ OrderedInv' /\ [OrderedNext]_orderedVars => [Queue!Next]_Q
  <2> SUFFICES ASSUME OrderedInv, OrderedInv', [OrderedNext]_orderedVars
               PROVE  Queue!Next \/ Q' = Q
    OBVIOUS
  <2>1. CASE Undisciplined /\ disciplined' = FALSE
    BY <2>1 DEF Queue!Next, Queue!Clear
  <2>2. CASE (Ordered \/ UNCHANGED vars) /\ UNCHANGED disciplined
    <3>1. CASE disciplined
      BY <2>2, <3>1, OrderedMaps DEF OrderedInv, Q
    <3>2. CASE ~disciplined
      BY <2>2, <3>2 DEF Q
    <3> QED
      BY <3>1, <3>2
  <2> QED
    BY <2>1, <2>2 DEF OrderedNext, orderedVars
<1>3. OrderedSpec => []OrderedInv
  <2>1. OrderedInit => OrderedInv
    BY OrderedStart DEF OrderedInit
  <2> QED
    BY <2>1, OrderedStep, PTL DEF OrderedSpec
<1> QED
  BY <1>1, <1>2, <1>3, PTL DEF OrderedSpec, ImplementsQueue, Queue!Spec, Q
=============================================================================
